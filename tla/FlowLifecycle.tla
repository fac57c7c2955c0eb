--------------------------- MODULE FlowLifecycle ---------------------------
(***************************************************************************)
(* The lifecycle of one flow: start, pause, resume, drain, resize of a     *)
(* pool, stop and reset (turbo_flow/src/flow_runtime.c), with the adapters *)
(* they start and stop (flow_adapter.c) and the publishers whose work they *)
(* must never pull the pools away from.                                    *)
(*                                                                         *)
(* The host issues start, resize and reset one after the other, as the API *)
(* asks; pause, resume, drain and stop may come from any thread at any     *)
(* time.  A command that has to wait, or that calls back into adapters, is *)
(* several steps; what it does under runtime_mutex is one.                 *)
(***************************************************************************)
EXTENDS FlowAdmission, FiniteSets

CONSTANTS
    Publishers,    \* threads that publish
    Host,          \* the thread that serialises the configuration commands
    Operators,     \* further threads that pause, resume, drain and stop it
    Adapters,      \* adapters with a start and a stop callback, by stage order
    Sources,       \* those that feed a source
    Managed,       \* the sources that own a run of the flow (at most one here)
    Parallelism,   \* pool sizes an operator may ask for
    MaxGeneration, \* the last runtime generation (UINT64_MAX in the code)
    DrainTimed,    \* whether drains carry a deadline: a set of BOOLEAN
    MaxFaults      \* bound: failures of callbacks and of resource creation

ASSUME LifecycleAssumption ==
    /\ Sources \subseteq Adapters /\ Managed \subseteq Sources
    /\ Parallelism \subseteq Nat \ {0}

VARIABLES
    generation,    \* runtime_generation
    configured,    \* parallelism in the stage's runtime configuration
    built,         \* parallelism the running pools were built with; 0 = none
    reactive,      \* reactive_scheduler_initialized
    adapter,       \* active_adapters: adapter -> "OFF" or "ON" (not yet stopped)
    managedRun,    \* the managed source's run, which holds one publication
    retryable,     \* adapter_stop_retryable
    pc,            \* thread -> the command it is in
    inside,        \* publishers executing the graph
    intent,        \* history: the gate position last commanded, or "GAVE_UP" when a resize
                   \* that ran out of time has paused a gate commanded open
    faults         \* history: failures so far

lifeVars == <<generation, configured, built, reactive, adapter, managedRun, retryable>>
vars == <<state, admission, active, lifeVars, pc, inside, intent, faults>>

Threads == {Host} \cup Operators

Idle == [at |-> "idle", why |-> "NONE", status |-> "OK", arg |-> 0]

Init ==
    /\ state = "COMPILED" /\ admission = "CLOSED" /\ active = 0
    /\ generation = 1
    /\ configured \in Parallelism
    /\ built = 0
    /\ reactive = "DOWN"
    /\ adapter = [a \in Adapters |-> "OFF"]
    /\ managedRun = "NONE"
    /\ retryable = "NO"
    /\ pc = [t \in Threads |-> Idle]
    /\ inside = {}
    /\ intent = "CLOSED"
    /\ faults = 0

At(t, where) == pc[t].at = where

Goto(t, where) == pc' = [pc EXCEPT ![t].at = where]

Return(t) == pc' = [pc EXCEPT ![t] = Idle]

Enter(t, where, why) == pc' = [pc EXCEPT ![t] = [Idle EXCEPT !.at = where, !.why = why]]

Fault == faults < MaxFaults /\ faults' = faults + 1

(***************************************************************************)
(* Publishers.                                                             *)
(***************************************************************************)
Publish(p) ==
    /\ p \notin inside
    /\ PublishEnter
    /\ inside' = inside \cup {p}
    /\ UNCHANGED <<lifeVars, pc, intent, faults>>

(* Mutant: a publisher that leaves is still counted. *)
LeaveCounted(p) ==
    /\ p \in inside
    /\ inside' = inside \ {p}
    /\ UNCHANGED <<gateVars, lifeVars, pc, intent, faults>>

Leave(p) ==
    /\ p \in inside
    /\ inside' = inside \ {p}
    /\ PublishLeave
    /\ UNCHANGED <<lifeVars, pc, intent, faults>>

(* The managed source's stream ends: its run finishes and gives its
   publication back. *)
ManagedRunEnds ==
    /\ managedRun = "OPEN"
    /\ managedRun' = "ENDED"
    /\ PublishLeave
    /\ UNCHANGED <<generation, configured, built, reactive, adapter, retryable, pc, inside, intent,
                   faults>>

(***************************************************************************)
(* Pause, resume and drain.                                                *)
(***************************************************************************)
Pause(t) ==
    /\ At(t, "idle")
    /\ CloseGate
    /\ intent' = "PAUSED"
    /\ UNCHANGED <<lifeVars, pc, inside, faults>>

Resume(t) ==
    /\ At(t, "idle")
    /\ OpenGate
    /\ intent' = "OPEN"
    /\ UNCHANGED <<lifeVars, pc, inside, faults>>

Drain(t, timed) ==
    /\ At(t, "idle")
    /\ CloseGate
    /\ intent' = "PAUSED"
    /\ Enter(t, "draining", IF timed THEN "TIMED" ELSE "FOREVER")
    /\ UNCHANGED <<lifeVars, inside, faults>>

DrainReturns(t) ==
    /\ At(t, "draining")
    /\ DrainAnswers(pc[t].why = "TIMED") # {}
    /\ Return(t)
    /\ UNCHANGED <<gateVars, lifeVars, inside, intent, faults>>

(***************************************************************************)
(* Taking a flow down.  turbo_flow_stop, the rollback of a failed start,   *)
(* the give-up of a failed resize and flow_clear_plan all stop the         *)
(* adapters that consume, close the managed source's run, wait for every   *)
(* publication, stop the source adapters and then release resources.       *)
(***************************************************************************)
(* One flow_stop_adapter_phase: every adapter of A that is still on has its
   stop called; the ones that report an error stay on. *)
StopPhase(t, A) ==
    \E failed \in SUBSET {a \in A : adapter[a] = "ON"} :
        /\ adapter' = [a \in Adapters |-> IF a \in A \ failed THEN "OFF" ELSE adapter[a]]
        /\ IF failed = {} THEN UNCHANGED faults ELSE Fault
        /\ pc' = [pc EXCEPT ![t].at = IF @ = "nonsource" THEN "close"
                                     ELSE IF pc[t].why = "ROLLBACK" THEN "commit" ELSE "release",
                            ![t].status = IF failed = {} THEN @ ELSE "EIO"]

StopNonSources(t) ==
    /\ At(t, "nonsource")
    /\ StopPhase(t, Adapters \ Sources)
    /\ UNCHANGED <<gateVars, generation, configured, built, reactive, managedRun, retryable, inside,
                   intent>>

(* flow_close_managed_source_runs: cancels a run that has not ended, which
   gives its publication back. *)
CloseManagedRun(t) ==
    /\ At(t, "close")
    /\ Goto(t, "wait")
    /\ managedRun' = "NONE"
    /\ IF managedRun = "OPEN" THEN PublishLeave ELSE UNCHANGED gateVars
    /\ UNCHANGED <<generation, configured, built, reactive, adapter, retryable, inside, intent, faults>>

(* flow_wait_for_publishes *)
WaitForPublishes(t) ==
    /\ At(t, "wait")
    /\ active = 0
    /\ Goto(t, "source")
    /\ UNCHANGED <<gateVars, lifeVars, inside, intent, faults>>

StopSources(t) ==
    /\ At(t, "source")
    /\ StopPhase(t, Sources)
    /\ UNCHANGED <<gateVars, generation, configured, built, reactive, managedRun, retryable, inside,
                   intent>>

(* Pools, reorder states and executors go; the reactive scheduler goes with a
   stop and with a start's rollback only, and a retried stop releases nothing. *)
ReleaseResources(t) ==
    /\ At(t, "release")
    /\ IF pc[t].why = "ROLLBACK" THEN Return(t) ELSE Goto(t, "commit")
    /\ IF pc[t].why = "RETRY" THEN UNCHANGED <<built, reactive>>
       ELSE /\ built' = 0
            /\ reactive' = IF pc[t].why \in {"STOP", "ROLLBACK"} THEN "DOWN" ELSE reactive
    /\ UNCHANGED <<gateVars, generation, configured, adapter, managedRun, retryable, inside, intent,
                   faults>>

(* Mutant: a failed adapter stop is not remembered. *)
CommitForgetful(t) ==
    /\ At(t, "commit") /\ pc[t].why \in {"STOP", "RETRY"}
    /\ Return(t)
    /\ state' = "STOPPED" /\ admission' = "CLOSED" /\ retryable' = "NO"
    /\ intent' = "CLOSED"
    /\ UNCHANGED <<active, generation, configured, built, reactive, adapter, managedRun, inside, faults>>

(* The last lines of turbo_flow_stop. *)
CommitStop(t) ==
    /\ At(t, "commit") /\ pc[t].why \in {"STOP", "RETRY"}
    /\ Return(t)
    /\ admission' = "CLOSED"
    /\ IF pc[t].status = "OK" THEN state' = "STOPPED" /\ retryable' = "NO"
       ELSE state' = "FAILED" /\ retryable' = "YES"
    /\ intent' = "CLOSED"
    /\ UNCHANGED <<active, generation, configured, built, reactive, adapter, managedRun, inside, faults>>

(* A start whose rollback stopped every adapter leaves the flow as it was;
   otherwise flow_start_adapters fails it, before turbo_flow_start releases the
   resources. *)
CommitRollback(t) ==
    /\ At(t, "commit") /\ pc[t].why = "ROLLBACK"
    /\ Goto(t, "release")
    /\ IF pc[t].status = "OK" THEN UNCHANGED <<state, admission, retryable>>
       ELSE state' = "FAILED" /\ admission' = "CLOSED" /\ retryable' = "YES"
    /\ UNCHANGED <<active, generation, configured, built, reactive, adapter, managedRun, inside, intent,
                   faults>>

(* The resize that could not restore its pools. *)
CommitGiveUp(t) ==
    /\ At(t, "commit") /\ pc[t].why = "GIVEUP"
    /\ Return(t)
    /\ state' = "FAILED" /\ admission' = "CLOSED" /\ intent' = "CLOSED"
    /\ retryable' = IF pc[t].status = "OK" THEN "NO" ELSE "YES"
    /\ UNCHANGED <<active, generation, configured, built, reactive, adapter, managedRun, inside, faults>>

(* The end of turbo_flow_reset: adapter bindings are dropped whatever their
   stop reported. *)
CommitReset(t) ==
    /\ At(t, "commit") /\ pc[t].why = "CLEAR"
    /\ Return(t)
    /\ state' = "NEW"
    /\ adapter' = [a \in Adapters |-> "OFF"]
    /\ UNCHANGED <<admission, active, generation, configured, built, reactive, managedRun, retryable,
                   inside, intent, faults>>

(* turbo_flow_stop: EBUSY while the flow stops or resizes, EINVAL unless it is
   started or waits for a retry of its adapters' stop. *)
Stop(t) ==
    /\ At(t, "idle")
    /\ \/ state = "STARTED"
       \/ state = "FAILED" /\ retryable = "YES"
    /\ admission \notin {"STOPPING", "RESIZING"}
    /\ admission' = "STOPPING"
    /\ Enter(t, "nonsource", IF state = "STARTED" THEN "STOP" ELSE "RETRY")
    /\ UNCHANGED <<state, active, lifeVars, inside, intent, faults>>

(* flow_runtime_generation_commit *)
GenerationCommit == generation' = IF generation < MaxGeneration THEN generation + 1 ELSE generation

MayStart ==
    /\ At(Host, "idle")
    /\ state \in {"COMPILED", "STOPPED"}
    /\ generation < MaxGeneration

(* turbo_flow_start up to the adapters: pools, reorder states, executors and
   the reactive scheduler are created.  A creation that fails releases what was
   created before it, which leaves nothing to see; a reactive scheduler that is
   still there refuses the start with EALREADY. *)
Start ==
    /\ MayStart
    /\ reactive = "DOWN"
    /\ Enter(Host, "starting", "NONE")
    /\ built' = configured
    /\ reactive' = "UP"
    /\ UNCHANGED <<gateVars, generation, configured, adapter, managedRun, retryable, inside, intent, faults>>

(* A managed source is entered in active_adapters before its start is called and
   may open its run there, which takes a publication. *)
OpenManagedRun(started) ==
    IF Managed \subseteq started /\ Managed # {}
    THEN managedRun' = "OPEN" /\ active' = active + 1
    ELSE UNCHANGED <<managedRun, active>>

(* flow_start_adapters fails at some adapter: the ones before it are on, and so
   is a managed source that fails itself. *)
StartAdaptersFail ==
    /\ At(Host, "starting")
    /\ Fault
    /\ \E failing \in Adapters :
        LET before == {a \in Adapters : a < failing}
        IN  /\ adapter' = [a \in Adapters |->
                               IF a \in before \cup (Managed \cap {failing}) THEN "ON" ELSE "OFF"]
            /\ \/ OpenManagedRun(before)
               \/ failing \in Managed /\ OpenManagedRun({failing})
    /\ Enter(Host, "nonsource", "ROLLBACK")
    /\ UNCHANGED <<state, admission, generation, configured, built, reactive, retryable, inside, intent>>

StartCommits ==
    /\ At(Host, "starting")
    /\ adapter' = [a \in Adapters |-> "ON"]
    /\ OpenManagedRun(Adapters)
    /\ GenerationCommit
    /\ state' = "STARTED" /\ admission' = "OPEN" /\ retryable' = "NO" /\ intent' = "OPEN"
    /\ Return(Host)
    /\ UNCHANGED <<configured, built, reactive, inside, faults>>

(* turbo_flow_reset of a flow that is neither started nor waiting for a retry,
   whose durable buffers are idle.  flow_clear_plan closes the gate first. *)
Reset ==
    /\ At(Host, "idle")
    /\ state # "STARTED"
    /\ retryable = "NO"
    /\ admission' = "STOPPING"
    /\ Enter(Host, "nonsource", "CLEAR")
    /\ UNCHANGED <<state, active, lifeVars, inside, intent, faults>>

(* turbo_flow_parse and turbo_flow_compile of the next plan, or a recompilation of
   a stopped flow; an error fails the flow, and a reset is needed. *)
Compile ==
    /\ At(Host, "idle")
    /\ state \in {"NEW", "STOPPED"}
    /\ \/ /\ generation < MaxGeneration
          /\ state' = "COMPILED" /\ generation' = generation + 1
          /\ UNCHANGED faults
       \/ state' = "FAILED" /\ Fault /\ UNCHANGED generation
       \/ generation = MaxGeneration /\ state' = "FAILED" /\ UNCHANGED <<generation, faults>>
    /\ UNCHANGED <<admission, active, configured, built, reactive, adapter, managedRun, retryable, pc,
                   inside, intent>>

(***************************************************************************)
(* Resize.                                                                 *)
(***************************************************************************)
(* turbo_flow_resize_pool with the right expected_generation and a parallelism
   that differs; every other call returns without effect. *)
Resize(p, timed) ==
    /\ At(Host, "idle")
    /\ CommandStatus = "OK"
    /\ p # configured
    /\ generation < MaxGeneration
    /\ admission' = "RESIZING"
    /\ pc' = [pc EXCEPT ![Host] = [at |-> "resizing", why |-> IF timed THEN "TIMED" ELSE "FOREVER",
                                   status |-> admission, arg |-> p]]
    /\ UNCHANGED <<state, active, lifeVars, inside, intent, faults>>

(* The drain of a resize times out: the flow is left paused, whatever it was. *)
ResizeTimesOut ==
    /\ At(Host, "resizing") /\ pc[Host].why = "TIMED"
    /\ active > 0
    /\ admission' = "PAUSED"
    /\ intent' = IF intent = "OPEN" THEN "GAVE_UP" ELSE intent
    /\ Return(Host)
    /\ UNCHANGED <<state, active, lifeVars, inside, faults>>

(* Mutant: the pools are torn down under the publications still in them. *)
ResizeUndrained ==
    /\ At(Host, "resizing")
    /\ configured' = pc[Host].arg
    /\ built' = 0
    /\ pc' = [pc EXCEPT ![Host].at = "rebuild", ![Host].arg = configured]
    /\ UNCHANGED <<gateVars, generation, reactive, adapter, managedRun, retryable, inside, intent, faults>>

(* Every publication is out: the new parallelism is applied and
   flow_rebuild_pool_resources stops the old pools. *)
ResizeApplies ==
    /\ At(Host, "resizing")
    /\ active = 0
    /\ configured' = pc[Host].arg
    /\ built' = 0
    /\ pc' = [pc EXCEPT ![Host].at = "rebuild", ![Host].arg = configured]
    /\ UNCHANGED <<gateVars, generation, reactive, adapter, managedRun, retryable, inside, intent, faults>>

(* Mutant: a finished resize opens the gate whatever it was before. *)
RebuildOpens ==
    /\ At(Host, "rebuild") \/ At(Host, "rebuild_old")
    /\ built' = configured
    /\ GenerationCommit
    /\ admission' = "OPEN"
    /\ Return(Host)
    /\ UNCHANGED <<state, active, configured, reactive, adapter, managedRun, retryable, inside, intent,
                   faults>>

(* The pools are back, with the new parallelism or, after a failure, with the
   old one: a new generation, and the gate as the command found it. *)
Rebuild ==
    /\ At(Host, "rebuild") \/ At(Host, "rebuild_old")
    /\ built' = configured
    /\ GenerationCommit
    /\ admission' = pc[Host].status
    /\ Return(Host)
    /\ UNCHANGED <<state, active, configured, reactive, adapter, managedRun, retryable, inside, intent,
                   faults>>

RebuildFails ==
    /\ At(Host, "rebuild")
    /\ Fault
    /\ configured' = pc[Host].arg
    /\ Goto(Host, "rebuild_old")
    /\ UNCHANGED <<gateVars, generation, built, reactive, adapter, managedRun, retryable, inside, intent>>

RollbackFails ==
    /\ At(Host, "rebuild_old")
    /\ Fault
    /\ Enter(Host, "nonsource", "GIVEUP")
    /\ UNCHANGED <<gateVars, lifeVars, inside, intent>>

(***************************************************************************)
(* The specification.                                                      *)
(***************************************************************************)
Teardown(t) ==
    \/ StopNonSources(t) \/ CloseManagedRun(t) \/ WaitForPublishes(t) \/ StopSources(t)
    \/ ReleaseResources(t) \/ CommitStop(t) \/ CommitRollback(t) \/ CommitGiveUp(t) \/ CommitReset(t)

HostStep ==
    \/ StartAdaptersFail \/ StartCommits
    \/ ResizeTimesOut \/ ResizeApplies \/ Rebuild \/ RebuildFails \/ RollbackFails

Next ==
    \/ \E p \in Publishers : Publish(p) \/ Leave(p)
    \/ ManagedRunEnds
    \/ \E t \in Threads : Pause(t) \/ Resume(t) \/ Stop(t) \/ DrainReturns(t) \/ Teardown(t)
    \/ \E t \in Threads, timed \in DrainTimed : Drain(t, timed)
    \/ Start \/ Reset \/ Compile
    \/ \E p \in Parallelism, timed \in DrainTimed : Resize(p, timed)
    \/ HostStep

Spec == Init /\ [][Next]_vars

(* Publications end, callbacks return, and a thread that waits on runtime_cond
   is woken: leave and stop broadcast it. *)
Fairness ==
    /\ \A p \in Publishers : WF_vars(Leave(p))
    /\ \A t \in Threads : WF_vars(Teardown(t)) /\ WF_vars(DrainReturns(t))
    /\ WF_vars(HostStep)

FairSpec == Spec /\ Fairness

(* The pools, the reactive scheduler and the started state stay for as long as a
   publisher executes the graph, whatever stop, resize or reset is under way. *)
PublishersKeepTheirPools ==
    inside # {} => /\ state = "STARTED"
                   /\ built # 0 /\ built = configured
                   /\ reactive = "UP"

(* The gate is open only if the last command said so and no resize has given up
   since; it is paused only if the last command said so or if a resize whose drain
   timed out has left it so.  In particular a resize that restores the gate after its
   unlocked rebuild, well or badly, restores what was commanded. *)
GateAsCommanded ==
    /\ admission = "OPEN" => intent = "OPEN"
    /\ admission = "PAUSED" => intent \in {"PAUSED", "GAVE_UP"}

(* An adapter that is still on is never forgotten: the flow is started, on its way
   up or down, or has failed and waits for stop to be called again. *)
AdaptersAccounted ==
    \A a \in Adapters : adapter[a] = "ON" /\ (\A t \in Threads : At(t, "idle"))
        => state = "STARTED" \/ (state = "FAILED" /\ retryable = "YES")

(* Every command returns, unless another thread opens the gate behind a drain and
   publishers keep coming, or a drain or resize without a deadline waits for a managed
   source's run.  A stop in particular closes that run and never waits for ever. *)
CommandsReturn ==
    \A t \in Threads :
        ~At(t, "idle") ~> \/ At(t, "idle")
                         \/ admission = "OPEN"
                         \/ (pc[t].at \in {"draining", "resizing"} /\ managedRun = "OPEN")
=============================================================================
