------------------------------ MODULE FlowRuns ------------------------------
(***************************************************************************)
(* The reactive runs of one flow (turbo_flow/src/flow_run.c): subscriptions *)
(* that pull values from a publisher and run each through the graph on a   *)
(* scheduler, and the commands that have to wait for them or end them.     *)
(*                                                                         *)
(* A run ends once, by completion, a failed value, cancellation, its       *)
(* deadline or the flow's stop, whichever comes first.  It holds one       *)
(* publication of the gate (FlowAdmission) until then.  The CFlow library  *)
(* that delivers values is external: cancel asks a subscription to stop,   *)
(* close also waits for the value being delivered.                         *)
(***************************************************************************)
EXTENDS FlowAdmission, FiniteSets

CONSTANTS
    Runs,          \* run objects
    Kind,          \* run -> "CALLER", "MANAGED" (by a source) or "FACADE" (turbo_flow_publish)
    Timed,         \* the runs opened with a deadline
    HasAsync,      \* has_async_stage: values may settle after their callback
    Capacity,      \* bound of the run registry (queue_capacity)
    SubscribeFailsWhen, \* ends of a run, in run[r].fin, at which CFlow may refuse to subscribe;
                        \* with "PICKED" also while stop is cancelling the run
    Values         \* bound: values each publisher has to give

VARIABLES
    run,           \* run -> its record
    stopper,       \* the step turbo_flow_stop is in
    stopRun,       \* the run stop is cancelling, or "NONE"
    operator       \* the step of the thread that drains, retires buffers and resumes

vars == <<state, admission, active, run, stopper, stopRun, operator>>

Terminal == {"COMPLETED", "CANCELED", "FAILED"}

(* phase: how far flow_run_open came and whether the handle was released;
   sub: the subscription; pump: what its scheduler task does; pending: values
   whose asynchronous stages have not finished; pubs: publications they hold;
   fin: how far the winner of the terminal transition is.  Which error a run ended
   with is left out. *)
Fresh ==
    [phase |-> "NONE", st |-> "OPEN", registered |-> "NO", counted |-> "NO",
     sub |-> "OPEN", pump |-> "IDLE", demand |-> 0, left |-> Values, pending |-> 0, pubs |-> 0,
     upstream |-> "MORE", deadline |-> "NONE", failing |-> 0, cancel |-> "NO", fin |-> "NO"]

(* A managed source opened its run while the flow started. *)
Opened(r) ==
    [Fresh EXCEPT !.phase = "OPEN", !.registered = "YES", !.counted = "YES",
                  !.deadline = IF r \in Timed THEN "ARMED" ELSE "NONE"]

ManagedRuns == {r \in Runs : Kind[r] = "MANAGED"}

Init ==
    /\ state = "STARTED" /\ admission = "OPEN"
    /\ active = Cardinality(ManagedRuns)
    /\ run = [r \in Runs |-> IF r \in ManagedRuns THEN Opened(r) ELSE Fresh]
    /\ stopper = "IDLE" /\ stopRun = "NONE" /\ operator = "IDLE"

IsTerminal(r) == run[r].st \in Terminal

Registered == {r \in Runs : run[r].registered = "YES"}

CommandsUnchanged == UNCHANGED <<stopper, stopRun, operator>>

(* flow_run_finish, under the run's mutex: only the first caller wins. *)
Finish(rec, st) ==
    IF rec.st \in Terminal THEN rec
    ELSE [rec EXCEPT !.st = st, !.fin = "WON"]

(***************************************************************************)
(* Opening a run and asking for values.                                    *)
(***************************************************************************)
OpenEnter(r) ==
    /\ Kind[r] # "MANAGED" /\ run[r].phase = "NONE"
    /\ PublishEnter
    /\ run' = [run EXCEPT ![r].phase = "ENTERED",
                          ![r].left = IF Kind[r] = "FACADE" THEN 1 ELSE Values,
                          ![r].deadline = IF r \in Timed THEN "ARMED" ELSE "NONE"]
    /\ CommandsUnchanged

(* flow_run_open_buffer_drain: the drain of a durable buffer opens the run of a
   claimed record also while the gate is paused. *)
OpenDrains(r) ==
    /\ Kind[r] = "CALLER" /\ run[r].phase = "NONE"
    /\ state = "STARTED" /\ admission \in {"OPEN", "PAUSED"}
    /\ active' = active + 1
    /\ run' = [run EXCEPT ![r].phase = "DRAINING", ![r].left = Values, ![r].deadline = "NONE"]
    /\ UNCHANGED <<state, admission>> /\ CommandsUnchanged

Entering(r) == run[r].phase \in {"ENTERED", "DRAINING"}

GateAdmits(r) ==
    /\ state = "STARTED"
    /\ admission = "OPEN" \/ (run[r].phase = "DRAINING" /\ admission = "PAUSED")

(* flow_run_registry_add looks at the gate again: it may have closed since.  From
   here on stop finds the run. *)
OpenRegister(r) ==
    /\ Entering(r) /\ GateAdmits(r)
    /\ Cardinality(Registered) < Capacity
    /\ run' = [run EXCEPT ![r].phase = "REGISTERED", ![r].registered = "YES", ![r].counted = "YES"]
    /\ UNCHANGED <<state, admission, active>> /\ CommandsUnchanged

(* The subscription exists and the caller gets the run, ended or not; a deadline
   that has fired in the meantime ends it now. *)
OpenSubscribes(r) ==
    /\ run[r].phase = "REGISTERED"
    /\ LET opened == [run[r] EXCEPT !.phase = "OPEN", !.sub = "OPEN"]
       IN  run' = [run EXCEPT ![r] =
                       IF opened.deadline # "EARLY" THEN opened
                       ELSE Finish([opened EXCEPT !.sub = "CLOSED", !.deadline = "FIRED"], "FAILED")]
    /\ UNCHANGED <<state, admission, active>> /\ CommandsUnchanged

(* CFlow refuses the subscription: the cleanup takes the run out of the registry,
   drops it and gives back the publication it entered with.  A stop that is
   cancelling the run keeps the object until it is through with it. *)
OpenSubscribeFails(r) ==
    /\ run[r].fin \in SubscribeFailsWhen
    /\ stopRun = r => "PICKED" \in SubscribeFailsWhen
    /\ run[r].phase = "REGISTERED"
    /\ run' = [run EXCEPT ![r] =
                   IF stopRun = r
                   THEN [@ EXCEPT !.phase = "RELEASED", !.registered = "NO", !.counted = "NO",
                                  !.deadline = "OFF"]
                   ELSE Fresh]
    /\ PublishLeave
    /\ CommandsUnchanged

(* Mutant: a refused run keeps the publication it entered with. *)
OpenRefusedKeeps(r) ==
    /\ Entering(r)
    /\ ~GateAdmits(r) \/ Cardinality(Registered) >= Capacity
    /\ run' = [run EXCEPT ![r] = Fresh]
    /\ UNCHANGED <<state, admission, active>> /\ CommandsUnchanged

OpenRefused(r) ==
    /\ Entering(r)
    /\ ~GateAdmits(r) \/ Cardinality(Registered) >= Capacity
    /\ run' = [run EXCEPT ![r] = Fresh]
    /\ PublishLeave
    /\ CommandsUnchanged

(* turbo_flow_run_request: a managed source is refused while the gate is shut. *)
Request(r) ==
    /\ run[r].phase = "OPEN" /\ ~IsTerminal(r)
    /\ r \in ManagedRuns => state = "STARTED" /\ admission = "OPEN"
    /\ run[r].demand < run[r].left
    /\ run' = [run EXCEPT ![r].st = "ACTIVE", ![r].demand = @ + 1]
    /\ UNCHANGED <<state, admission, active>> /\ CommandsUnchanged

(***************************************************************************)
(* Values.                                                                 *)
(***************************************************************************)
(* CFlow delivers a value; on_value gives up at once on a run that has ended. *)
ValueArrives(r) ==
    /\ run[r].phase = "OPEN" /\ run[r].sub = "OPEN" /\ run[r].pump = "IDLE"
    /\ run[r].demand > 0
    /\ run' = [run EXCEPT ![r].demand = @ - 1, ![r].left = @ - 1,
                          ![r].pump = IF IsTerminal(r) THEN "FAILED" ELSE "VALUE"]
    /\ UNCHANGED <<state, admission, active>> /\ CommandsUnchanged

Tracked(r) == HasAsync /\ Kind[r] # "FACADE"

(* A managed value must pass the gate again, ... *)
ValueEnters(r) ==
    /\ run[r].pump = "VALUE" /\ r \in ManagedRuns
    /\ PublishEnter
    /\ run' = [run EXCEPT ![r].pump = "ENTERED"]
    /\ CommandsUnchanged

(* ... and a value whose stages may settle later is counted as pending and holds a
   publication of its own. *)
ValueTracked(r) ==
    /\ run[r].pump = IF r \in ManagedRuns THEN "ENTERED" ELSE "VALUE"
    /\ active' = IF Tracked(r) THEN active + 1 ELSE active
    /\ run' = [run EXCEPT ![r].pump = "REGION",
                          ![r].pending = IF Tracked(r) THEN @ + 1 ELSE @,
                          ![r].pubs = IF Tracked(r) THEN @ + 1 ELSE @]
    /\ UNCHANGED <<state, admission>> /\ CommandsUnchanged

ValueRefused(r) ==
    /\ run[r].pump = "VALUE" /\ r \in ManagedRuns
    /\ PublishEnterStatus # "OK"
    /\ run' = [run EXCEPT ![r].pump = "FAILED"]
    /\ UNCHANGED <<state, admission, active>> /\ CommandsUnchanged

(* The graph is through with the value. *)
ValueEnds(r) ==
    /\ run[r].pump = "REGION"
    /\ \/ run' = [run EXCEPT ![r].pump = "IDLE"]
       \/ run' = [run EXCEPT ![r].pump = "FAILED"]
    /\ IF r \in ManagedRuns THEN PublishLeave ELSE UNCHANGED gateVars
    /\ CommandsUnchanged

(* on_error, after a callback that returned false *)
OnError(r) ==
    /\ run[r].pump = "FAILED"
    /\ run' = [run EXCEPT ![r] = Finish([@ EXCEPT !.pump = "IDLE", !.sub = "CLOSED"], "FAILED")]
    /\ UNCHANGED <<state, admission, active>> /\ CommandsUnchanged

(* on_done: the publisher has no more values. *)
OnDone(r) ==
    /\ run[r].phase = "OPEN" /\ run[r].sub = "OPEN" /\ run[r].pump = "IDLE" /\ run[r].left = 0
    /\ LET closed == [run[r] EXCEPT !.sub = "CLOSED", !.upstream = "DONE"]
       IN  run' = [run EXCEPT ![r] =
                       IF closed.pending = 0 THEN Finish(closed, "COMPLETED") ELSE closed]
    /\ UNCHANGED <<state, admission, active>> /\ CommandsUnchanged

(* flow_run_async_value_finish, for a value all of whose claims are settled: the
   last one completes the run; a failed one is marked here and ends the run once
   its subscription is closed. *)
AsyncValueEnds(r) ==
    /\ run[r].pending > (IF run[r].pump = "REGION" THEN 1 ELSE 0)
    /\ LET settled == [run[r] EXCEPT !.pending = @ - 1]
       IN  \/ run' = [run EXCEPT ![r] =
                          IF ~IsTerminal(r) /\ settled.upstream = "DONE" /\ settled.pending = 0
                          THEN Finish(settled, "COMPLETED") ELSE settled]
           \/ run' = [run EXCEPT ![r] =
                          IF IsTerminal(r) THEN settled
                          ELSE [settled EXCEPT !.failing = @ + 1]]
    /\ UNCHANGED <<state, admission, active>> /\ CommandsUnchanged

(* The close after a failed asynchronous value waits for the callback. *)
AsyncFailureEnds(r) ==
    /\ run[r].failing > 0 /\ run[r].pump = "IDLE"
    /\ LET settled == [run[r] EXCEPT !.sub = "CLOSED", !.failing = @ - 1]
       IN  run' = [run EXCEPT ![r] = Finish(settled, "FAILED")]
    /\ UNCHANGED <<state, admission, active>> /\ CommandsUnchanged

(* flow_async_publication_finalize gives the value's publication back last. *)
PublicationLeaves(r) ==
    /\ run[r].pubs > run[r].pending + run[r].failing
    /\ run' = [run EXCEPT ![r].pubs = @ - 1]
    /\ PublishLeave
    /\ CommandsUnchanged

(***************************************************************************)
(* Endings.                                                                *)
(***************************************************************************)
(* The winner removes the run from the registry, unless it was the deadline,
   and only then gives the run's publication back. *)
FinishRemoves(r) ==
    /\ run[r].fin = "WON"
    /\ run' = [run EXCEPT ![r].fin = "REMOVED", ![r].registered = "NO",
                          ![r].deadline = IF @ = "ARMED" THEN "OFF" ELSE @]
    /\ UNCHANGED <<state, admission, active>> /\ CommandsUnchanged

FinishReleases(r) ==
    /\ run[r].fin \in {"REMOVED", "EXPIRED"}
    /\ run' = [run EXCEPT ![r].fin = "DONE", ![r].counted = "NO"]
    /\ PublishLeave
    /\ CommandsUnchanged

(* flow_run_deadline_task runs on the scheduler and must not wait: it cancels and
   ends the run, and leaves it registered for close or stop to wait for. *)
Deadline(r) ==
    /\ run[r].deadline = "ARMED" /\ run[r].phase \in {"ENTERED", "REGISTERED", "OPEN"}
    /\ LET cut == [run[r] EXCEPT !.sub = IF @ = "OPEN" THEN "CANCELLED" ELSE @, !.deadline = "FIRED"]
       IN  run' = [run EXCEPT ![r] =
                       IF @.phase # "OPEN" THEN [@ EXCEPT !.deadline = "EARLY"]
                       ELSE IF IsTerminal(r) THEN cut
                       ELSE [Finish(cut, "FAILED") EXCEPT !.fin = "EXPIRED"]]
    /\ UNCHANGED <<state, admission, active>> /\ CommandsUnchanged

(* flow_run_cancel_with_status by the caller: the subscription is cancelled, the
   value being delivered is waited for, and the run ends unless it has. *)
CancelBegin(r) ==
    /\ Kind[r] = "CALLER"
    /\ run[r].phase = "OPEN" /\ ~IsTerminal(r) /\ run[r].cancel = "NO"
    /\ run' = [run EXCEPT ![r].cancel = "YES", ![r].sub = IF @ = "OPEN" THEN "CANCELLED" ELSE @]
    /\ UNCHANGED <<state, admission, active>> /\ CommandsUnchanged

CancelEnd(r) ==
    /\ run[r].cancel = "YES" /\ run[r].pump = "IDLE"
    /\ run' = [run EXCEPT ![r] = Finish([@ EXCEPT !.sub = "CLOSED", !.cancel = "NO"], "CANCELED")]
    /\ UNCHANGED <<state, admission, active>> /\ CommandsUnchanged

(* turbo_flow_run_close of an ended run: it waits for the value being delivered
   and takes the run out of the registry. *)
Close(r) ==
    /\ r \notin ManagedRuns
    /\ run[r].phase = "OPEN" /\ IsTerminal(r) /\ run[r].pump = "IDLE"
    /\ run' = [run EXCEPT ![r].phase = "RELEASED", ![r].sub = "CLOSED", ![r].registered = "NO"]
    /\ UNCHANGED <<state, admission, active>> /\ CommandsUnchanged

(***************************************************************************)
(* Stop.                                                                   *)
(***************************************************************************)
RunsUnchanged == UNCHANGED <<run, active, operator>>

StopBegin ==
    /\ stopper = "IDLE" /\ state = "STARTED"
    /\ stopper' = "CANCELLING" /\ admission' = "STOPPING"
    /\ UNCHANGED <<state, stopRun>> /\ RunsUnchanged

(* flow_reactive_runtime_cancel: one registered run after the other. *)
Cancellable == {r \in Registered : Kind[r] = "CALLER"}

StopPicks(r) ==
    /\ stopper = "CANCELLING" /\ stopRun = "NONE" /\ r \in Cancellable
    /\ stopRun' = r
    /\ run' = [run EXCEPT ![r].sub = IF @ = "OPEN" THEN "CANCELLED" ELSE @]
    /\ UNCHANGED <<state, admission, active, stopper, operator>>

(* The close of the picked run returns: an ended run is taken out of the registry,
   another one is ended here. *)
StopClosesRun ==
    /\ stopRun # "NONE" /\ run[stopRun].pump = "IDLE"
    /\ stopRun' = "NONE"
    /\ run' = [run EXCEPT ![stopRun] =
                   IF @.st \in Terminal THEN [@ EXCEPT !.sub = "CLOSED", !.registered = "NO"]
                   ELSE Finish([@ EXCEPT !.sub = "CLOSED"], "CANCELED")]
    /\ UNCHANGED <<state, admission, active, stopper, operator>>

StopCancelled ==
    /\ stopper = "CANCELLING" /\ stopRun = "NONE" /\ Cancellable = {}
    /\ stopper' = "MANAGED"
    /\ UNCHANGED <<state, admission, stopRun>> /\ RunsUnchanged

(* flow_close_managed_source_runs: cancel, close, and wait for pending values. *)
StopCancelsManaged(r) ==
    /\ stopper = "MANAGED" /\ r \in ManagedRuns /\ run[r].phase = "OPEN"
    /\ IF run[r].pump # "IDLE" THEN run' = [run EXCEPT ![r].sub = "CLOSED"]
       ELSE /\ run[r].pending = 0 \/ ~IsTerminal(r)
            /\ run' = [run EXCEPT ![r] =
                           IF ~IsTerminal(r) THEN Finish([@ EXCEPT !.sub = "CLOSED"], "CANCELED")
                           ELSE [@ EXCEPT !.phase = "RELEASED", !.sub = "CLOSED", !.registered = "NO"]]
    /\ UNCHANGED <<state, admission, active, stopper, stopRun, operator>>

(* Mutant: stop does not wait for the publications under way. *)
StopHurries ==
    /\ stopper = "MANAGED"
    /\ \A r \in ManagedRuns : run[r].phase = "RELEASED"
    /\ stopper' = "RELEASING"
    /\ UNCHANGED <<state, admission, stopRun>> /\ RunsUnchanged

StopWaits ==
    /\ stopper = "MANAGED"
    /\ \A r \in ManagedRuns : run[r].phase = "RELEASED"
    /\ active = 0
    /\ stopper' = "RELEASING"
    /\ UNCHANGED <<state, admission, stopRun>> /\ RunsUnchanged

(* flow_reactive_runtime_stop, then pools and executors *)
StopEnds ==
    /\ stopper = "RELEASING"
    /\ stopper' = "DONE" /\ state' = "STOPPED" /\ admission' = "CLOSED"
    /\ UNCHANGED <<stopRun>> /\ RunsUnchanged

(***************************************************************************)
(* Drain, resume and the wait before durable buffers are retired.          *)
(***************************************************************************)
Drain ==
    /\ operator = "IDLE"
    /\ CloseGate
    /\ operator' = "DRAINING"
    /\ UNCHANGED <<run, stopper, stopRun>>

DrainReturns ==
    /\ operator = "DRAINING"
    /\ \E answer \in DrainAnswers(TRUE) : operator' = IF answer = "OK" THEN "DRAINED" ELSE "IDLE"
    /\ UNCHANGED <<gateVars, run, stopper, stopRun>>

Resume ==
    /\ operator \in {"IDLE", "DRAINED", "RETIRED"}
    /\ OpenGate
    /\ operator' = "IDLE"
    /\ UNCHANGED <<run, stopper, stopRun>>

PrepareRetire ==
    /\ operator = "IDLE"
    /\ CloseGate
    /\ operator' = "RETIRING"
    /\ UNCHANGED <<run, stopper, stopRun>>

(* Mutant: counts registered runs, not the lifetimes they still hold. *)
LifetimesRegistered == Cardinality({r \in ManagedRuns : run[r].registered = "YES"})

(* The idle subscriptions a retirement must not wait for. *)
Lifetimes == Cardinality({r \in ManagedRuns : run[r].registered = "YES" /\ run[r].counted = "YES"})

(* flow_run_prepare_buffer_retire polls until only idle subscriptions count. *)
RetireReturns ==
    /\ operator = "RETIRING"
    /\ operator' = IF state = "STARTED" /\ admission = "PAUSED" /\ active = Lifetimes
                   THEN "RETIRED" ELSE "IDLE"
    /\ UNCHANGED <<gateVars, run, stopper, stopRun>>

(***************************************************************************)
(* The specification.                                                      *)
(***************************************************************************)
RunStep(r) ==
    \/ OpenRegister(r) \/ OpenRefused(r) \/ OpenSubscribes(r) \/ OpenSubscribeFails(r)
    \/ ValueArrives(r) \/ ValueEnters(r) \/ ValueTracked(r) \/ ValueRefused(r) \/ ValueEnds(r)
    \/ OnError(r) \/ OnDone(r)
    \/ AsyncValueEnds(r) \/ AsyncFailureEnds(r) \/ PublicationLeaves(r)
    \/ FinishRemoves(r) \/ FinishReleases(r) \/ CancelEnd(r)

StopStep ==
    \/ \E r \in Runs : StopPicks(r) \/ StopCancelsManaged(r)
    \/ StopClosesRun \/ StopCancelled \/ StopWaits \/ StopEnds

Next ==
    \/ \E r \in Runs : \/ OpenEnter(r) \/ OpenDrains(r) \/ Request(r) \/ Deadline(r)
                       \/ CancelBegin(r) \/ Close(r) \/ RunStep(r)
    \/ StopBegin \/ StopStep
    \/ Drain \/ DrainReturns \/ Resume \/ PrepareRetire \/ RetireReturns

Spec == Init /\ [][Next]_vars

(***************************************************************************)
(* Properties.                                                             *)
(***************************************************************************)
(* Runs being opened and run lifetimes; managed values in the graph; asynchronous
   publications of values. *)
Holding == {r \in Runs : Entering(r) \/ run[r].counted = "YES"}

InGraph == {r \in ManagedRuns : run[r].pump \in {"ENTERED", "REGION"}}

Unsettled == UNION {{r} \X (1 .. run[r].pubs) : r \in Runs}

(* active_publishes counts exactly what is under way: runs being opened, run
   lifetimes, managed values in the graph and asynchronous publications. *)
ActiveExact == active = Cardinality(Holding) + Cardinality(InGraph) + Cardinality(Unsettled)

(* Stop releases pools and executors only when no value is in the graph, not even
   one whose run ended by its deadline while it was being processed. *)
StopWaitsForValues ==
    stopper \in {"RELEASING", "DONE"} =>
        \A r \in Runs : run[r].pump \notin {"ENTERED", "REGION"} /\ run[r].pubs = 0

(* When the wait before a retirement reports quiet, no managed source has a value
   in the graph or settling, though its idle subscriptions still count. *)
RetireQuiet ==
    operator = "RETIRED" /\ admission = "PAUSED"
        => \A r \in ManagedRuns : run[r].pump \notin {"ENTERED", "REGION"} /\ run[r].pubs = 0
=============================================================================
