-------------------------------- MODULE Schedule --------------------------------
(***************************************************************************)
(* The schedule source, schedule/src/flow_schedule.c: interval, one-shot   *)
(* and cron ticks published into a Flow.  Timer callbacks (the native      *)
(* timer is external), the completion of an asynchronous publication, the  *)
(* bootstrap thread and the Flow's start and stop run on threads of their  *)
(* own; fields are atomic, so a step is one load or store, or several that *)
(* no other thread can tell apart.  The Flow stops its ingress, and with   *)
(* it every accepted publication, before it stops a source                 *)
(* (turbo_flow_stop; AsyncIngress and FlowLifecycle model that).           *)
(*                                                                         *)
(*   obj   the schedule;  work  its publications, accepted and not ended;  *)
(*   call  the callers: timer callbacks and the host of a manual clock;    *)
(*   net   the clock, the Flow, and what was published in this run.        *)
(***************************************************************************)
EXTENDS Naturals, Sequences, FiniteSets, FiniteSetsExt, SequencesExt

CONSTANTS
    Schedules,          \* configurations: mode, delay, limit, catchUp, manual
    DueMinutes,         \* the minutes that the cron expression matches
    Callbacks,          \* timer callbacks that may be inside at once
    MaxTime, MaxStarts, MaxFaults, None

VARIABLES obj, work, call, net

vars == <<obj, work, call, net>>

Host == "host"
Out == [pc |-> "OUT", check |-> 0, emitted |-> 0, upTo |-> 0, start |-> 0]
Stopped ==
    [timer |-> "NONE", boot |-> FALSE, started |-> FALSE, completed |-> FALSE, active |-> FALSE,
     inflight |-> 0, runFired |-> 0, nextDue |-> 0, cursor |-> 0]

Init ==
    /\ \E c \in Schedules : obj = [config |-> c, run |-> Stopped, truncations |-> 0, faults |-> 0]
    /\ work = <<>>
    /\ call = [c \in Callbacks \cup {Host} |-> Out]
    /\ net = [time |-> 1, flow |-> "STOPPED", starts |-> 0, published |-> <<>>, accepted |-> 0,
              skipped |-> {}, excused |-> FALSE]

Mode == obj.config.mode
run == obj.run
MayFault(ok) == ok \/ obj.faults < MaxFaults
Fault(ok) == obj.faults + (IF ok THEN 0 ELSE 1)
Set(r) == [obj EXCEPT !.run = r]

Tick == net.time < MaxTime /\ net' = [net EXCEPT !.time = @ + 1] /\ UNCHANGED <<obj, work, call>>

-----------------------------------------------------------------------------
(* flow_schedule_start, the bootstrap thread, flow_schedule_stop. *)

Start(ok) ==
    /\ net.flow = "STOPPED" /\ net.starts < MaxStarts /\ MayFault(ok)
    /\ ok \/ ~obj.config.manual
    /\ obj' = [obj EXCEPT !.faults = Fault(ok),
                          !.run = [Stopped EXCEPT !.started = ok, !.boot = ok /\ ~obj.config.manual,
                                                  !.timer = IF ok /\ ~obj.config.manual
                                                            THEN "CREATED" ELSE "NONE"]]
    /\ net' = [net EXCEPT !.flow = IF ok THEN "STARTING" ELSE "STOPPED", !.starts = @ + 1,
                          !.published = <<>>, !.accepted = 0, !.skipped = {}, !.excused = FALSE]
    /\ UNCHANGED <<work, call>>
FlowStarted ==
    /\ net.flow = "STARTING" /\ net' = [net EXCEPT !.flow = "STARTED"]
    /\ UNCHANGED <<obj, work, call>>
\* flow_schedule_bootstrap_thread and flow_schedule_arm_timer
Bootstrap(ok) ==
    /\ run.boot /\ (net.flow \in {"STARTED", "STOPPING"} \/ ~run.started) /\ MayFault(ok)
    /\ ok \/ run.started
    /\ obj' = [obj EXCEPT !.faults = Fault(ok),
                          !.run = [@ EXCEPT !.boot = FALSE,
                                            !.timer = IF run.started /\ ok THEN "ARMED" ELSE @,
                                            !.nextDue = IF run.started /\ Mode # "CRON"
                                                        THEN net.time + obj.config.delay ELSE @,
                                            !.completed = @ \/ ~ok]]
    /\ UNCHANGED <<work, call, net>>
\* The Flow refuses publications from here on, and ends the accepted ones.
FlowStop ==
    /\ net.flow = "STARTED" /\ net' = [net EXCEPT !.flow = "STOPPING"]
    /\ UNCHANGED <<obj, work, call>>
\* Another adapter does not start: those that did are stopped.
FlowStartFails ==
    /\ net.flow = "STARTING" /\ MayFault(FALSE)
    /\ obj' = [obj EXCEPT !.faults = Fault(FALSE)]
    /\ net' = [net EXCEPT !.flow = "ROLLBACK"]
    /\ UNCHANGED <<work, call>>
\* The host's advance may be between two publications.
DrainedFirst == work = <<>>
StopRequest ==
    /\ net.flow \in {"STOPPING", "ROLLBACK"} /\ run.started /\ DrainedFirst
    /\ obj' = Set([run EXCEPT !.started = FALSE])
    /\ UNCHANGED <<work, call, net>>
\* The bootstrap thread is joined, and destroying the timer waits for its callbacks.
\* Another adapter's stop may fail.
StopEnd(ok) ==
    /\ net.flow \in {"STOPPING", "ROLLBACK"} /\ ~run.started /\ ~run.boot /\ MayFault(ok)
    /\ \A c \in Callbacks : call[c].pc = "OUT"
    /\ obj' = [obj EXCEPT !.faults = Fault(ok),
                          !.run = [@ EXCEPT !.timer = "NONE", !.completed = TRUE, !.active = FALSE]]
    /\ net' = [net EXCEPT !.flow = IF ok THEN "STOPPED" ELSE "FAILED"]
    /\ UNCHANGED <<work, call>>
\* A stop that is tried again leaves out the adapters that are stopped.
StopRetried ==
    /\ net.flow = "FAILED" /\ net' = [net EXCEPT !.flow = "STOPPED"]
    /\ UNCHANGED <<obj, work, call>>

-----------------------------------------------------------------------------
(* flow_schedule_timer_callback. *)

Goto(c, pc) == call' = [call EXCEPT ![c].pc = pc]
\* The exchange of timer_callback_active coalesces callbacks.
TimerFires(c) ==
    /\ run.timer = "ARMED" /\ call[c].pc = "OUT" /\ ~run.active
    /\ obj' = Set([run EXCEPT !.active = TRUE,
                              !.timer = IF Mode = "ONE_SHOT" THEN "CREATED" ELSE @])
    /\ Goto(c, "CHECK")
    /\ UNCHANGED <<work, net>>
\* A callback that finds the schedule completed stops the timer on its way out.
Done == IF run.completed THEN "STOP" ELSE "DONE"
\* The time is read here, before the slot is taken.
Callback(c) ==
    /\ call[c].pc = "CHECK"
    /\ call' = [call EXCEPT ![c].check = net.time,
                            ![c].pc = IF ~run.started \/ run.completed THEN Done
                                      ELSE IF Mode = "CRON" THEN "ADVANCE" ELSE "RESERVE"]
    /\ UNCHANGED <<obj, work, net>>
CallbackDone(c) ==
    /\ call[c].pc \in {"STOP", "DONE"}
    /\ obj' = Set([run EXCEPT !.active = FALSE,
                              !.timer = IF call[c].pc = "STOP" /\ @ = "ARMED" THEN "CREATED" ELSE @])
    /\ call' = [call EXCEPT ![c] = Out]
    /\ UNCHANGED <<work, net>>

(* flow_schedule_try_reserve_publish: one slot, and the terminal state     *)
(* read again once the slot is ours.                                       *)
Reserve(c) ==
    /\ call[c].pc = "RESERVE"
    /\ IF run.inflight = 0
       THEN obj' = Set([run EXCEPT !.inflight = 1]) /\ Goto(c, "RECHECK")
       ELSE UNCHANGED obj /\ Goto(c, Done)
    /\ UNCHANGED <<work, net>>
MayPublish(r) == r.started /\ ~r.completed
Recheck(c) ==
    /\ call[c].pc = "RECHECK"
    /\ IF MayPublish(run)
       THEN UNCHANGED obj /\ Goto(c, "DUE")
       ELSE obj' = Set([run EXCEPT !.inflight = 0]) /\ Goto(c, Done)
    /\ UNCHANGED <<work, net>>
(* Too early: the slot is given back, and a one-shot timer armed again.    *)
NotDue(c, ok) ==
    /\ call[c].pc = "DUE" /\ call[c].check < run.nextDue /\ MayFault(ok)
    /\ ok \/ Mode = "ONE_SHOT"
    /\ obj' = [obj EXCEPT !.faults = Fault(ok),
                          !.run = [@ EXCEPT !.inflight = 0, !.completed = @ \/ ~ok,
                                            !.timer = IF ok THEN "ARMED" ELSE @]]
    /\ Goto(c, IF ok THEN "DONE" ELSE "STOP")
    /\ UNCHANGED <<work, net>>

\* flow_schedule_publish_async: the ingress takes the publication or the schedule fails.
Accepts(ok) == net.flow = "STARTED" /\ ok
Accept(tick) ==
    /\ work' = Append(work, [tick |-> tick, ended |-> FALSE])
    /\ net' = [net EXCEPT !.accepted = @ + 1, !.published = IF tick = 0 THEN @ ELSE Append(@, tick)]
Publish(c, ok) ==
    /\ call[c].pc = "DUE" /\ call[c].check >= run.nextDue /\ MayFault(ok)
    /\ IF Accepts(ok) THEN Accept(0) /\ UNCHANGED obj /\ Goto(c, "DONE")
       ELSE /\ obj' = [obj EXCEPT !.faults = Fault(ok),
                                  !.run = [@ EXCEPT !.inflight = @ - 1, !.completed = TRUE]]
            /\ UNCHANGED <<work, net>>
            /\ Goto(c, "STOP")

(* flow_schedule_publish_complete: the counters and the terminal state,    *)
(* and only then the slot.                                                 *)
Publication(i, ok) ==
    /\ ~work[i].ended /\ MayFault(ok)
    /\ work' = [work EXCEPT ![i].ended = TRUE]
    /\ LET fired == run.runFired + 1
           last == Mode = "ONE_SHOT" \/ (obj.config.limit > 0 /\ fired >= obj.config.limit)
       IN obj' = [obj EXCEPT
            !.faults = Fault(ok),
            !.run = IF ~ok THEN [@ EXCEPT !.completed = TRUE]
                    ELSE IF Mode = "CRON" THEN @
                    ELSE IF last THEN [@ EXCEPT !.runFired = fired, !.completed = TRUE]
                    ELSE [@ EXCEPT !.runFired = fired, !.nextDue = net.time + obj.config.delay]]
    /\ UNCHANGED <<call, net>>
PublicationReleased(i) ==
    /\ work[i].ended
    /\ work' = [j \in 1 .. Len(work) - 1 |-> work[IF j < i THEN j ELSE j + 1]]
    /\ obj' = Set([run EXCEPT !.inflight = @ - 1])
    /\ UNCHANGED <<call, net>>

-----------------------------------------------------------------------------
(* flow_schedule_advance_cron, by a timer callback or by the host          *)
(* (turbo_flow_schedule_advance).                                          *)

HostAdvance ==
    /\ obj.config.manual /\ run.started /\ call[Host].pc = "OUT"
    /\ Goto(Host, "ADVANCE")
    /\ UNCHANGED <<obj, work, net>>
Exit(c, pc) == IF c = Host THEN Out ELSE [Out EXCEPT !.pc = pc]
\* The first advance looks at the current minute only.
CheckFrom(cursor, now) == IF cursor = 0 THEN now - 1 ELSE cursor
AdvanceCursor(c) ==
    /\ call[c].pc = "ADVANCE"
    /\ IF run.cursor # 0 /\ net.time <= run.cursor
       THEN call' = [call EXCEPT ![c] = Exit(c, "DONE")] /\ UNCHANGED obj
       ELSE /\ call' = [call EXCEPT ![c] = [pc |-> "EMIT", emitted |-> 0,
                                            check |-> CheckFrom(run.cursor, net.time),
                                            upTo |-> net.time, start |-> net.starts]]
            /\ obj' = Set([run EXCEPT !.cursor = net.time])
    /\ UNCHANGED <<work, net>>
DueAfter(check, upTo) == {m \in DueMinutes : check < m /\ m <= upTo}
\* A host's advance that a stop and a start overtake goes on in the next run, which
\* is not charged with its ticks.
Of(c, ticks) == IF call[c].start = net.starts THEN ticks ELSE {}
Emit(c, ok) ==
    LET due == DueAfter(call[c].check, call[c].upTo)
    IN /\ call[c].pc = "EMIT" /\ due # {} /\ call[c].emitted <= obj.config.catchUp /\ MayFault(ok)
       /\ IF Accepts(ok)
          THEN /\ call' = [call EXCEPT ![c].check = Min(due), ![c].emitted = @ + 1]
               /\ IF c = Host
                  THEN /\ net' = [net EXCEPT !.published = @ \o SetToSeq(Of(c, {Min(due)}))]
                       /\ UNCHANGED <<obj, work>>
                  ELSE /\ Accept(Min(due))
                       /\ obj' = Set([run EXCEPT !.inflight = @ + 1])
          ELSE /\ call' = [call EXCEPT ![c] = Exit(c, "STOP")]
               /\ obj' = [obj EXCEPT !.faults = Fault(ok),
                                     !.run = [@ EXCEPT !.completed = @ \/ c # Host]]
               /\ net' = [net EXCEPT !.skipped = @ \cup Of(c, due), !.excused = @ \/ call[c].start = net.starts]
               /\ UNCHANGED work
EmitEnd(c) ==
    LET due == DueAfter(call[c].check, call[c].upTo)
    IN /\ call[c].pc = "EMIT" /\ (due = {} \/ call[c].emitted > obj.config.catchUp)
       /\ obj' = [obj EXCEPT !.truncations = IF due = {} THEN @ ELSE 1]     \* counted up to one
       /\ net' = [net EXCEPT !.skipped = @ \cup Of(c, due)]
       /\ call' = [call EXCEPT ![c] = Exit(c, "DONE")]
       /\ UNCHANGED work

Next ==
    \/ Tick \/ FlowStarted \/ FlowStartFails \/ FlowStop \/ StopRequest \/ StopRetried
    \/ HostAdvance
    \/ \E ok \in BOOLEAN : Start(ok) \/ Bootstrap(ok) \/ StopEnd(ok)
    \/ \E c \in Callbacks :
          TimerFires(c) \/ Callback(c) \/ CallbackDone(c) \/ Reserve(c) \/ Recheck(c)
    \/ \E c \in Callbacks, ok \in BOOLEAN : NotDue(c, ok) \/ Publish(c, ok)
    \/ \E i \in DOMAIN work : PublicationReleased(i) \/ (\E ok \in BOOLEAN : Publication(i, ok))
    \/ \E c \in Callbacks \cup {Host} :
          AdvanceCursor(c) \/ EmitEnd(c) \/ (\E ok \in BOOLEAN : Emit(c, ok))

Spec == Init /\ [][Next]_vars

-----------------------------------------------------------------------------
(* A bounded schedule has at most one publication in flight and never      *)
(* publishes more often in a run than it may: a one-shot once, an interval *)
(* its repeat limit.  The count of publications in flight is exact.        *)
NeverTooOften ==
    /\ Mode # "CRON" => /\ Len(work) <= 1
                        /\ run.inflight = Len(work) + Cardinality({c \in Callbacks : call[c].pc \in {"RECHECK", "DUE"}})
    /\ Mode = "CRON" => run.inflight = Len(work)
    /\ Mode = "ONE_SHOT" => net.accepted <= 1
    /\ Mode = "INTERVAL" /\ obj.config.limit > 0 => net.accepted <= obj.config.limit

(* In a run, with one thread that advances a manual clock, cron ticks are  *)
(* published in chronological order, each due minute once; the minutes     *)
(* between the first tick and the cursor that were not published were      *)
(* skipped by an advance that was counted as truncated or whose            *)
(* publication failed.                                                     *)
CronTicks ==
    /\ \A i \in 1 .. Len(net.published) - 1 : net.published[i] < net.published[i + 1]
    /\ net.skipped \cap {net.published[i] : i \in DOMAIN net.published} = {}
    /\ net.skipped # {} => obj.truncations > 0 \/ net.excused
    /\ (\A c \in Callbacks \cup {Host} : call[c].pc # "EMIT") /\ net.published # <<>> =>
          DueAfter(net.published[1], run.cursor)
             \subseteq net.skipped \cup {net.published[i] : i \in DOMAIN net.published}

(* When the Flow has stopped, or a stop or start of it has failed, nothing *)
(* of the schedule is left: no timer, no thread, no timer callback inside  *)
(* and no publication that would complete into it.                         *)
QuietAfterStop ==
    net.flow \in {"STOPPED", "FAILED"} =>
        /\ run.timer = "NONE" /\ ~run.boot /\ ~run.started /\ work = <<>>
        /\ \A c \in Callbacks : call[c].pc = "OUT"
=================================================================================
