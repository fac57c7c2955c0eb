----------------------------- MODULE ExecutionPools -----------------------------
(***************************************************************************)
(* The pools that execute a stage for the thread that publishes a message: *)
(* the worker pool on a ring (flow_disruptor.c), the thread pool and the   *)
(* coroutine lanes (flow_executor.c), the task they share                  *)
(* (flow_execution.c) and the record of a pool (flow_pool.c).  A task      *)
(* lives on the stack of the publisher, which waits for it; its deadline   *)
(* and its callback's abort only ask it to end.  A pool stops when no      *)
(* publisher is inside, which FlowLifecycle shows of the Flow.  The ring,  *)
(* the thread pool's queue and the coroutine scheduler are external.       *)
(*                                                                         *)
(*   obj   the pool;  work  the tasks;  call  the workers;                 *)
(*   net   the record: what the pool reports of itself.                    *)
(***************************************************************************)
EXTENDS Naturals, Sequences, FiniteSets

CONSTANTS
    Tasks, Workers,
    Pools,          \* configurations: backend, policy, deadline
    Capacity,       \* of the ring, or of the thread pool's queue
    Lanes,          \* number of coroutine lanes
    MaxFaults, None

VARIABLES obj, work, call, net

vars == <<obj, work, call, net>>

Record == [submitted |-> 0, queued |-> 0, started |-> 0, active |-> 0, completed |-> 0,
           failed |-> 0, canceled |-> 0, rejected |-> 0]
\* flow_execution_task_t, where its publisher is, and what was first to ask it to end.
NewTask == [pc |-> "OUT", state |-> "NEW", status |-> None, armed |-> FALSE, expired |-> FALSE,
            cancel |-> FALSE, accounted |-> FALSE, msg |-> "CALLER", ran |-> 0, fn |-> None,
            lane |-> 0, cause |-> None]

Init ==
    /\ \E c \in Pools :
          obj = [config |-> c, state |-> "STARTING", accepting |-> FALSE, running |-> FALSE,
                 pending |-> 0, submitters |-> 0, queue |-> <<>>, slots |-> 0, next |-> 0,
                 lanes |-> [l \in 0 .. Lanes - 1 |-> [holder |-> None, stale |-> None]],
                 faults |-> 0]
    /\ work = [t \in Tasks |-> NewTask]
    /\ call = [w \in Workers |-> [pc |-> "NONE", task |-> None]]
    /\ net = Record

Backend == obj.config.backend
MayFault(ok) == ok \/ obj.faults < MaxFaults
Fault(ok) == obj.faults + (IF ok THEN 0 ELSE 1)
Inside == {t \in Tasks : work[t].pc \notin {"OUT", "RETURNED"}}

\* flow_start_data_planes and flow_start_executor_adapters; a thread that cannot be
\* created ends the ones before it.
StartPool(ok) ==
    /\ obj.state = "STARTING" /\ MayFault(ok)
    /\ obj' = [obj EXCEPT !.state = IF ok THEN "RUNNING" ELSE "STOPPED", !.accepting = ok,
                          !.running = ok, !.faults = Fault(ok)]
    /\ call' = IF ok /\ Backend # "CORO"
               THEN [w \in Workers |-> [pc |-> "IDLE", task |-> None]] ELSE call
    /\ UNCHANGED <<work, net>>

\* flow_worker_pool_stop and flow_stop_runtime_executor_adapters, up to the join.
StopWhen == Inside = {}
StopPool ==
    /\ obj.state = "RUNNING" /\ StopWhen
    /\ obj' = [obj EXCEPT !.state = "DRAINING", !.accepting = FALSE, !.running = FALSE]
    /\ UNCHANGED <<work, call, net>>
\* flow_worker_pool_should_run
ShouldRun == obj.running \/ obj.pending > 0 \/ obj.submitters > 0
WorkerExit(w) ==
    /\ call[w].pc = "IDLE" /\ obj.queue = <<>> /\ ~ShouldRun
    /\ call' = [call EXCEPT ![w].pc = "NONE"]
    /\ UNCHANGED <<obj, work, net>>
StopJoin ==
    /\ obj.state = "DRAINING" /\ \A w \in Workers : call[w].pc = "NONE"
    /\ obj' = [obj EXCEPT !.state = "STOPPED",
                          !.lanes = [l \in DOMAIN @ |-> [holder |-> None, stale |-> None]]]
    /\ UNCHANGED <<work, call, net>>

-----------------------------------------------------------------------------
(* The task: flow_execution.c. *)

\* flow_execution_task_init moves the message into the task.
Accepted(t, pc) == [work EXCEPT ![t].pc = pc, ![t].state = "ACCEPTED", ![t].msg = "TASK"]
\* A task that was not taken gives the message back.
Refused(t, status) ==
    [work EXCEPT ![t].pc = "RETURNED", ![t].status = status, ![t].msg = "CALLER"]
\* flow_execution_task_cancel_status
CancelStatus(k) == IF k.expired THEN "ETIMEDOUT" ELSE IF k.cancel THEN "ECANCELED" ELSE "OK"
\* flow_execution_task_complete
Complete(k, status) ==
    [k EXCEPT !.state = IF status = "ECANCELED" THEN "CANCELED" ELSE "COMPLETED",
              !.status = status]
Ended(k) == k.state \in {"COMPLETED", "CANCELED"}
\* flow_execution_task_run after the callback returned fn.
Outcome(k, fn) ==
    LET cancel == CancelStatus(k)
    IN IF cancel = "ETIMEDOUT" \/ (fn = "OK" /\ cancel # "OK") THEN cancel ELSE fn
Returned(k, fn) == [k EXCEPT !.ran = @ + 1, !.fn = fn]
Ran(k, fn) == Complete(Returned(k, fn), Outcome(k, fn))

Running(t) == work[t].state = "RUNNING" /\ (\E w \in Workers : call[w] = [pc |-> "FN", task |-> t]
                                            \/ work[t].pc = "CORO")
Because(k, cause) == IF k.cause = None THEN cause ELSE k.cause
\* The deadline passes, which the waiting publisher notices, even when the callback has
\* returned and only the completion is missing, or the task itself.
Expire(t) ==
    /\ work[t].armed /\ work[t].state = "RUNNING" /\ ~work[t].expired
    /\ work[t].pc = "WAIT" \/ Running(t)
    /\ work' = [work EXCEPT ![t].expired = TRUE, ![t].cancel = TRUE,
                             ![t].cause = Because(work[t], IF Running(t) THEN "DEADLINE" ELSE "LATE")]
    /\ UNCHANGED <<obj, call, net>>
\* turbo_flow_execution_abort, called by the callback.
Abort(t) ==
    /\ Running(t) /\ ~work[t].cancel /\ MayFault(FALSE)
    /\ work' = [work EXCEPT ![t].cancel = TRUE, ![t].cause = Because(work[t], "ABORT")]
    /\ obj' = [obj EXCEPT !.faults = @ + 1]
    /\ UNCHANGED <<call, net>>

-----------------------------------------------------------------------------
(* The record: flow_pool.c. *)

Started(r) == [r EXCEPT !.queued = @ - 1, !.started = @ + 1, !.active = @ + 1]
Tally(r, status) ==
    CASE status \in {"ECANCELED", "ESHUTDOWN"} -> [r EXCEPT !.canceled = @ + 1]
      [] status = "OK" -> [r EXCEPT !.completed = @ + 1]
      [] OTHER -> [r EXCEPT !.failed = @ + 1]
Finished(r, status) == Tally([r EXCEPT !.active = @ - 1], status)
Rejected(r) == [r EXCEPT !.queued = @ - 1, !.rejected = @ + 1]

-----------------------------------------------------------------------------
(* flow_execute_threadpool_stage. *)

Submitted(r) == [r EXCEPT !.submitted = @ + 1, !.queued = @ + 1]
ThreadSubmit(t) ==
    /\ Backend = "THREAD" /\ obj.state = "RUNNING" /\ work[t].pc = "OUT"
    /\ IF Len(obj.queue) < Capacity
       THEN /\ work' = Accepted(t, "WAIT")
            /\ obj' = [obj EXCEPT !.queue = Append(@, t)]
            /\ net' = Submitted(net)
       ELSE /\ work' = Refused(t, "ENOSPC")
            /\ net' = Rejected(Submitted(net))
            /\ UNCHANGED obj
    /\ UNCHANGED call

(* flow_worker_pool_submit: registered as a submitter, then with a slot of *)
(* the ring, then waiting.                                                 *)
Register(t) ==
    /\ Backend = "DISRUPTOR" /\ obj.state = "RUNNING" /\ work[t].pc = "OUT"
    /\ IF obj.accepting
       THEN /\ obj' = [obj EXCEPT !.submitters = @ + 1]
            /\ work' = Accepted(t, "CLAIM")
            /\ net' = [net EXCEPT !.submitted = @ + 1]
       ELSE /\ work' = Refused(t, "ESHUTDOWN")
            /\ UNCHANGED <<obj, net>>
    /\ UNCHANGED call
\* flow_worker_pool_claim, and the commit of the entry.
Claim(t) ==
    /\ work[t].pc = "CLAIM" /\ obj.slots < Capacity
    /\ obj' = [obj EXCEPT !.slots = @ + 1, !.pending = @ + 1, !.queue = Append(@, t)]
    /\ net' = [net EXCEPT !.queued = @ + 1]
    /\ work' = [work EXCEPT ![t].pc = "COMMITTED"]
    /\ UNCHANGED call
ClaimRefused(t) ==
    /\ work[t].pc = "CLAIM" /\ obj.slots = Capacity /\ obj.config.policy # "BLOCK"
    /\ LET status == IF obj.config.policy = "FAIL" THEN "ENOSPC" ELSE "ECANCELED"
       IN /\ work' = Refused(t, status)
          /\ net' = IF status = "ENOSPC" THEN [net EXCEPT !.rejected = @ + 1]
                    ELSE [net EXCEPT !.canceled = @ + 1]
    /\ obj' = [obj EXCEPT !.submitters = @ - 1]
    /\ UNCHANGED call
Committed(t) ==
    /\ work[t].pc = "COMMITTED"
    /\ obj' = [obj EXCEPT !.submitters = @ - 1]
    /\ work' = [work EXCEPT ![t].pc = "WAIT"]
    /\ UNCHANGED <<call, net>>

(* flow_worker_pool_run and flow_threadpool_task_run. *)
Take(w) ==
    /\ call[w].pc = "IDLE" /\ obj.queue # <<>>
    /\ call' = [call EXCEPT ![w] = [pc |-> "TAKEN", task |-> Head(obj.queue)]]
    /\ obj' = [obj EXCEPT !.queue = Tail(@)]
    /\ net' = Started(net)
    /\ UNCHANGED work
\* flow_execution_task_run, up to the callback: the deadline counts from here, and one
\* that has passed already spares the callback.
RunBegin(w) ==
    /\ call[w].pc = "TAKEN"
    /\ LET t == call[w].task
       IN /\ work[t].state = "ACCEPTED"
          /\ \/ /\ work' = [work EXCEPT ![t].state = "RUNNING", ![t].armed = obj.config.deadline]
                /\ call' = [call EXCEPT ![w].pc = "FN"]
             \/ /\ obj.config.deadline
                /\ work' = [work EXCEPT ![t] = Complete([@ EXCEPT !.expired = TRUE, !.cancel = TRUE],
                                                        "ETIMEDOUT")]
                /\ call' = [call EXCEPT ![w].pc = "FINISH"]
    /\ UNCHANGED <<obj, net>>
\* The callback returned: the status is decided by a look at the flags, without the
\* mutex, ...
RunReturn(w, fn) ==
    /\ call[w].pc = "FN"
    /\ LET t == call[w].task
       IN work' = [work EXCEPT ![t] = [Returned(@, fn) EXCEPT !.status = Outcome(work[t], fn)]]
    /\ call' = [call EXCEPT ![w].pc = "DECIDED"]
    /\ UNCHANGED <<obj, net>>
\* ... and published under it.
RunEnd(w) ==
    /\ call[w].pc = "DECIDED"
    /\ work' = [work EXCEPT ![call[w].task] = Complete(@, @.status)]
    /\ call' = [call EXCEPT ![w].pc = "FINISH"]
    /\ UNCHANGED <<obj, net>>
\* flow_pool_record_finished and then flow_execution_task_mark_accounting_done, or the
\* thread pool's worker_finished: after it the worker leaves the task alone.
RunFinish(w) ==
    /\ call[w].pc = "FINISH"
    /\ net' = Finished(net, work[call[w].task].status)
    /\ work' = [work EXCEPT ![call[w].task].accounted = TRUE]
    /\ call' = [call EXCEPT ![w] = [pc |-> IF Backend = "DISRUPTOR" THEN "RELEASE" ELSE "IDLE",
                                    task |-> None]]
    /\ UNCHANGED obj
WorkerRelease(w) ==
    /\ call[w].pc = "RELEASE"
    /\ obj' = [obj EXCEPT !.slots = @ - 1, !.pending = @ - 1]
    /\ call' = [call EXCEPT ![w].pc = "IDLE"]
    /\ UNCHANGED <<work, net>>

\* flow_execution_task_wait gives the message back ...
TaskWait(t) ==
    /\ work[t].pc = "WAIT" /\ Ended(work[t])
    /\ work' = [work EXCEPT ![t].pc = "ACCOUNT", ![t].msg = "CALLER"]
    /\ UNCHANGED <<obj, call, net>>
(* Mutant: the task is cleaned up as soon as it has ended. *)
ReleasedWhenEnded(k) == Ended(k)

\* ... and the task is cleaned up once its worker is done with it.
Released(k) == k.accounted
WaitAccounting(t) ==
    /\ work[t].pc = "ACCOUNT" /\ Released(work[t])
    /\ work' = [work EXCEPT ![t].pc = "RETURNED"]
    /\ UNCHANGED <<obj, call, net>>

-----------------------------------------------------------------------------
(* flow_execute_coro_stage: the publisher runs the coroutine itself, on a  *)
(* lane that it has for itself.                                            *)

CoroEnter(t) ==
    /\ Backend = "CORO" /\ obj.state = "RUNNING" /\ work[t].pc = "OUT"
    /\ work' = [work EXCEPT ![t].pc = "LANE", ![t].lane = obj.next % Lanes]
    /\ obj' = [obj EXCEPT !.next = (@ + 1) % Lanes]
    /\ net' = Submitted(net)
    /\ UNCHANGED call
Lane(t) == obj.lanes[work[t].lane]
CoroSpawn(t, ok) ==
    /\ work[t].pc = "LANE" /\ Lane(t).holder = None /\ MayFault(ok)
    /\ IF ok
       THEN /\ work' = [Accepted(t, "CORO") EXCEPT ![t].state = "RUNNING",
                                                   ![t].armed = obj.config.deadline]
            /\ net' = Started(net)
            /\ obj' = [obj EXCEPT !.lanes[work[t].lane].holder = t]
       ELSE /\ work' = Refused(t, "ENOSPC")
            /\ net' = Finished(Started(net), "ENOSPC")
            /\ obj' = [obj EXCEPT !.faults = @ + 1]
    /\ UNCHANGED call
(* The callback returns; a coroutine that an earlier task left suspended   *)
(* on the lane makes this one look suspended too.                          *)
Leave(t, k, status, stale, faults) ==
    /\ work' = [work EXCEPT ![t] = [k EXCEPT !.pc = "RETURNED", !.msg = "CALLER", !.status = status]]
    /\ net' = Finished(net, status)
    /\ obj' = [obj EXCEPT !.lanes[work[t].lane] = [holder |-> None, stale |-> stale],
                          !.faults = faults]
    /\ UNCHANGED call
CoroReturn(t, fn) ==
    /\ work[t].pc = "CORO" /\ Lane(t).stale = None
    /\ LET k == Ran(work[t], fn) IN Leave(t, k, k.status, None, obj.faults)
(* It suspends, or an older one is suspended, and nothing is ready: the    *)
(* lane gets a new scheduler, if one can be made, and the task is          *)
(* discarded.                                                              *)
CoroSuspended(t, returned, resets) ==
    /\ work[t].pc = "CORO" /\ MayFault(resets) /\ (returned => Lane(t).stale # None)
    /\ LET k == IF returned THEN Ran(work[t], "OK") ELSE Complete(work[t], "ECANCELED")
       IN Leave(t, k, IF resets THEN "ENOTSUP" ELSE "ENOMEM",
                IF resets THEN None ELSE IF returned THEN Lane(t).stale ELSE t, Fault(resets))

Next ==
    \/ \E ok \in BOOLEAN : StartPool(ok) \/ (\E t \in Tasks : CoroSpawn(t, ok))
    \/ StopPool \/ StopJoin
    \/ \E t \in Tasks :
          \/ Expire(t) \/ Abort(t) \/ ThreadSubmit(t) \/ Register(t) \/ Claim(t) \/ ClaimRefused(t)
          \/ Committed(t) \/ TaskWait(t) \/ WaitAccounting(t) \/ CoroEnter(t)
          \/ \E fn \in {"OK", "FAILED"} : CoroReturn(t, fn)
          \/ \E returned, resets \in BOOLEAN : CoroSuspended(t, returned, resets)
    \/ \E w \in Workers :
          \/ WorkerExit(w) \/ Take(w) \/ RunBegin(w) \/ RunEnd(w) \/ RunFinish(w) \/ WorkerRelease(w)
          \/ \E fn \in {"OK", "FAILED"} : RunReturn(w, fn)

Spec == Init /\ [][Next]_vars

-----------------------------------------------------------------------------
Held == {obj.queue[i] : i \in DOMAIN obj.queue} \cup ({call[w].task : w \in Workers} \ {None})

(* A task is on its publisher's stack: as long as the queue or a worker    *)
(* refers to it the publisher is inside, and while the publisher waits the *)
(* task has ended or someone will run it.  A pool that stopped holds none. *)
TaskLifetimes ==
    /\ Held \subseteq Inside
    /\ \A t \in Tasks : work[t].pc = "WAIT" =>
          Ended(work[t]) \/ (t \in Held /\ \E w \in Workers : call[w].pc # "NONE")
    /\ \A t \in Tasks : work[t].pc = "ACCOUNT" => work[t].accounted \/ t \in Held
    /\ obj.state = "STOPPED" => Held = {} /\ \A w \in Workers : call[w].pc = "NONE"

(* Every task a pool ever counted is queued, active, or has ended in one   *)
(* way, except those that have asked for a slot and not got one yet; the   *)
(* ring's own counts agree with the tasks in it.                           *)
Claiming == {t \in Tasks : work[t].pc = "CLAIM"}
RecordExact ==
    /\ \A f \in DOMAIN net : net[f] >= 0
    /\ net.submitted = Cardinality(Claiming) + net.queued + net.active + net.completed
                       + net.failed + net.canceled + net.rejected
    /\ Backend # "CORO" => net.queued = Len(obj.queue)
    /\ Backend = "DISRUPTOR" =>
          /\ obj.slots = obj.pending
          /\ obj.slots = Len(obj.queue) + Cardinality({w \in Workers : call[w].pc \notin {"NONE", "IDLE"}})
          /\ obj.submitters = Cardinality({t \in Tasks : work[t].pc \in {"CLAIM", "COMMITTED"}})
    /\ Inside = {} => net.queued = 0 /\ net.active = 0

(* A callback runs at most once; OK means that it ran, returned OK, was    *)
(* not aborted, and that nobody had noticed its deadline pass while it     *)
(* ran (the publisher may have just after); a timeout means that the       *)
(* deadline passed; and the publisher has its message back.                *)
OutcomeTruthful ==
    \A t \in Tasks : LET k == work[t] IN
        /\ k.ran <= 1
        /\ k.pc = "RETURNED" =>
              /\ k.msg = "CALLER"
              /\ k.status = "OK" => k.ran = 1 /\ k.fn = "OK" /\ k.cause \in {None, "LATE"}
              /\ k.status = "ETIMEDOUT" => k.expired
              /\ k.status \in {"ENOSPC", "ESHUTDOWN"} => k.ran = 0
=================================================================================
