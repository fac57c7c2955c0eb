---------------------------- MODULE AsyncIngress ----------------------------
(***************************************************************************)
(* The bounded asynchronous ingress of a flow                              *)
(* (turbo_flow/src/flow_async_ingress.c): turbo_flow_publish_async admits  *)
(* a message through the gate, reserves its bytes, finds or creates the    *)
(* worker pool and hands the message over; a worker runs the graph and     *)
(* reports through a completion callback.                                  *)
(*                                                                         *)
(* A publisher takes several steps, each one critical section of the code, *)
(* and turbo_flow_stop takes the pool away between any two of them.  The   *)
(* thread pool itself is external: it accepts up to its capacity, and      *)
(* destroying it refuses further tasks and returns once it has none.       *)
(***************************************************************************)
EXTENDS FlowAdmission, FiniteSets, FiniteSetsExt

CONSTANTS
    Messages,      \* messages offered to publish_async
    Size,          \* message -> bytes it retains
    Configs,       \* ingress configurations the host may set
    HasAsyncStage, \* has_async_stage: the graph has asynchronous stages
    Pools,         \* bound: pools created over the flow's lifetime, numbers 1..n
    MaxStops       \* bound: stops of the flow

VARIABLES
    config,        \* async_ingress_config
    pool,          \* async_ingress_pool: the installed pool, 0 = NULL
    inflight,      \* async_ingress_inflight_bytes
    pools,         \* pool -> its record
    msg,           \* message -> its record
    stopper,       \* the step turbo_flow_stop is in
    taken,         \* the pool stop is destroying, or 0
    stops          \* history: number of stops begun

ingressVars == <<config, pool, inflight>>
vars == <<state, admission, active, config, pool, inflight, pools, msg, stopper, taken, stops>>

(* at: the step a message's publisher or task is in; has: the pool its publisher
   found or its task occupies; verdict: what publish_async returned; reserved,
   completed: its bytes and its completion callback; publication: whether an
   asynchronous publication of it is open (module AsyncPublication). *)
NewMessage ==
    [at |-> "NEW", has |-> 0, verdict |-> "NONE", reserved |-> "NO", completed |-> "NO",
     publication |-> "NO"]

NoPool == [status |-> "UNUSED", made |-> [workers |-> 0]]

Init ==
    /\ state = "STARTED" /\ admission = "OPEN" /\ active = 0
    /\ config \in Configs
    /\ pool = 0 /\ inflight = 0
    /\ pools = [p \in Pools |-> NoPool]
    /\ msg = [m \in Messages |-> NewMessage]
    /\ stopper = "IDLE" /\ taken = 0 /\ stops = 0

StopUnchanged == UNCHANGED <<stopper, taken, stops>>

In(p, steps) == {m \in Messages : msg[m].has = p /\ msg[m].at \in steps}

(* A task occupies its worker until it is finished, or until the graph has handed
   its asynchronous stages to their adapters. *)
Running == {"GRAPH", "RELEASE", "COMPLETE", "LEAVE"}

(***************************************************************************)
(* turbo_flow_publish_async.                                               *)
(***************************************************************************)
EnterPublish(m) ==
    /\ msg[m].at = "NEW"
    /\ PublishEnter
    /\ msg' = [msg EXCEPT ![m].at = "ENTERED"]
    /\ UNCHANGED <<ingressVars, pools>> /\ StopUnchanged

(* flow_async_ingress_reserve *)
Fits(m) == Size[m] <= config.maxMessage /\ inflight <= config.maxInflight - Size[m]

Reserve(m) ==
    /\ msg[m].at = "ENTERED"
    /\ Fits(m)
    /\ inflight' = inflight + Size[m]
    /\ msg' = [msg EXCEPT ![m].at = "RESERVED", ![m].reserved = "YES"]
    /\ UNCHANGED <<gateVars, config, pool, pools>> /\ StopUnchanged

(* The cleanup of a publication refused before it has bytes reserved: an invalid
   message or source (EINVAL), or no room (ENOSPC). *)
RefuseUnreserved(m) ==
    /\ msg[m].at = "ENTERED"
    /\ \/ msg' = [msg EXCEPT ![m].at = "REFUSED", ![m].verdict = "EINVAL"]
       \/ ~Fits(m) /\ msg' = [msg EXCEPT ![m].at = "REFUSED", ![m].verdict = "ENOSPC"]
    /\ PublishLeave
    /\ UNCHANGED <<ingressVars, pools>> /\ StopUnchanged

(* Mutant: the cleanup forgets the reservation. *)
CleanupForgetful(m, verdict) ==
    /\ msg' = [msg EXCEPT ![m].at = "REFUSED", ![m].verdict = verdict, ![m].reserved = "NO"]
    /\ PublishLeave
    /\ UNCHANGED <<inflight, config, pool, pools>> /\ StopUnchanged

(* The cleanup of a publication that has. *)
Cleanup(m, verdict) ==
    /\ msg' = [msg EXCEPT ![m].at = "REFUSED", ![m].verdict = verdict, ![m].reserved = "NO"]
    /\ inflight' = inflight - Size[m]
    /\ PublishLeave
    /\ UNCHANGED <<config, pool, pools>> /\ StopUnchanged

(* The task or the copy of the message cannot be allocated. *)
PrepareFails(m) == msg[m].at = "RESERVED" /\ Cleanup(m, "ENOMEM")

(* flow_async_ingress_get_or_create, first section *)
FindPool(m) ==
    /\ msg[m].at = "RESERVED"
    /\ msg' = [msg EXCEPT ![m].at = IF pool = 0 THEN "CREATE" ELSE "SUBMIT", ![m].has = pool]
    /\ UNCHANGED <<gateVars, ingressVars, pools>> /\ StopUnchanged

(* Its second section: the candidate made of the configuration read in the first
   is installed, unless another one was in the meantime; then it is destroyed. *)
CreatePool(m) ==
    /\ msg[m].at = "CREATE"
    /\ IF pool # 0
       THEN UNCHANGED <<pool, pools>>
       ELSE \E p \in Pools :
                /\ pools[p].status = "UNUSED"
                /\ \A q \in Pools : q < p => pools[q].status # "UNUSED"
                /\ pool' = p
                /\ pools' = [pools EXCEPT ![p] = [status |-> "LIVE", made |-> config]]
    /\ msg' = [msg EXCEPT ![m].at = "SUBMIT", ![m].has = pool']
    /\ UNCHANGED <<gateVars, config, inflight>> /\ StopUnchanged

CreateFails(m) == msg[m].at = "CREATE" /\ Cleanup(m, "ENOMEM")

Full(p) == Cardinality(In(p, {"QUEUED"})) >= pools[p].made.capacity

(* salts_threadpool_try_submit accepts.  In a pool that was destroyed since it was
   found, what becomes of the task is undefined. *)
Submit(m) ==
    /\ msg[m].at = "SUBMIT"
    /\ \/ pools[msg[m].has].status = "LIVE" /\ ~Full(msg[m].has)
          /\ msg' = [msg EXCEPT ![m].at = "QUEUED", ![m].verdict = "OK"]
       \/ pools[msg[m].has].status = "GONE"
          /\ msg' = [msg EXCEPT ![m].at = "LOST", ![m].verdict = "OK"]
    /\ UNCHANGED <<gateVars, ingressVars, pools>> /\ StopUnchanged

SubmitRefused(m) ==
    /\ msg[m].at = "SUBMIT"
    /\ pools[msg[m].has].status = "LIVE" => Full(msg[m].has)
    /\ Cleanup(m, "ENOSPC")

(***************************************************************************)
(* flow_async_publish_task_run and flow_async_publish_task_finish.         *)
(***************************************************************************)
FreeWorker(m) ==
    /\ msg[m].at = "QUEUED"
    /\ Cardinality(In(msg[m].has, Running)) < pools[msg[m].has].made.workers

(* A graph with asynchronous stages runs under a publication, which is counted in
   active_publishes besides the task. *)
RunTask(m) ==
    /\ FreeWorker(m)
    /\ IF HasAsyncStage
       THEN /\ active' = active + 1
            /\ msg' = [msg EXCEPT ![m].at = "GRAPH", ![m].publication = "YES"]
       ELSE msg' = [msg EXCEPT ![m].at = "GRAPH"] /\ UNCHANGED active
    /\ UNCHANGED <<state, admission, ingressVars, pools>> /\ StopUnchanged

(* The publication cannot be allocated: the task ends with ENOMEM. *)
RunTaskFails(m) ==
    /\ FreeWorker(m) /\ HasAsyncStage
    /\ msg' = [msg EXCEPT ![m].at = "RELEASE"]
    /\ UNCHANGED <<gateVars, ingressVars, pools>> /\ StopUnchanged

(* The graph is through; or it is not, and the last adapter to complete will
   finish the task, which leaves its worker. *)
GraphEnds(m) ==
    /\ msg[m].at = "GRAPH"
    /\ \/ msg' = [msg EXCEPT ![m].at = "RELEASE"]
       \/ HasAsyncStage /\ msg' = [msg EXCEPT ![m].at = "SETTLING", ![m].has = 0]
    /\ UNCHANGED <<gateVars, ingressVars, pools>> /\ StopUnchanged

Settled(m) ==
    /\ msg[m].at = "SETTLING"
    /\ msg' = [msg EXCEPT ![m].at = "RELEASE"]
    /\ UNCHANGED <<gateVars, ingressVars, pools>> /\ StopUnchanged

(* The message is cleaned up and its bytes are given back. *)
ReleaseBytes(m) ==
    /\ msg[m].at = "RELEASE"
    /\ inflight' = inflight - Size[m]
    /\ msg' = [msg EXCEPT ![m].at = "COMPLETE", ![m].reserved = "NO"]
    /\ UNCHANGED <<gateVars, config, pool, pools>> /\ StopUnchanged

Complete(m) ==
    /\ msg[m].at = "COMPLETE"
    /\ msg' = [msg EXCEPT ![m].at = "LEAVE", ![m].completed = "YES"]
    /\ UNCHANGED <<gateVars, ingressVars, pools>> /\ StopUnchanged

(* The task leaves the gate, and then its publication does. *)
LeavePublish(m) ==
    /\ msg[m].at = "LEAVE"
    /\ PublishLeave
    /\ msg' = [msg EXCEPT ![m].at = IF msg[m].publication = "YES" THEN "LEAVE" ELSE "DONE",
                          ![m].publication = "NO"]
    /\ UNCHANGED <<ingressVars, pools>> /\ StopUnchanged

(***************************************************************************)
(* Stop, restart and configuration.                                        *)
(***************************************************************************)
StopBegins ==
    /\ stopper = "IDLE" /\ state = "STARTED" /\ stops < MaxStops
    /\ admission' = "STOPPING" /\ stopper' = "TAKE" /\ stops' = stops + 1
    /\ UNCHANGED <<state, active, ingressVars, pools, msg, taken>>

(* flow_stop_async_ingress: the pool is taken from the flow and then destroyed,
   which waits for its tasks. *)
StopTakesPool ==
    /\ stopper = "TAKE"
    /\ stopper' = "DESTROY" /\ taken' = pool /\ pool' = 0
    /\ pools' = [p \in Pools |-> IF p = pool THEN [pools[p] EXCEPT !.status = "CLOSING"] ELSE pools[p]]
    /\ UNCHANGED <<gateVars, config, inflight, msg, stops>>

StopDestroysPool ==
    /\ stopper = "DESTROY"
    /\ In(taken, {"QUEUED"} \cup Running) = {} \/ taken = 0
    /\ stopper' = "WAIT" /\ taken' = 0
    /\ pools' = [p \in Pools |-> IF p = taken THEN [pools[p] EXCEPT !.status = "GONE"] ELSE pools[p]]
    /\ UNCHANGED <<gateVars, ingressVars, msg, stops>>

(* flow_wait_for_publishes and the end of turbo_flow_stop *)
StopReturns ==
    /\ stopper = "WAIT" /\ active = 0
    /\ stopper' = "IDLE" /\ state' = "STOPPED" /\ admission' = "CLOSED"
    /\ UNCHANGED <<active, ingressVars, pools, msg, taken, stops>>

(* turbo_flow_compile and turbo_flow_start of a stopped flow *)
StartAgain ==
    /\ state = "STOPPED"
    /\ state' = "STARTED" /\ admission' = "OPEN"
    /\ UNCHANGED <<active, ingressVars, pools, msg>> /\ StopUnchanged

(* turbo_flow_configure_async_ingress; EBUSY otherwise *)
Configure(c) ==
    /\ state # "STARTED" /\ pool = 0
    /\ config' = c
    /\ UNCHANGED <<gateVars, pool, inflight, pools, msg>> /\ StopUnchanged

(***************************************************************************)
(* The specification.                                                      *)
(***************************************************************************)
Publish(m) ==
    \/ EnterPublish(m) \/ Reserve(m) \/ RefuseUnreserved(m) \/ PrepareFails(m)
    \/ FindPool(m) \/ CreatePool(m) \/ CreateFails(m) \/ Submit(m) \/ SubmitRefused(m)

Task(m) ==
    \/ RunTask(m) \/ RunTaskFails(m) \/ GraphEnds(m) \/ Settled(m)
    \/ ReleaseBytes(m) \/ Complete(m) \/ LeavePublish(m)

Stop == StopTakesPool \/ StopDestroysPool \/ StopReturns

Next ==
    \/ \E m \in Messages : Publish(m) \/ Task(m)
    \/ StopBegins \/ Stop \/ StartAgain
    \/ \E c \in Configs : Configure(c)

Spec == Init /\ [][Next]_vars

(* The bytes in flight are exactly those of the messages that hold a reservation:
   a leak would in the end refuse every message, a double release admit too many. *)
BudgetExact ==
    inflight = FoldSet(LAMBDA m, sum : sum + Size[m], 0, {m \in Messages : msg[m].reserved = "YES"})
=============================================================================
