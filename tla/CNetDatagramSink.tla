-------------------------- MODULE CNetDatagramSink --------------------------
(***************************************************************************)
(* The datagram sink of io/cnet (turbo_flow_cnet_datagram_sink.c).  It     *)
(* differs from the stream sink in having no connection: several requests  *)
(* are with the network at once, complete in any order, and wait together  *)
(* in delivered_ids to be acknowledged.  Actors, steps and requests are    *)
(* those of CNetStreamSink.                                                *)
(***************************************************************************)
EXTENDS Naturals, FiniteSets

CONSTANTS
    Messages,   \* message numbers, each with its own claim
    None,       \* no message
    Capacity,   \* send_capacity
    MaxStarts   \* bound: starts of the adapter

VARIABLES
    obj,    \* the fields of turbo_flow_cnet_datagram_sink_t
    work,   \* message -> its submission, its request, its claim
    call,   \* where the flow's call and the host's poll are
    net     \* the messages the socket has

vars == <<obj, work, call, net>>

(* The socket holds one request more than sends: its receive. *)
ConfigValid(max, maxDatagram, requests) ==
    max > 0 /\ max <= maxDatagram /\ Capacity > 0 /\ requests > Capacity

Registered(max, maxDatagram, requests) ==
    [state |-> "REGISTERED", status |-> "OK", owner |-> FALSE, starting |-> FALSE, subs |-> 0,
     datagram |-> FALSE, executor |-> FALSE, actor |-> "DOWN", delivered |-> {}, accepted |-> 0,
     completed |-> 0, rejected |-> 0, sent |-> 0, detached |-> FALSE, max |-> max,
     maxDatagram |-> maxDatagram, requests |-> requests]

Init ==
    /\ \E max, maxDatagram \in Messages, requests \in 0 .. Capacity + 1 :
          /\ ConfigValid(max, maxDatagram, requests)
          /\ obj = Registered(max, maxDatagram, requests)
    /\ work = [m \in Messages |-> [sub |-> "NEW", req |-> "NONE", result |-> "OK", settled |-> 0]]
    /\ call = [flow |-> "IDLE", then |-> "STOP", poll |-> "IDLE", starts |-> 0]
    /\ net = {}

Active == {m \in Messages : work[m].req \in {"QUEUED", "NATIVE", "DONE", "TOLD"}}

ManagedState ==
    IF obj.starting THEN "STARTING"
    ELSE CASE obj.state \in {"REGISTERED", "RUNNING"} -> obj.state
           [] obj.state = "STOPPING" -> IF Active # {} THEN "DRAINING" ELSE "STOPPING"
           [] obj.state \in {"STOPPED", "DETACHED"} -> "STOPPED"
           [] OTHER -> "FAILED"

ManagedSnapshot ==
    IF obj.subs > 0 THEN "EBUSY"
    ELSE IF Cardinality(Active) > Capacity \/ obj.completed > obj.accepted THEN "EPROTO"
    ELSE "OK"

(***************************************************************************)
(* Submission by a graph thread.                                           *)
(***************************************************************************)
Rejects(m) == m > obj.max \/ obj.detached \/ obj.actor = "DOWN" \/ obj.state # "RUNNING"

SubmitReject(m) ==
    /\ work[m].sub = "NEW" /\ Rejects(m)
    /\ obj' = [obj EXCEPT !.rejected = @ + 1]
    /\ work' = [work EXCEPT ![m].sub = "LEFT"]
    /\ UNCHANGED <<call, net>>

SubmitEnter(m) ==
    /\ work[m].sub = "NEW" /\ ~Rejects(m)
    /\ obj' = [obj EXCEPT !.subs = @ + 1]
    /\ work' = [work EXCEPT ![m].sub = "IN"]
    /\ UNCHANGED <<call, net>>

SubmitActor(m) ==
    /\ work[m].sub = "IN"
    /\ work' = IF obj.actor = "OPEN" /\ Cardinality(Active) < Capacity
               THEN [work EXCEPT ![m].sub = "TAKEN", ![m].req = "QUEUED"]
               ELSE [work EXCEPT ![m].sub = "REFUSED"]
    /\ UNCHANGED <<obj, call, net>>

SubmissionFinish(m) ==
    /\ work[m].sub \in {"TAKEN", "REFUSED"}
    /\ obj' = IF work[m].sub = "TAKEN"
              THEN [obj EXCEPT !.accepted = @ + 1, !.subs = @ - 1]
              ELSE [obj EXCEPT !.rejected = @ + 1, !.subs = @ - 1]
    /\ work' = [work EXCEPT ![m].sub = "LEFT"]
    /\ UNCHANGED <<call, net>>

(***************************************************************************)
(* Driving the actor and the socket, by whoever owns them.                 *)
(***************************************************************************)
Driving == obj.actor # "DOWN" /\ (call.poll = "POLLING" \/ call.flow = "DRAINING")

BackendSubmit(m) ==
    /\ Driving /\ obj.actor = "OPEN" /\ work[m].req = "QUEUED"
    /\ \/ net' = net \cup {m} /\ work' = [work EXCEPT ![m].req = "NATIVE"]
       \/ work' = [work EXCEPT ![m].req = "DONE", ![m].result = "FAILED"] /\ UNCHANGED net
    /\ UNCHANGED <<obj, call>>

(* A closed actor cancels what it queues; the backend cannot cancel. *)
ActorCancels(m) ==
    /\ Driving /\ obj.actor = "CLOSED" /\ work[m].req = "QUEUED"
    /\ work' = [work EXCEPT ![m].req = "DONE", ![m].result = "CANCELLED"]
    /\ UNCHANGED <<obj, call, net>>

(* Every send the socket took ends, cancelled when the socket stops. *)
OnSend(m, result) ==
    /\ Driving /\ m \in net
    /\ result = "CANCELLED" => call.flow = "DRAINING"
    /\ net' = net \ {m}
    /\ work' = [work EXCEPT ![m].req = "DONE", ![m].result = result]
    /\ UNCHANGED <<obj, call>>

(* A completion that finds delivered_ids full is not recorded there, and so
   never acknowledged. *)
ActorCompletion(m) ==
    /\ Driving /\ work[m].req = "DONE"
    /\ obj' = [obj EXCEPT !.delivered = IF Cardinality(@) < Capacity THEN @ \cup {m} ELSE @,
                          !.sent = IF work[m].result = "OK" THEN @ + 1 ELSE @,
                          !.completed = @ + 1]
    /\ work' = [work EXCEPT ![m].req = "TOLD", ![m].settled = @ + 1]
    /\ UNCHANGED <<call, net>>

Acknowledge ==
    /\ Driving /\ obj.delivered # {}
    /\ work' = [m \in Messages |-> IF m \in obj.delivered THEN [work[m] EXCEPT !.req = "FREE"]
                                                          ELSE work[m]]
    /\ obj' = [obj EXCEPT !.delivered = {}]
    /\ UNCHANGED <<call, net>>

(* A sink expects nothing from its peer: any datagram fails it, even while
   it stops. *)
OnReceive ==
    /\ Driving
    /\ obj' = [obj EXCEPT !.status = "ERR", !.state = "FAILED"]
    /\ UNCHANGED <<work, call, net>>

(***************************************************************************)
(* The host's poll.                                                        *)
(***************************************************************************)
PollBegin ==
    /\ call.poll = "IDLE"
    /\ ~obj.detached /\ obj.datagram /\ obj.actor # "DOWN"
    /\ obj.state \notin {"STOPPING", "STOPPED"} /\ ~obj.owner
    /\ obj' = [obj EXCEPT !.owner = TRUE]
    /\ call' = [call EXCEPT !.poll = "POLLING"]
    /\ UNCHANGED <<work, net>>

PollEnd ==
    /\ call.poll = "POLLING"
    /\ \/ obj' = [obj EXCEPT !.owner = FALSE]
       \/ /\ obj.state # "FAILED"
          /\ obj' = [obj EXCEPT !.owner = FALSE, !.status = "ERR", !.state = "FAILED"]
    /\ call' = [call EXCEPT !.poll = "IDLE"]
    /\ UNCHANGED <<work, net>>

(***************************************************************************)
(* Start, stop and shutdown, called by the flow.                           *)
(***************************************************************************)
Start ==
    /\ call.flow = "IDLE" /\ call.starts < MaxStarts
    /\ ~obj.detached /\ ~obj.owner /\ obj.subs = 0
    /\ obj.state \in {"REGISTERED", "STOPPED"}
    /\ obj' = [obj EXCEPT !.owner = TRUE, !.starting = TRUE, !.status = "OK"]
    /\ call' = [call EXCEPT !.flow = "STARTING", !.starts = @ + 1]
    /\ UNCHANGED <<work, net>>

StartRuns ==
    /\ call.flow = "STARTING"
    /\ obj' = [obj EXCEPT !.datagram = TRUE, !.executor = TRUE, !.actor = "OPEN", !.owner = FALSE,
                          !.starting = FALSE, !.state = "RUNNING"]
    /\ call' = [call EXCEPT !.flow = "IDLE"]
    /\ UNCHANGED <<work, net>>

StartFails ==
    /\ call.flow = "STARTING"
    /\ \E reached \in 0 .. 2 :
          obj' = [obj EXCEPT !.datagram = reached > 0, !.executor = reached > 1,
                             !.starting = FALSE, !.status = "ERR", !.state = "FAILED"]
    /\ call' = [call EXCEPT !.flow = "DRAINING", !.then = "FAIL"]
    /\ UNCHANGED <<work, net>>

StopBegin(then) ==
    /\ call.flow = "IDLE" /\ obj.state \notin {"STOPPED", "DETACHED"}
    /\ obj' = IF obj.state = "FAILED" /\ obj.owner THEN obj ELSE [obj EXCEPT !.state = "STOPPING"]
    /\ call' = [call EXCEPT !.flow = "WAITING", !.then = then]
    /\ UNCHANGED <<work, net>>

CleanupOwns ==
    /\ call.flow = "WAITING" /\ ~obj.owner /\ obj.subs = 0
    /\ obj' = [obj EXCEPT !.state = "STOPPING", !.owner = TRUE,
                          !.actor = IF @ = "OPEN" THEN "CLOSED" ELSE @]
    /\ call' = [call EXCEPT !.flow = "DRAINING"]
    /\ UNCHANGED <<work, net>>

CleanupEnds ==
    /\ call.flow = "DRAINING" /\ Active = {} /\ net = {}
    /\ obj' = [obj EXCEPT !.actor = "DOWN", !.executor = FALSE, !.datagram = FALSE, !.owner = FALSE,
                          !.state = IF call.then = "FAIL" THEN "FAILED" ELSE "STOPPED"]
    /\ call' = [call EXCEPT !.flow = IF call.then = "SHUTDOWN" THEN "DETACHING" ELSE "IDLE"]
    /\ UNCHANGED <<work, net>>

ShutdownStopped ==
    /\ call.flow = "IDLE" /\ obj.state = "STOPPED"
    /\ call' = [call EXCEPT !.flow = "DETACHING"]
    /\ UNCHANGED <<obj, work, net>>

Detach ==
    /\ call.flow = "DETACHING"
    /\ obj' = [obj EXCEPT !.detached = TRUE, !.state = "DETACHED"]
    /\ call' = [call EXCEPT !.flow = "IDLE"]
    /\ UNCHANGED <<work, net>>

Destroy ==
    /\ call.flow = "IDLE" /\ call.poll = "IDLE"
    /\ obj.detached /\ ~obj.datagram /\ obj.actor = "DOWN" /\ ~obj.executor /\ ~obj.owner
    /\ obj.subs = 0
    /\ obj' = [obj EXCEPT !.state = "FREED"]
    /\ call' = [call EXCEPT !.flow = "GONE", !.poll = "GONE"]
    /\ work' = [m \in Messages |-> [work[m] EXCEPT !.sub = "LEFT"]]
    /\ UNCHANGED net

Next ==
    \/ \E m \in Messages :
          \/ SubmitReject(m) \/ SubmitEnter(m) \/ SubmitActor(m) \/ SubmissionFinish(m)
          \/ BackendSubmit(m) \/ ActorCancels(m) \/ ActorCompletion(m)
          \/ \E result \in {"OK", "CANCELLED", "FAILED"} : OnSend(m, result)
    \/ Acknowledge \/ OnReceive
    \/ PollBegin \/ PollEnd
    \/ Start \/ StartRuns \/ StartFails
    \/ \E then \in {"STOP", "SHUTDOWN"} : StopBegin(then)
    \/ CleanupOwns \/ CleanupEnds \/ ShutdownStopped \/ Detach \/ Destroy

Spec == Init /\ [][Next]_vars

(* A submission inside the actor finds the actor alive. *)
ActorAlive == \A m \in Messages : work[m].sub = "IN" => obj.actor # "DOWN"

(* As for the stream sink; and every request that was told is on its way to
   be acknowledged, or the actor would never become quiescent. *)
ClaimsSettle ==
    /\ ManagedSnapshot # "EPROTO"
    /\ ManagedState = "RUNNING" => obj.actor = "OPEN"
    /\ ManagedState = "STOPPED" => obj.actor = "DOWN" /\ ~obj.datagram /\ Active = {}
    /\ \A m \in Messages : work[m].settled <= 1 /\ (work[m].req = "TOLD" => m \in obj.delivered)
    /\ obj.actor = "DOWN" =>
          /\ obj.delivered = {}
          /\ obj.subs = 0 => obj.accepted = obj.completed
    /\ \A m \in net : m <= obj.maxDatagram
    /\ Cardinality(net) < obj.requests
=============================================================================
