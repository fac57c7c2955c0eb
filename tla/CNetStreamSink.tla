--------------------------- MODULE CNetStreamSink ---------------------------
(***************************************************************************)
(* The stream sink of io/cnet (turbo_flow_cnet_stream_sink.c): graph       *)
(* threads submit messages with their completion claims, the host's poll   *)
(* drives the I/O actor and the network client, and the flow starts, stops *)
(* and shuts the adapter down, one of these at a time.  What happens under *)
(* lifecycle_mutex is one step; what happens outside it is several.        *)
(*                                                                         *)
(* The I/O actor is external.  A request is QUEUED when the actor accepts  *)
(* it, NATIVE when the network has it, DONE when the actor accepted its    *)
(* completion, TOLD when the completion callback has run, FREE when it was *)
(* acknowledged.  The message numbered m is m units long.                  *)
(***************************************************************************)
EXTENDS Naturals, FiniteSets

CONSTANTS
    Messages,   \* message numbers, each with its own claim
    None,       \* no message
    MaxStarts   \* bound: starts of the adapter

VARIABLES
    obj,    \* the fields of turbo_flow_cnet_stream_sink_t
    work,   \* message -> its submission, its request, its claim
    call,   \* where the flow's call and the host's poll are
    net     \* the connection

vars == <<obj, work, call, net>>

(* max_message_bytes may not exceed what the client can send at once. *)
ConfigValid(max, maxSend) == max > 0 /\ max <= maxSend

Registered(max, maxSend) ==
    [state |-> "REGISTERED", status |-> "OK", owner |-> FALSE, subs |-> 0, client |-> FALSE,
     executor |-> FALSE, actor |-> "DOWN", native |-> None, delivered |-> None, accepted |-> 0,
     completed |-> 0, rejected |-> 0, sent |-> 0, detached |-> FALSE, max |-> max,
     maxSend |-> maxSend]

Init ==
    /\ \E max, maxSend \in Messages : ConfigValid(max, maxSend) /\ obj = Registered(max, maxSend)
    /\ work = [m \in Messages |-> [sub |-> "NEW", req |-> "NONE", result |-> "OK", settled |-> 0]]
    /\ call = [flow |-> "IDLE", then |-> "STOP", poll |-> "IDLE", starts |-> 0]
    /\ net = "NONE"

Active == {m \in Messages : work[m].req \in {"QUEUED", "NATIVE", "DONE", "TOLD"}}

(* What the managed boundary reports of a state. *)
ManagedState ==
    CASE obj.state = "REGISTERED" -> "REGISTERED"
      [] obj.state = "CONNECTING" -> "STARTING"
      [] obj.state = "CONNECTED" -> "RUNNING"
      [] obj.state = "STOPPING" -> IF Active # {} THEN "DRAINING" ELSE "STOPPING"
      [] obj.state \in {"STOPPED", "DETACHED"} -> "STOPPED"
      [] OTHER -> "FAILED"

ManagedSnapshot ==
    IF obj.subs > 0 THEN "EBUSY"
    ELSE IF Cardinality(Active) > 1 \/ obj.completed > obj.accepted THEN "EPROTO"
    ELSE "OK"

(***************************************************************************)
(* Submission by a graph thread.                                           *)
(***************************************************************************)
Rejects(m) ==
    m > obj.max \/ obj.detached \/ obj.actor = "DOWN" \/ obj.state # "CONNECTED"

SubmitReject(m) ==
    /\ work[m].sub = "NEW" /\ Rejects(m)
    /\ obj' = [obj EXCEPT !.rejected = @ + 1]
    /\ work' = [work EXCEPT ![m].sub = "LEFT"]
    /\ UNCHANGED <<call, net>>

SubmitEnter(m) ==
    /\ work[m].sub = "NEW" /\ ~Rejects(m)
    /\ obj' = [obj EXCEPT !.subs = @ + 1]
    /\ work' = [work EXCEPT ![m].sub = "IN"]
    /\ UNCHANGED <<call, net>>

(* cflow_io_actor_try_submit: FULL and CLOSED give the claim back. *)
SubmitActor(m) ==
    /\ work[m].sub = "IN"
    /\ work' = IF obj.actor = "OPEN" /\ Active = {}
               THEN [work EXCEPT ![m].sub = "TAKEN", ![m].req = "QUEUED"]
               ELSE [work EXCEPT ![m].sub = "REFUSED"]
    /\ UNCHANGED <<obj, call, net>>

SubmissionFinish(m) ==
    /\ work[m].sub \in {"TAKEN", "REFUSED"}
    /\ obj' = IF work[m].sub = "TAKEN"
              THEN [obj EXCEPT !.accepted = @ + 1, !.subs = @ - 1]
              ELSE [obj EXCEPT !.rejected = @ + 1, !.subs = @ - 1]
    /\ work' = [work EXCEPT ![m].sub = "LEFT"]
    /\ UNCHANGED <<call, net>>

(***************************************************************************)
(* Driving the actor and the client, by whoever owns them.                 *)
(***************************************************************************)
Driving == obj.actor # "DOWN" /\ (call.poll = "POLLING" \/ call.flow = "DRAINING")

(* The backend sends one message at a time; a send may be refused. *)
BackendSubmit(m) ==
    /\ Driving /\ obj.actor = "OPEN" /\ work[m].req = "QUEUED"
    /\ \/ /\ obj.native = None /\ net = "OPEN"
          /\ obj' = [obj EXCEPT !.native = m]
          /\ work' = [work EXCEPT ![m].req = "NATIVE"]
       \/ /\ work' = [work EXCEPT ![m].req = "DONE", ![m].result = "FAILED"]
          /\ UNCHANGED obj
    /\ UNCHANGED <<call, net>>

(* A closed actor cancels what it still queues, and asks the backend to
   cancel what the network has, which closes the connection. *)
BackendCancel(m) ==
    /\ Driving /\ obj.actor = "CLOSED"
    /\ \/ /\ work[m].req = "QUEUED"
          /\ work' = [work EXCEPT ![m].req = "DONE", ![m].result = "CANCELLED"]
          /\ UNCHANGED net
       \/ /\ work[m].req = "NATIVE" /\ obj.native = m /\ net = "OPEN"
          /\ net' = "CLOSING"
          /\ UNCHANGED work
    /\ UNCHANGED <<obj, call>>

(* The native request completes if the actor accepts it. *)
CompleteNative(o, result) ==
    IF o.native = None
    THEN obj' = o /\ UNCHANGED work
    ELSE /\ obj' = [o EXCEPT !.native = None]
         /\ work' = [work EXCEPT ![o.native].req = "DONE", ![o.native].result = result]

ActorCompletion(m) ==
    /\ Driving /\ work[m].req = "DONE"
    /\ obj' = [obj EXCEPT !.native = IF @ = m THEN None ELSE @, !.delivered = m,
                          !.sent = IF work[m].result = "OK" THEN @ + 1 ELSE @,
                          !.completed = @ + 1]
    /\ work' = [work EXCEPT ![m].req = "TOLD", ![m].settled = @ + 1]
    /\ UNCHANGED <<call, net>>

(* Releasing an operation completes a claim that still is one. *)
Acknowledge ==
    /\ Driving /\ obj.delivered # None
    /\ work' = [work EXCEPT ![obj.delivered].req = "FREE",
                            ![obj.delivered].settled = IF @ = 0 THEN 1 ELSE @]
    /\ obj' = [obj EXCEPT !.delivered = None,
                          !.completed = IF work[obj.delivered].settled = 0 THEN @ + 1 ELSE @]
    /\ UNCHANGED <<call, net>>

OnConnected ==
    /\ Driving /\ net = "CONNECTING"
    /\ net' = "OPEN"
    /\ obj' = [obj EXCEPT !.state = IF @ = "CONNECTING" THEN "CONNECTED" ELSE @]
    /\ UNCHANGED <<work, call>>

OnFailed ==
    /\ Driving /\ net \in {"CONNECTING", "OPEN"}
    /\ net' = "GONE"
    /\ CompleteNative([obj EXCEPT !.status = "ERR", !.state = "FAILED"], "FAILED")
    /\ UNCHANGED call

OnClosed ==
    /\ Driving /\ net \in {"CONNECTING", "OPEN", "CLOSING"}
    /\ net' = "GONE"
    /\ IF obj.state = "STOPPING" THEN CompleteNative(obj, "CANCELLED")
       ELSE CompleteNative([obj EXCEPT !.status = "ERR", !.state = "FAILED"], "FAILED")
    /\ UNCHANGED call

OnSend ==
    /\ Driving /\ net = "OPEN" /\ obj.native # None
    /\ CompleteNative(obj, "OK")
    /\ UNCHANGED <<call, net>>

(***************************************************************************)
(* The host's poll.                                                        *)
(***************************************************************************)
PollBegin ==
    /\ call.poll = "IDLE"
    /\ ~obj.detached /\ obj.client /\ obj.actor # "DOWN"
    /\ obj.state \notin {"STOPPING", "STOPPED"} /\ ~obj.owner
    /\ obj' = [obj EXCEPT !.owner = TRUE]
    /\ call' = [call EXCEPT !.poll = "POLLING"]
    /\ UNCHANGED <<work, net>>

(* A client poll that fails marks the sink, unless it failed before. *)
PollEnd ==
    /\ call.poll = "POLLING"
    /\ \/ obj' = [obj EXCEPT !.owner = FALSE]
       \/ /\ obj.state # "FAILED"
          /\ obj' = [obj EXCEPT !.owner = FALSE, !.status = "ERR", !.state = "FAILED"]
    /\ call' = [call EXCEPT !.poll = "IDLE"]
    /\ UNCHANGED <<work, net>>

(***************************************************************************)
(* Start, stop and shutdown, called by the flow.                           *)
(***************************************************************************)
Start ==
    /\ call.flow = "IDLE" /\ call.starts < MaxStarts
    /\ ~obj.detached /\ ~obj.owner /\ obj.subs = 0
    /\ obj.state \in {"REGISTERED", "STOPPED"}
    /\ obj' = [obj EXCEPT !.owner = TRUE, !.state = "CONNECTING", !.status = "OK"]
    /\ call' = [call EXCEPT !.flow = "STARTING", !.starts = @ + 1]
    /\ UNCHANGED <<work, net>>

StartConnects ==
    /\ call.flow = "STARTING"
    /\ obj' = [obj EXCEPT !.client = TRUE, !.executor = TRUE, !.actor = "OPEN", !.owner = FALSE]
    /\ call' = [call EXCEPT !.flow = "IDLE"]
    /\ net' = "CONNECTING"
    /\ UNCHANGED work

(* The client, the executor, the actor or the connect itself fails; what was
   set up is cleaned up without giving up the ownership. *)
StartFails ==
    /\ call.flow = "STARTING"
    /\ \E reached \in 0 .. 3 :
          obj' = [obj EXCEPT !.client = reached > 0, !.executor = reached > 1,
                             !.actor = IF reached > 2 THEN "CLOSED" ELSE "DOWN",
                             !.status = "ERR", !.state = "FAILED"]
    /\ call' = [call EXCEPT !.flow = "DRAINING", !.then = "FAIL"]
    /\ net' = "NONE"
    /\ UNCHANGED work

(* A stop does not mask a failure that is still being handled. *)
StopBegin(then) ==
    /\ call.flow = "IDLE" /\ obj.state \notin {"STOPPED", "DETACHED"}
    /\ obj' = IF obj.state = "FAILED" /\ obj.owner THEN obj ELSE [obj EXCEPT !.state = "STOPPING"]
    /\ call' = [call EXCEPT !.flow = "WAITING", !.then = then]
    /\ UNCHANGED <<work, net>>

CleanupOwns ==
    /\ call.flow = "WAITING" /\ ~obj.owner /\ obj.subs = 0
    /\ obj' = [obj EXCEPT !.state = "STOPPING", !.owner = TRUE,
                          !.actor = IF @ = "OPEN" THEN "CLOSED" ELSE @]
    /\ call' = [call EXCEPT !.flow = "DRAINING"]
    /\ UNCHANGED <<work, net>>

(* Once the client has stopped and the actor is quiescent. *)
CleanupEnds ==
    /\ call.flow = "DRAINING" /\ Active = {} /\ net \in {"NONE", "GONE"}
    /\ obj' = [obj EXCEPT !.actor = "DOWN", !.executor = FALSE, !.client = FALSE, !.owner = FALSE,
                          !.state = IF call.then = "FAIL" THEN "FAILED" ELSE "STOPPED"]
    /\ call' = [call EXCEPT !.flow = IF call.then = "SHUTDOWN" THEN "DETACHING" ELSE "IDLE"]
    /\ UNCHANGED <<work, net>>

ShutdownStopped ==
    /\ call.flow = "IDLE" /\ obj.state = "STOPPED"
    /\ call' = [call EXCEPT !.flow = "DETACHING"]
    /\ UNCHANGED <<obj, work, net>>

Detach ==
    /\ call.flow = "DETACHING"
    /\ obj' = [obj EXCEPT !.detached = TRUE, !.state = "DETACHED"]
    /\ call' = [call EXCEPT !.flow = "IDLE"]
    /\ UNCHANGED <<work, net>>

(* Destroying is refused until the sink is detached and torn down. *)
Destroy ==
    /\ call.flow = "IDLE" /\ call.poll = "IDLE"
    /\ obj.detached /\ ~obj.client /\ obj.actor = "DOWN" /\ ~obj.executor /\ ~obj.owner
    /\ obj.subs = 0
    /\ obj' = [obj EXCEPT !.state = "FREED"]
    /\ call' = [call EXCEPT !.flow = "GONE", !.poll = "GONE"]
    /\ work' = [m \in Messages |-> [work[m] EXCEPT !.sub = "LEFT"]]
    /\ UNCHANGED net

Next ==
    \/ \E m \in Messages :
          SubmitReject(m) \/ SubmitEnter(m) \/ SubmitActor(m) \/ SubmissionFinish(m)
          \/ BackendSubmit(m) \/ BackendCancel(m) \/ ActorCompletion(m)
    \/ Acknowledge \/ OnConnected \/ OnFailed \/ OnClosed \/ OnSend
    \/ PollBegin \/ PollEnd
    \/ Start \/ StartConnects \/ StartFails
    \/ \E then \in {"STOP", "SHUTDOWN"} : StopBegin(then)
    \/ CleanupOwns \/ CleanupEnds \/ ShutdownStopped \/ Detach \/ Destroy

Spec == Init /\ [][Next]_vars

(* A submission inside the actor finds the actor alive. *)
ActorAlive == \A m \in Messages : work[m].sub = "IN" => obj.actor # "DOWN"

(* Every claim the actor took is settled exactly once by the time the actor
   is gone, the boundary's snapshot never meets counters it calls a protocol
   error nor reports a state its resources contradict, and no message over
   the client's limit was sent. *)
ClaimsSettle ==
    /\ ManagedSnapshot # "EPROTO"
    /\ ManagedState = "RUNNING" => obj.actor = "OPEN"
    /\ ManagedState = "STOPPED" => obj.actor = "DOWN" /\ ~obj.client /\ Active = {}
    /\ \A m \in Messages : work[m].settled <= 1
    /\ obj.actor = "DOWN" =>
          /\ \A m \in Messages : work[m].req \in {"NONE", "FREE"}
          /\ obj.native = None /\ obj.delivered = None
          /\ obj.subs = 0 => obj.accepted = obj.completed
    /\ obj.native # None => obj.native <= obj.maxSend
=============================================================================
