-------------------------- MODULE CNetPacketSource --------------------------
(***************************************************************************)
(* The packet source of io/cnet (turbo_flow_cnet_packet_source.c).  A      *)
(* packet endpoint pushes datagrams whether or not the graph has demand,   *)
(* so they wait in a bounded queue that fails the source when it is full;  *)
(* replies are tagged sends whose terminals wait in a queue of the same    *)
(* capacity.  Owner thread and CFlow are as in CNetStreamSource.           *)
(***************************************************************************)
EXTENDS Naturals, Sequences, FiniteSets

CONSTANTS
    Capacity,   \* queue_capacity, of messages and of reply terminals
    MaxDemand,  \* bound: values requested in all
    MaxId,      \* the last message id (UINT64_MAX)
    Tags        \* reply tags the host uses, each once

VARIABLES
    obj,    \* the fields of turbo_flow_cnet_packet_source_t, its queues included
    work,   \* the run and the replies
    call,   \* where the owner thread is
    net     \* the tagged sends the endpoint holds, and whether it is stopped

vars == <<obj, work, call, net>>

ConfigValid(protocol, max, datagram, kcp, flow, managed) ==
    /\ Capacity > 0 /\ max > 0
    /\ protocol = "UDP" => max <= datagram
    /\ protocol = "KCP" => max <= kcp
    /\ flow = IF managed THEN "COMPILED" ELSE "STARTED"

New(protocol, managed) ==
    [state |-> "NEW", status |-> "OK", run |-> FALSE, managed |-> managed, protocol |-> protocol,
     messages |-> <<>>, terminals |-> <<>>, replies |-> 0, cancelled |-> FALSE,
     exhausted |-> FALSE, nextId |-> 1, received |-> 0]

Init ==
    /\ \E protocol \in {"UDP", "KCP"}, managed \in BOOLEAN, flow \in {"COMPILED", "STARTED"},
          max, datagram, kcp \in 0 .. 1 :
          /\ ConfigValid(protocol, max, datagram, kcp, flow, managed)
          /\ obj = New(protocol, managed)
    /\ work = [graph |-> "NONE", demand |-> 0, asked |-> 0, runnable |-> FALSE, waker |-> FALSE,
               out |-> <<>>, sent |-> {}, taken |-> {}]
    /\ call = "NEW"
    /\ net = [sends |-> {}, up |-> FALSE]

Wake(w) == [w EXCEPT !.runnable = @ \/ w.waker, !.waker = FALSE]

(* The first failure stands, and one met while stopping is not recorded. *)
Ended == obj.state \in {"FAILED", "STOPPING", "STOPPED"}
Fail(o, why) == IF Ended THEN o ELSE [o EXCEPT !.state = "FAILED", !.status = why]
FailWork(w) == IF Ended THEN w ELSE Wake(w)

Open ==
    /\ call = "NEW"
    /\ obj' = [obj EXCEPT !.state = "RUNNING", !.run = TRUE]
    /\ work' = [work EXCEPT !.graph = "RUNNING"]
    /\ net' = [net EXCEPT !.up = TRUE]
    /\ call' = "IDLE"

OpenCleanup ==
    /\ call = "NEW"
    /\ obj' = [obj EXCEPT !.state = "FREED"]
    /\ call' = "GONE"
    /\ UNCHANGED <<work, net>>

(***************************************************************************)
(* The publisher, resumed by the scheduler.                                *)
(***************************************************************************)
Scheduling == call \in {"FIRST", "SECOND"}

Resume ==
    /\ Scheduling /\ work.graph = "RUNNING" /\ work.runnable /\ work.demand > 0
    /\ IF obj.state = "FAILED" \/ obj.cancelled \/ obj.state \in {"STOPPING", "STOPPED"}
       THEN /\ work' = [work EXCEPT !.graph = IF obj.state = "FAILED" THEN "FAILED" ELSE "DONE"]
            /\ UNCHANGED obj
       ELSE \/ /\ obj.messages # <<>>
               /\ obj' = [obj EXCEPT !.messages = Tail(@)]
               /\ \E graph \in {"RUNNING", "FAILED"} :
                     work' = [work EXCEPT !.out = Append(@, Head(obj.messages)),
                                          !.demand = @ - 1, !.graph = graph]
            \/ /\ obj.messages = <<>> /\ obj.exhausted
               /\ obj' = Fail(obj, "ERANGE")
               /\ work' = [FailWork(work) EXCEPT !.graph = "FAILED"]
            \/ /\ obj.messages = <<>> /\ ~obj.exhausted
               /\ work' = [work EXCEPT !.runnable = FALSE, !.waker = TRUE]
               /\ UNCHANGED obj
    /\ UNCHANGED <<call, net>>

(***************************************************************************)
(* Callbacks of the endpoint.                                              *)
(***************************************************************************)
Networking == call \in {"NET", "STOP"} /\ net.up

(* Kinds: UDP gives datagrams, KCP bytes. *)
ViewStatus(view) ==
    IF view.kind # (IF obj.protocol = "UDP" THEN "DATAGRAM" ELSE "BYTES") THEN "EPROTO"
    ELSE IF Len(obj.messages) >= Capacity THEN "ENOBUFS"
    ELSE IF view.large THEN "EMSGSIZE"
    ELSE IF obj.exhausted THEN "ERANGE" ELSE "OK"

OnReceive(view) ==
    /\ Networking /\ obj.state = "RUNNING"
    /\ LET why == ViewStatus(view)
       IN IF why = "OK"
          THEN /\ obj' = [obj EXCEPT !.messages = Append(@, obj.nextId), !.received = @ + 1,
                                     !.exhausted = obj.nextId = MaxId,
                                     !.nextId = IF @ = MaxId THEN @ ELSE @ + 1]
               /\ work' = Wake(work)
          ELSE obj' = Fail(obj, why) /\ work' = FailWork(work)
    /\ UNCHANGED <<call, net>>

(* A tagged send ends: the terminal is queued, which the room kept for it
   makes possible. *)
OnSendTerminal(tag) ==
    /\ Networking /\ tag \in net.sends
    /\ net' = [net EXCEPT !.sends = @ \ {tag}]
    /\ IF obj.replies = 0 THEN obj' = Fail(obj, "EPROTO") /\ work' = FailWork(work)
       ELSE IF Len(obj.terminals) >= Capacity
       THEN obj' = Fail([obj EXCEPT !.replies = @ - 1], "EPROTO") /\ work' = FailWork(work)
       ELSE /\ obj' = [obj EXCEPT !.replies = @ - 1, !.terminals = Append(@, tag)]
            /\ UNCHANGED work
    /\ UNCHANGED call

OnError ==
    /\ Networking
    /\ obj' = Fail(obj, "EIO") /\ work' = FailWork(work)
    /\ UNCHANGED <<call, net>>

(***************************************************************************)
(* The owner thread.                                                       *)
(***************************************************************************)
Live == obj.state = "RUNNING"

Request ==
    /\ call = "IDLE" /\ Live /\ work.asked < MaxDemand /\ work.graph = "RUNNING"
    /\ work' = [work EXCEPT !.demand = @ + 1, !.asked = @ + 1, !.runnable = @ \/ ~work.waker]
    /\ UNCHANGED <<obj, call, net>>

RunFailed == obj.run /\ obj.state # "STOPPING" /\ work.graph \in {"FAILED", "CANCELED"}
RefreshRun ==
    /\ obj' = IF RunFailed THEN Fail(obj, "RUN") ELSE obj
    /\ work' = IF RunFailed THEN FailWork(work) ELSE work

PollBegin ==
    /\ call = "IDLE" /\ Live
    /\ call' = "FIRST"
    /\ UNCHANGED <<obj, work, net>>

PollRan ==
    /\ Scheduling
    /\ RefreshRun
    /\ call' = IF call = "SECOND" THEN "IDLE" ELSE IF obj'.state = "RUNNING" THEN "NET" ELSE "SECOND"
    /\ UNCHANGED net

PollPolled ==
    /\ call = "NET"
    /\ \/ UNCHANGED <<obj, work>>
       \/ obj' = Fail(obj, "POLL") /\ work' = FailWork(work)
    /\ call' = "SECOND"
    /\ UNCHANGED net

(* A reply is taken while sends and untaken terminals leave room for it. *)
ReplySend(tag) ==
    /\ call = "IDLE" /\ Live /\ tag \notin work.sent
    /\ obj.replies + Len(obj.terminals) < Capacity
    /\ obj' = [obj EXCEPT !.replies = @ + 1]
    /\ net' = [net EXCEPT !.sends = @ \cup {tag}]
    /\ work' = [work EXCEPT !.sent = @ \cup {tag}]
    /\ UNCHANGED call

ReplyTakeTerminal ==
    /\ call = "IDLE" /\ obj.terminals # <<>>
    /\ work' = [work EXCEPT !.taken = @ \cup {Head(obj.terminals)}]
    /\ obj' = [obj EXCEPT !.terminals = Tail(@)]
    /\ UNCHANGED <<call, net>>

(* Stopping drops the queued messages and keeps the terminals. *)
Stop ==
    /\ call = "IDLE" /\ obj.state # "STOPPED"
    /\ LET closes == obj.run /\ ~obj.managed
       IN /\ obj' = [obj EXCEPT !.state = "STOPPING", !.run = FALSE, !.messages = <<>>,
                                !.cancelled = @ \/ closes]
          /\ work' = IF closes
                     THEN [work EXCEPT !.waker = FALSE,
                                       !.graph = IF @ = "RUNNING" THEN "CANCELED" ELSE @]
                     ELSE work
    /\ call' = "STOP"
    /\ UNCHANGED net

StopTimesOut ==
    /\ call = "STOP" /\ net.up
    /\ call' = "IDLE"
    /\ UNCHANGED <<obj, work, net>>

(* A stopped endpoint has ended every send. *)
StopEnds ==
    /\ call = "STOP" /\ net.sends = {}
    /\ obj' = [obj EXCEPT !.state = "STOPPED"]
    /\ net' = [net EXCEPT !.up = FALSE]
    /\ call' = "IDLE"
    /\ UNCHANGED work

Destroy ==
    /\ call = "IDLE" /\ obj.state = "STOPPED" /\ obj.replies = 0 /\ obj.terminals = <<>>
    /\ obj' = [obj EXCEPT !.state = "FREED"]
    /\ call' = "GONE"
    /\ UNCHANGED <<work, net>>

Views == [kind : {"DATAGRAM", "BYTES"}, large : BOOLEAN]

Next ==
    \/ Open \/ OpenCleanup \/ Resume
    \/ \E view \in Views : OnReceive(view)
    \/ \E tag \in Tags : OnSendTerminal(tag) \/ ReplySend(tag)
    \/ OnError \/ ReplyTakeTerminal
    \/ Request \/ PollBegin \/ PollRan \/ PollPolled
    \/ Stop \/ StopTimesOut \/ StopEnds \/ Destroy

Spec == Init /\ [][Next]_vars

(* Messages reach the graph in the order of their ids, the queue keeps to
   its capacity, and until the source stops none is lost. *)
Delivers ==
    /\ Len(obj.messages) <= Capacity
    /\ \A i \in DOMAIN work.out : work.out[i] = i
    /\ \A i \in DOMAIN obj.messages : obj.messages[i] = Len(work.out) + i
    /\ obj.state \in {"RUNNING", "FAILED"} => obj.received = Len(work.out) + Len(obj.messages)

(* Between polls a run with demand is woken, or the queue is empty. *)
NeverAsleep ==
    call = "IDLE" /\ work.graph = "RUNNING" /\ work.demand > 0 /\ obj.run /\ ~work.runnable =>
       obj.state = "RUNNING" /\ obj.messages = <<>> /\ work.waker

(* Every reply the source took is sending, waiting to be taken, or taken. *)
ReplyEndsOnce ==
    /\ obj.replies = Cardinality(net.sends)
    /\ \A tag \in work.sent :
          Cardinality({i \in DOMAIN obj.terminals : obj.terminals[i] = tag})
          + (IF tag \in net.sends THEN 1 ELSE 0) + (IF tag \in work.taken THEN 1 ELSE 0) = 1
    /\ obj.state = "FREED" => work.taken = work.sent
=============================================================================
