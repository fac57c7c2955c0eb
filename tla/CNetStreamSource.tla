-------------------------- MODULE CNetStreamSource --------------------------
(***************************************************************************)
(* The stream source of io/cnet (turbo_flow_cnet_stream_source.c): one     *)
(* outbound connection whose chunks become graph messages.  One owner      *)
(* thread calls request, poll and stop; poll drives a manual CFlow         *)
(* scheduler, then the network client, then the scheduler again.  CFlow    *)
(* (external) resumes the publisher while the run has demand and is not    *)
(* waiting; the network (external) calls on_state and on_receive.          *)
(***************************************************************************)
EXTENDS Naturals, Sequences

CONSTANTS
    None,       \* no message
    MaxDemand,  \* bound: values requested in all
    MaxId       \* the last message id (UINT64_MAX)

VARIABLES
    obj,    \* the fields of turbo_flow_cnet_stream_source_t
    work,   \* the run: its state, demand, waker and delivered ids
    call,   \* where the owner thread is
    net     \* the connection: its state, the receives asked for, chunks sent

vars == <<obj, work, call, net>>

ConfigValid(max, buffer, flow, managed) ==
    /\ max > 0 /\ max <= buffer
    /\ flow = IF managed THEN "COMPILED" ELSE "STARTED"

New(managed) ==
    [state |-> "NEW", status |-> "OK", run |-> FALSE, managed |-> managed, ready |-> None,
     pending |-> FALSE, cancelled |-> FALSE, destroyed |-> FALSE, exhausted |-> FALSE,
     nextId |-> 1, received |-> 0]

Init ==
    /\ \E managed \in BOOLEAN, flow \in {"COMPILED", "STARTED"}, max, buffer \in 0 .. 2 :
          ConfigValid(max, buffer, flow, managed) /\ obj = New(managed)
    /\ work = [graph |-> "NONE", demand |-> 0, asked |-> 0, runnable |-> FALSE, waker |-> FALSE,
               terminal |-> FALSE, out |-> <<>>]
    /\ call = "NEW"
    /\ net = [conn |-> "NONE", credit |-> 0]

(* Waking takes the waker: it fires once per arm. *)
Wake(w) == [w EXCEPT !.runnable = @ \/ w.waker, !.waker = FALSE]
WakeAll(w) == [Wake(w) EXCEPT !.terminal = ~obj.cancelled]

(* The first failure stands; it closes the connection. *)
Ended == obj.state \in {"FAILED", "STOPPED"}
Fail(o, why) == IF Ended THEN o
                ELSE [o EXCEPT !.state = "FAILED", !.status = why, !.pending = FALSE]
FailWork(w) == IF Ended THEN w ELSE WakeAll(w)
FailNet(n) == IF ~Ended /\ n.conn \in {"CONNECTING", "UP"} THEN [n EXCEPT !.conn = "CLOSING"] ELSE n

Open ==
    /\ call = "NEW"
    /\ obj' = [obj EXCEPT !.state = "CONNECTING", !.run = TRUE]
    /\ work' = [work EXCEPT !.graph = "RUNNING"]
    /\ net' = [net EXCEPT !.conn = "CONNECTING"]
    /\ call' = "IDLE"

(* A failed open frees the object, and nothing of it is left. *)
OpenCleanup ==
    /\ call = "NEW"
    /\ obj' = [obj EXCEPT !.state = "FREED"]
    /\ call' = "GONE"
    /\ UNCHANGED <<work, net>>

(***************************************************************************)
(* The publisher, resumed by the scheduler.                                *)
(***************************************************************************)
Scheduling == call \in {"FIRST", "SECOND"}
Over == obj.cancelled \/ obj.state \in {"STOPPING", "STOPPED", "REMOTE_CLOSED"}

(* The value leaves the source; the graph may fail on it. *)
ResumeValue ==
    /\ obj.ready # None
    /\ obj' = [obj EXCEPT !.ready = None]
    /\ \E graph \in {"RUNNING", "FAILED"} :
          work' = [work EXCEPT !.out = Append(@, obj.ready), !.demand = @ - 1, !.graph = graph]
    /\ UNCHANGED net

Waits(w) == [w EXCEPT !.runnable = FALSE, !.waker = ~obj.destroyed]

(* With nothing to give, one receive is asked for, and the publisher waits. *)
ResumeReceive ==
    /\ obj.ready = None /\ ~obj.exhausted
    /\ IF obj.state = "CONNECTED" /\ ~obj.pending
       THEN \/ /\ net' = [net EXCEPT !.credit = @ + 1]
               /\ obj' = [obj EXCEPT !.pending = TRUE]
               /\ work' = Waits(work)
            \/ /\ net' = FailNet(net) /\ obj' = Fail(obj, "EIO")
               /\ work' = [FailWork(work) EXCEPT !.graph = "FAILED"]
       ELSE work' = Waits(work) /\ UNCHANGED <<obj, net>>

ResumeExhausted ==
    /\ obj.ready = None /\ obj.exhausted
    /\ net' = FailNet(net) /\ obj' = Fail(obj, "ERANGE")
    /\ work' = [FailWork(work) EXCEPT !.graph = "FAILED"]

Resume ==
    /\ Scheduling /\ work.graph = "RUNNING" /\ work.runnable /\ work.demand > 0
    /\ IF obj.state = "FAILED" \/ Over
       THEN /\ work' = [work EXCEPT !.graph = IF obj.state = "FAILED" THEN "FAILED" ELSE "DONE"]
            /\ UNCHANGED <<obj, net>>
       ELSE ResumeValue \/ ResumeReceive \/ ResumeExhausted
    /\ UNCHANGED call

(* Woken for the terminal, CFlow ends the run whether or not it has demand. *)
PollTerminal ==
    /\ Scheduling /\ work.terminal /\ work.graph = "RUNNING"
    /\ obj.state = "FAILED" \/ Over
    /\ work' = [work EXCEPT !.graph = IF obj.state = "FAILED" THEN "FAILED" ELSE "DONE",
                            !.terminal = FALSE]
    /\ UNCHANGED <<obj, call, net>>

PublisherCancel(o) == [o EXCEPT !.cancelled = TRUE, !.destroyed = TRUE]

(***************************************************************************)
(* Callbacks of the network, inside the client's poll or stop.             *)
(***************************************************************************)
Networking == call \in {"NET", "STOP"}

OnConnected ==
    /\ Networking /\ net.conn = "CONNECTING"
    /\ net' = [net EXCEPT !.conn = "UP"]
    /\ IF obj.state = "CONNECTING"
       THEN obj' = [obj EXCEPT !.state = "CONNECTED"] /\ work' = Wake(work)
       ELSE UNCHANGED <<obj, work>>
    /\ UNCHANGED call

OnClosed ==
    /\ Networking /\ net.conn \in {"UP", "CLOSING"}
    /\ net' = [conn |-> "OVER", credit |-> 0]
    /\ IF obj.state \in {"STOPPING", "STOPPED", "FAILED"}
       THEN obj' = [obj EXCEPT !.pending = FALSE] /\ UNCHANGED work
       ELSE /\ obj' = [obj EXCEPT !.pending = FALSE, !.state = "REMOTE_CLOSED", !.status = "OK"]
            /\ work' = WakeAll(work)
    /\ UNCHANGED call

OnFailed ==
    /\ Networking /\ net.conn \in {"CONNECTING", "UP", "CLOSING"}
    /\ net' = [conn |-> "OVER", credit |-> 0]
    /\ obj' = Fail(obj, "EIO") /\ work' = FailWork(work)
    /\ UNCHANGED call

(* Mutant: the message is stored without waking the publisher. *)
TakeSilently ==
    /\ obj' = [obj EXCEPT !.pending = FALSE, !.ready = obj.nextId, !.received = @ + 1,
                          !.exhausted = obj.nextId = MaxId,
                          !.nextId = IF @ = MaxId THEN @ ELSE @ + 1]
    /\ UNCHANGED work

(* The chunk is copied into the one ready message, under the next id. *)
Take ==
    /\ obj' = [obj EXCEPT !.pending = FALSE, !.ready = obj.nextId, !.received = @ + 1,
                          !.exhausted = obj.nextId = MaxId,
                          !.nextId = IF @ = MaxId THEN @ ELSE @ + 1]
    /\ work' = Wake(work)

OnReceive(view) ==
    /\ Networking /\ net.conn = "UP" /\ net.credit > 0
    /\ LET why == IF view = "MALFORMED" THEN "EPROTO"
                  ELSE IF obj.ready # None THEN "EBUSY"
                  ELSE IF view = "LARGE" THEN "EMSGSIZE"
                  ELSE IF view = "NO_MEMORY" THEN "ENOMEM" ELSE "OK"
           less == [net EXCEPT !.credit = @ - 1]
       IN IF why = "OK" THEN Take /\ net' = less
          ELSE /\ obj' = Fail([obj EXCEPT !.pending = FALSE], why)
               /\ work' = FailWork(work) /\ net' = FailNet(less)
    /\ UNCHANGED call

(***************************************************************************)
(* The owner thread.                                                       *)
(***************************************************************************)
Request ==
    /\ call = "IDLE" /\ obj.run /\ work.asked < MaxDemand
    /\ obj.state \notin {"FAILED", "REMOTE_CLOSED", "STOPPING", "STOPPED"}
    /\ work.graph = "RUNNING"
    /\ work' = [work EXCEPT !.demand = @ + 1, !.asked = @ + 1, !.runnable = @ \/ ~work.waker]
    /\ UNCHANGED <<obj, call, net>>

RunFailed == obj.run /\ obj.state # "STOPPING" /\ work.graph \in {"FAILED", "CANCELED"}
RefreshRun ==
    /\ obj' = IF RunFailed THEN Fail(obj, "RUN") ELSE obj
    /\ work' = IF RunFailed THEN FailWork(work) ELSE work
    /\ net' = IF RunFailed THEN FailNet(net) ELSE net

PollBegin ==
    /\ call = "IDLE" /\ obj.state \notin {"STOPPED", "FAILED"}
    /\ call' = "FIRST"
    /\ UNCHANGED <<obj, work, net>>

(* The scheduler runs until idle, or for as many steps as are configured. *)
PollRan ==
    /\ Scheduling
    /\ RefreshRun
    /\ call' = IF call = "SECOND" \/ obj'.state = "FAILED" THEN "IDLE"
               ELSE IF obj.state = "STOPPING" THEN "SECOND" ELSE "NET"

PollPolled ==
    /\ call = "NET"
    /\ \/ UNCHANGED <<obj, work, net>>
       \/ obj' = Fail(obj, "POLL") /\ work' = FailWork(work) /\ net' = FailNet(net)
    /\ call' = IF obj'.state = "FAILED" THEN "IDLE" ELSE "SECOND"

(* Stopping closes an unmanaged run, which cancels the publisher. *)
Stop ==
    /\ call = "IDLE" /\ obj.state # "STOPPED"
    /\ LET closes == obj.run /\ ~obj.managed
           stopping == [obj EXCEPT !.state = "STOPPING", !.run = FALSE]
       IN /\ obj' = IF closes THEN PublisherCancel(stopping) ELSE stopping
          /\ work' = IF closes
                     THEN [work EXCEPT !.waker = FALSE, !.terminal = FALSE,
                                       !.graph = IF @ = "RUNNING" THEN "CANCELED" ELSE @]
                     ELSE work
    /\ net' = IF net.conn \in {"CONNECTING", "UP"} THEN [net EXCEPT !.conn = "CLOSING"] ELSE net
    /\ call' = "STOP"

StopTimesOut ==
    /\ call = "STOP" /\ net.conn = "CLOSING"
    /\ call' = "IDLE"
    /\ UNCHANGED <<obj, work, net>>

StopEnds ==
    /\ call = "STOP" /\ net.conn \in {"NONE", "OVER"}
    /\ obj' = [obj EXCEPT !.ready = None, !.pending = FALSE, !.state = "STOPPED"]
    /\ call' = "IDLE"
    /\ UNCHANGED <<work, net>>

Destroy ==
    /\ call = "IDLE" /\ obj.state = "STOPPED"
    /\ obj' = [obj EXCEPT !.state = "FREED"]
    /\ call' = "GONE"
    /\ UNCHANGED <<work, net>>

Views == {"BYTES", "MALFORMED", "LARGE", "NO_MEMORY"}

Next ==
    \/ Open \/ OpenCleanup
    \/ Resume \/ PollTerminal
    \/ OnConnected \/ OnClosed \/ OnFailed \/ \E view \in Views : OnReceive(view)
    \/ Request \/ PollBegin \/ PollRan \/ PollPolled
    \/ Stop \/ StopTimesOut \/ StopEnds \/ Destroy

Spec == Init /\ [][Next]_vars

Held == IF obj.ready = None THEN 0 ELSE 1

(* The source reads no more than the graph asked for, keeps one chunk at
   most, gives the graph the chunks in the order of their ids, and while it
   is connected loses none. *)
Delivers ==
    /\ obj.received <= work.asked
    /\ obj.status # "EBUSY"
    /\ \A i \in DOMAIN work.out : work.out[i] = i
    /\ obj.state \notin {"STOPPED", "FREED"} => obj.received = Len(work.out) + Held

(* Between polls a run with demand is never left asleep: it is woken, or a
   receive is with the network. *)
NeverAsleep ==
    call = "IDLE" /\ work.graph = "RUNNING" /\ work.demand > 0 /\ obj.run /\ ~work.runnable =>
       \/ obj.state = "CONNECTING"
       \/ obj.state = "CONNECTED" /\ obj.pending /\ net.credit = 1 /\ work.waker
=============================================================================
