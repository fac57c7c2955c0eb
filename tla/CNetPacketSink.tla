--------------------------- MODULE CNetPacketSink ---------------------------
(***************************************************************************)
(* The packet sink of io/cnet (turbo_flow_cnet_packet_sink.c).  It differs *)
(* from the datagram sink in three things: a message occupies a slot of a  *)
(* fixed table and is named by a tag, the slot and its generation; a       *)
(* failure is checked and stored in two steps; and a stop may fail half    *)
(* way, which leaves the sink FAILED and the stop to be called again.      *)
(***************************************************************************)
EXTENDS Naturals, FiniteSets, FiniteSetsExt

CONSTANTS
    Messages,       \* message numbers, each with its own claim
    None,           \* no message
    Capacity,       \* send_capacity: the slots of the operation table
    MaxGeneration,  \* the last generation of a slot (UINT32_MAX in the code)
    MaxStarts,      \* bound: starts of the adapter
    MaxFaults       \* bound: stops that fail half way

VARIABLES
    obj,    \* the fields of turbo_flow_cnet_packet_sink_t
    work,   \* message -> its submission, its request, its claim
    call,   \* where the flow's call and the host's poll are
    net     \* sends the endpoint has, and the last terminal it delivered

vars == <<obj, work, call, net>>

Slots == 1 .. Capacity

ConfigValid(max, maxSession, sends) ==
    max > 0 /\ max <= maxSession /\ Capacity > 0 /\ Capacity <= sends

Free(generation) == [occupied |-> FALSE, ready |-> FALSE, gen |-> generation]

Registered(max, maxSession) ==
    [state |-> "REGISTERED", status |-> "OK", owner |-> FALSE, starting |-> FALSE, subs |-> 0,
     endpoint |-> FALSE, executor |-> FALSE, actor |-> "DOWN", session |-> "CLOSED",
     operations |-> [s \in Slots |-> Free(0)], delivered |-> {}, accepted |-> 0, completed |-> 0,
     rejected |-> 0, sent |-> 0, failed |-> 0, detached |-> FALSE, max |-> max,
     maxSession |-> maxSession]

NoWork == [sub |-> "NEW", slot |-> 0, req |-> "NONE", result |-> "OK", by |-> None, settled |-> 0]

Init ==
    /\ \E max, maxSession \in Messages :
          /\ ConfigValid(max, maxSession, Capacity)
          /\ obj = Registered(max, maxSession)
    /\ work = [m \in Messages |-> NoWork]
    /\ call = [flow |-> "IDLE", then |-> "STOP", poll |-> "IDLE", failing |-> FALSE, starts |-> 0,
               faults |-> 0]
    /\ net = [flight |-> {}, last |-> <<None, 0, 0>>]

Active == {m \in Messages : work[m].req \in {"QUEUED", "NATIVE", "DONE", "TOLD"}}

ManagedState ==
    IF obj.starting THEN "STARTING"
    ELSE CASE obj.state \in {"REGISTERED", "RUNNING"} -> obj.state
           [] obj.state = "STOPPING" -> IF Active # {} THEN "DRAINING" ELSE "STOPPING"
           [] obj.state \in {"STOPPED", "DETACHED"} -> "STOPPED"
           [] OTHER -> "FAILED"

ManagedSnapshot ==
    IF obj.subs > 0 THEN "EBUSY"
    ELSE IF Cardinality(Active) > Capacity \/ obj.completed > obj.accepted THEN "EPROTO"
    ELSE "OK"

(***************************************************************************)
(* packet_sink_fail.  The state is looked at first and stored later; the   *)
(* first status stands.  Callbacks run on the owner's thread, so one       *)
(* failure at a time is between its two steps.                             *)
(***************************************************************************)
Quiet == obj.state \in {"STOPPING", "STOPPED", "DETACHED"}

Failed(o) == [o EXCEPT !.status = IF @ = "OK" THEN "ERR" ELSE @, !.state = "FAILED"]

Driving ==
    /\ obj.actor # "DOWN" /\ ~call.failing
    /\ call.poll = "POLLING" \/ call.flow = "DRAINING"

(* on_receive, on_error, a poll that fails. *)
FailLooks ==
    /\ Driving /\ ~Quiet
    /\ call' = [call EXCEPT !.failing = TRUE]
    /\ UNCHANGED <<obj, work, net>>

FailStores ==
    /\ call.failing
    /\ obj' = Failed(obj)
    /\ call' = [call EXCEPT !.failing = FALSE]
    /\ UNCHANGED <<work, net>>

(***************************************************************************)
(* Submission by a graph thread.                                           *)
(***************************************************************************)
Rejects(m) == m > obj.max \/ obj.detached \/ obj.actor = "DOWN" \/ obj.state # "RUNNING"

SubmitReject(m) ==
    /\ work[m].sub = "NEW" /\ Rejects(m)
    /\ obj' = [obj EXCEPT !.rejected = @ + 1]
    /\ work' = [work EXCEPT ![m].sub = "LEFT"]
    /\ UNCHANGED <<call, net>>

SubmitEnter(m) ==
    /\ work[m].sub = "NEW" /\ ~Rejects(m)
    /\ obj' = [obj EXCEPT !.subs = @ + 1]
    /\ work' = [work EXCEPT ![m].sub = "IN"]
    /\ UNCHANGED <<call, net>>

Usable == {s \in Slots : ~obj.operations[s].occupied /\ obj.operations[s].gen < MaxGeneration}

(* Mutant: a slot is taken again under its old generation. *)
OperationAcquireSame(m) ==
    /\ work[m].sub = "IN" /\ Usable # {}
    /\ LET s == Min(Usable)
       IN  /\ obj' = [obj EXCEPT !.operations[s].occupied = TRUE, !.operations[s].gen = 1]
           /\ work' = [work EXCEPT ![m].sub = "SLOT", ![m].slot = s]
    /\ UNCHANGED <<call, net>>

(* The first slot that is free and not exhausted, under a new generation. *)
OperationAcquire(m) ==
    /\ work[m].sub = "IN" /\ Usable # {}
    /\ LET s == Min(Usable)
       IN  /\ obj' = [obj EXCEPT !.operations[s].occupied = TRUE, !.operations[s].gen = @ + 1]
           /\ work' = [work EXCEPT ![m].sub = "SLOT", ![m].slot = s]
    /\ UNCHANGED <<call, net>>

(* ENOSPC, or ERANGE when a free slot has no generation left. *)
OperationExhausted(m) ==
    /\ work[m].sub = "IN" /\ Usable = {}
    /\ work' = [work EXCEPT ![m].sub = "REFUSED"]
    /\ UNCHANGED <<obj, call, net>>

(* The claim moves into the operation and the actor takes it, or refuses it
   and the slot is reset. *)
SubmitActor(m) ==
    /\ work[m].sub = "SLOT"
    /\ LET s == work[m].slot
       IN  IF obj.actor = "OPEN" /\ Cardinality(Active) < Capacity
           THEN /\ obj' = [obj EXCEPT !.operations[s].ready = TRUE]
                /\ work' = [work EXCEPT ![m].sub = "TAKEN", ![m].req = "QUEUED"]
           ELSE /\ obj' = [obj EXCEPT !.operations[s] = Free(@.gen)]
                /\ work' = [work EXCEPT ![m].sub = "REFUSED"]
    /\ UNCHANGED <<call, net>>

SubmissionFinish(m) ==
    /\ work[m].sub \in {"TAKEN", "REFUSED"}
    /\ obj' = IF work[m].sub = "TAKEN"
              THEN [obj EXCEPT !.accepted = @ + 1, !.subs = @ - 1]
              ELSE [obj EXCEPT !.rejected = @ + 1, !.subs = @ - 1]
    /\ work' = [work EXCEPT ![m].sub = "LEFT"]
    /\ UNCHANGED <<call, net>>

(***************************************************************************)
(* Driving the actor and the endpoint, by whoever owns them.               *)
(***************************************************************************)
TagOf(m) == <<obj.operations[work[m].slot].gen, work[m].slot>>

(* Terminals travel as <<message, generation, slot>>; the code sees the tag. *)
BackendSubmit(m) ==
    /\ Driving /\ obj.actor = "OPEN" /\ work[m].req = "QUEUED"
    /\ \/ /\ net' = [net EXCEPT !.flight = @ \cup {<<m, TagOf(m)[1], TagOf(m)[2]>>}]
          /\ work' = [work EXCEPT ![m].req = "NATIVE"]
       \/ /\ work' = [work EXCEPT ![m].req = "DONE", ![m].result = "FAILED"]
          /\ UNCHANGED net
    /\ UNCHANGED <<obj, call>>

ActorCancels(m) ==
    /\ Driving /\ obj.actor = "CLOSED" /\ work[m].req = "QUEUED"
    /\ work' = [work EXCEPT ![m].req = "DONE", ![m].result = "CANCELLED"]
    /\ UNCHANGED <<obj, call, net>>

(* The messages whose operation a tag names. *)
FromTag(g, s) ==
    {m \in Active : /\ work[m].slot = s /\ obj.operations[s].gen = g
                    /\ obj.operations[s].occupied /\ obj.operations[s].ready}

(* A terminal without an operation, or that the actor no longer waits for,
   fails the sink unless it is already on its way down. *)
Terminal(t, result) ==
    LET waiting == {m \in FromTag(t[2], t[3]) : work[m].req = "NATIVE"}
    IN  IF waiting = {}
        THEN UNCHANGED work /\ obj' = IF Quiet THEN obj ELSE Failed(obj)
        ELSE /\ work' = [m \in Messages |->
                            IF m \in waiting
                            THEN [work[m] EXCEPT !.req = "DONE", !.result = result, !.by = t[1]]
                            ELSE work[m]]
             /\ UNCHANGED obj

OnSendTerminal(t, result) ==
    /\ Driving /\ t \in net.flight
    /\ result = "CANCELLED" => call.flow = "DRAINING"
    /\ Terminal(t, result)
    /\ net' = [flight |-> net.flight \ {t}, last |-> t]
    /\ UNCHANGED call

(* The endpoint delivers its last terminal a second time. *)
ReplayLastTerminal ==
    /\ ~obj.owner /\ obj.subs = 0 /\ obj.state = "RUNNING" /\ net.last[1] # None
    /\ Terminal(net.last, "OK")
    /\ net' = [net EXCEPT !.last = <<None, 0, 0>>]
    /\ UNCHANGED call

ActorCompletion(m) ==
    /\ Driving /\ work[m].req = "DONE"
    /\ obj' = [obj EXCEPT !.delivered = IF Cardinality(@) < Capacity THEN @ \cup {m} ELSE @,
                          !.sent = IF work[m].result = "OK" THEN @ + 1 ELSE @,
                          !.failed = IF work[m].result = "OK" THEN @ ELSE @ + 1,
                          !.completed = @ + 1]
    /\ work' = [work EXCEPT ![m].req = "TOLD", ![m].settled = @ + 1]
    /\ UNCHANGED <<call, net>>

(* Acknowledged operations are released: their slots become free. *)
Acknowledge ==
    /\ Driving /\ obj.delivered # {}
    /\ work' = [m \in Messages |-> IF m \in obj.delivered THEN [work[m] EXCEPT !.req = "FREE"]
                                                          ELSE work[m]]
    /\ obj' = [obj EXCEPT !.delivered = {},
                          !.operations = [s \in Slots |->
                              IF \E m \in obj.delivered : work[m].slot = s
                              THEN Free(obj.operations[s].gen) ELSE obj.operations[s]]]
    /\ UNCHANGED <<call, net>>

(* A session that closes while the sink runs is a failure. *)
OnState(session) ==
    /\ Driving
    /\ obj.session = IF session = "OPEN" THEN "OPENING" ELSE "OPEN"
    /\ obj' = [obj EXCEPT !.session = session]
    /\ call' = [call EXCEPT !.failing = session = "CLOSED" /\ obj.state = "RUNNING"]
    /\ UNCHANGED <<work, net>>

(***************************************************************************)
(* The host's poll.                                                        *)
(***************************************************************************)
PollBegin ==
    /\ call.poll = "IDLE"
    /\ ~obj.detached /\ obj.endpoint /\ obj.actor # "DOWN"
    /\ obj.state \notin {"STOPPING", "STOPPED"} /\ ~obj.owner
    /\ obj' = [obj EXCEPT !.owner = TRUE]
    /\ call' = [call EXCEPT !.poll = "POLLING"]
    /\ UNCHANGED <<work, net>>

PollEnd ==
    /\ call.poll = "POLLING" /\ ~call.failing
    /\ obj' = [obj EXCEPT !.owner = FALSE]
    /\ call' = [call EXCEPT !.poll = "IDLE"]
    /\ UNCHANGED <<work, net>>

(***************************************************************************)
(* Start, stop and shutdown, called by the flow.                           *)
(***************************************************************************)
Start ==
    /\ call.flow = "IDLE" /\ call.starts < MaxStarts
    /\ ~obj.detached /\ ~obj.owner /\ obj.subs = 0
    /\ obj.state \in {"REGISTERED", "STOPPED"}
    /\ obj' = [obj EXCEPT !.owner = TRUE, !.starting = TRUE, !.status = "OK", !.session = "CLOSED",
                          !.delivered = {}]
    /\ call' = [call EXCEPT !.flow = "STARTING", !.starts = @ + 1]
    /\ UNCHANGED <<work, net>>

StartRuns ==
    /\ call.flow = "STARTING"
    /\ obj' = [obj EXCEPT !.endpoint = TRUE, !.executor = TRUE, !.actor = "OPEN", !.owner = FALSE,
                          !.starting = FALSE, !.state = "RUNNING", !.session = "OPENING"]
    /\ call' = [call EXCEPT !.flow = "IDLE"]
    /\ UNCHANGED <<work, net>>

(* A failed start gives up the ownership and then calls the stop itself. *)
StartFails ==
    /\ call.flow = "STARTING"
    /\ \E reached \in 0 .. 3 :
          obj' = [obj EXCEPT !.executor = reached > 0, !.actor = IF reached > 1 THEN "OPEN" ELSE @,
                             !.endpoint = reached > 2, !.starting = FALSE, !.status = "ERR",
                             !.state = "FAILED", !.owner = FALSE]
    /\ call' = [call EXCEPT !.flow = "FAILING"]
    /\ UNCHANGED <<work, net>>

StopBegin(then) ==
    /\ call.flow = IF then = "FAIL" THEN "FAILING" ELSE "IDLE"
    /\ obj.state \notin {"STOPPED", "DETACHED"}
    /\ obj' = [obj EXCEPT !.state = "STOPPING"]
    /\ call' = [call EXCEPT !.flow = "WAITING", !.then = then]
    /\ UNCHANGED <<work, net>>

StopOwns ==
    /\ call.flow = "WAITING" /\ ~obj.owner /\ obj.subs = 0
    /\ obj' = [obj EXCEPT !.owner = TRUE, !.actor = IF @ = "OPEN" THEN "CLOSED" ELSE @]
    /\ call' = [call EXCEPT !.flow = "DRAINING"]
    /\ UNCHANGED <<work, net>>

Drained == call.flow = "DRAINING" /\ Active = {} /\ net.flight = {} /\ ~call.failing

StopEnds ==
    /\ Drained
    /\ obj' = [obj EXCEPT !.actor = "DOWN", !.executor = FALSE, !.endpoint = FALSE,
                          !.session = "CLOSED", !.owner = FALSE,
                          !.state = IF call.then = "FAIL" THEN "FAILED" ELSE "STOPPED"]
    /\ call' = [call EXCEPT !.flow = IF call.then = "SHUTDOWN" THEN "DETACHING" ELSE "IDLE"]
    /\ UNCHANGED <<work, net>>

(* The endpoint's stop or one of the destroys fails: what comes after it
   stays, and the flow may call stop again. *)
StopFails ==
    /\ Drained /\ call.faults < MaxFaults
    /\ \E reached \in 0 .. 2 :
          obj' = [obj EXCEPT !.actor = IF reached > 0 THEN "DOWN" ELSE @,
                             !.executor = IF reached > 1 THEN FALSE ELSE @,
                             !.status = IF @ = "OK" THEN "ERR" ELSE @, !.state = "FAILED",
                             !.owner = FALSE]
    /\ call' = [call EXCEPT !.flow = "IDLE", !.faults = @ + 1]
    /\ UNCHANGED <<work, net>>

ShutdownStopped ==
    /\ call.flow = "IDLE" /\ obj.state = "STOPPED"
    /\ call' = [call EXCEPT !.flow = "DETACHING"]
    /\ UNCHANGED <<obj, work, net>>

Detach ==
    /\ call.flow = "DETACHING"
    /\ obj' = [obj EXCEPT !.detached = TRUE, !.state = "DETACHED"]
    /\ call' = [call EXCEPT !.flow = "IDLE"]
    /\ UNCHANGED <<work, net>>

Destroy ==
    /\ call.flow = "IDLE" /\ call.poll = "IDLE"
    /\ obj.detached /\ ~obj.endpoint /\ obj.actor = "DOWN" /\ ~obj.executor /\ ~obj.owner
    /\ obj.subs = 0
    /\ obj' = [obj EXCEPT !.state = "FREED"]
    /\ call' = [call EXCEPT !.flow = "GONE", !.poll = "GONE"]
    /\ work' = [m \in Messages |-> [work[m] EXCEPT !.sub = "LEFT"]]
    /\ UNCHANGED net

Next ==
    \/ \E m \in Messages :
          \/ SubmitReject(m) \/ SubmitEnter(m) \/ OperationAcquire(m) \/ OperationExhausted(m)
          \/ SubmitActor(m) \/ SubmissionFinish(m)
          \/ BackendSubmit(m) \/ ActorCancels(m) \/ ActorCompletion(m)
    \/ \E t \in net.flight, result \in {"OK", "CANCELLED", "FAILED"} : OnSendTerminal(t, result)
    \/ ReplayLastTerminal \/ Acknowledge \/ FailLooks \/ FailStores
    \/ \E session \in {"OPEN", "CLOSED"} : OnState(session)
    \/ PollBegin \/ PollEnd
    \/ Start \/ StartRuns \/ StartFails
    \/ \E then \in {"STOP", "SHUTDOWN", "FAIL"} : StopBegin(then)
    \/ StopOwns \/ StopEnds \/ StopFails \/ ShutdownStopped \/ Detach \/ Destroy

Spec == Init /\ [][Next]_vars

(* A submission inside the actor finds the actor alive. *)
ActorAlive == \A m \in Messages : work[m].sub \in {"IN", "SLOT"} => obj.actor # "DOWN"

(* As for the datagram sink; a message is completed by its own terminal and
   no other, and the slots in use are those of the messages inside. *)
ClaimsSettle ==
    /\ ManagedSnapshot # "EPROTO"
    /\ ManagedState = "RUNNING" => obj.actor = "OPEN"
    /\ ManagedState = "STOPPED" => obj.actor = "DOWN" /\ ~obj.endpoint /\ Active = {}
    /\ \A m \in Messages :
          /\ work[m].settled <= 1
          /\ work[m].req = "TOLD" => m \in obj.delivered
          /\ work[m].by \in {None, m}
    /\ {s \in Slots : obj.operations[s].occupied}
          = {work[m].slot : m \in Active \cup {n \in Messages : work[n].sub = "SLOT"}}
    /\ obj.actor = "DOWN" =>
          obj.delivered = {} /\ (obj.subs = 0 => obj.accepted = obj.completed)
    /\ \A t \in net.flight : t[1] <= obj.maxSession
=============================================================================
