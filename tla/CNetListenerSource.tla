------------------------- MODULE CNetListenerSource -------------------------
(***************************************************************************)
(* The listener source of io/cnet (turbo_flow_cnet_listener_source.c).     *)
(* Accepted connections live in a fixed array of slots; the whole source   *)
(* has one receive outstanding and one ready message, the receive going    *)
(* round the connected slots.  A reply is sent on the connection a message *)
(* came from, and ends in a terminal the host takes.  Owner thread, CFlow  *)
(* and network are as in CNetStreamSource.                                 *)
(***************************************************************************)
EXTENDS Naturals, Sequences, FiniteSets

CONSTANTS
    None,       \* no message, no connection, no reply
    Capacity,   \* max_connections: the number of slots
    Conns,      \* connection handles, 1 .. n in the order they are accepted
    MaxDemand,  \* bound: values requested in all
    MaxId,      \* the last message id (UINT64_MAX)
    Tags        \* reply tags the host uses, each once

VARIABLES
    obj,    \* the fields of turbo_flow_cnet_listener_source_t, its slots included
    work,   \* the run and the replies: demand, waker, delivered values, tags taken
    call,   \* where the owner thread is
    net     \* connection -> its state with the network, receives and sends it holds

vars == <<obj, work, call, net>>

Slots == 0 .. Capacity - 1
FreeSlot == [conn |-> None, up |-> FALSE, closing |-> FALSE, pending |-> FALSE, reply |-> None,
             terminal |-> None]

ConfigValid(max, buffer, connCapacity, flow, managed) ==
    /\ Capacity > 0 /\ Capacity <= connCapacity
    /\ max > 0 /\ max <= buffer
    /\ flow = IF managed THEN "COMPILED" ELSE "STARTED"

New(managed) ==
    [state |-> "NEW", status |-> "OK", run |-> FALSE, managed |-> managed, listening |-> FALSE,
     slots |-> [s \in Slots |-> FreeSlot], ready |-> None, pending |-> None, cursor |-> 0,
     active |-> 0, cancelled |-> FALSE, received |-> 0, accepted |-> 0, over |-> 0]

Init ==
    /\ \E managed \in BOOLEAN, flow \in {"COMPILED", "STARTED"}, max, buffer \in 0 .. 1 :
          ConfigValid(max, buffer, Capacity, flow, managed) /\ obj = New(managed)
    /\ work = [graph |-> "NONE", demand |-> 0, asked |-> 0, runnable |-> FALSE, waker |-> FALSE,
               out |-> <<>>, sent |-> {}, taken |-> <<>>]
    /\ call = "NEW"
    /\ net = [c \in Conns |-> [st |-> "BACKLOG", credit |-> 0, send |-> None]]

Wake(w) == [w EXCEPT !.runnable = @ \/ w.waker, !.waker = FALSE]

FindConnection(c) == {s \in Slots : obj.slots[s].conn = c}
Occupied == {s \in Slots : obj.slots[s].conn # None}

(* A failure closes the listener and every connection not closing yet. *)
Ended == obj.state \in {"FAILED", "STOPPED"}
CloseSlots(slots) == [s \in Slots |-> IF slots[s].conn = None THEN slots[s]
                                      ELSE [slots[s] EXCEPT !.closing = TRUE]]
CloseConns(n, slots) ==
    [c \in Conns |-> IF \E s \in Slots : slots[s].conn = c /\ ~slots[s].closing
                     THEN [n[c] EXCEPT !.st = IF @ = "OVER" THEN @ ELSE "CLOSING"] ELSE n[c]]
Fail(o, why) == IF Ended THEN o
                ELSE [o EXCEPT !.state = "FAILED", !.status = why, !.listening = FALSE,
                               !.slots = CloseSlots(@)]
FailWork(w) == IF Ended THEN w ELSE Wake(w)
FailNet(n, slots) == IF Ended THEN n ELSE CloseConns(n, slots)

Open ==
    /\ call = "NEW"
    /\ obj' = [obj EXCEPT !.state = "LISTENING", !.run = TRUE, !.listening = TRUE]
    /\ work' = [work EXCEPT !.graph = "RUNNING"]
    /\ call' = "IDLE"
    /\ UNCHANGED net

OpenCleanup ==
    /\ call = "NEW"
    /\ obj' = [obj EXCEPT !.state = "FREED"]
    /\ call' = "GONE"
    /\ UNCHANGED <<work, net>>

(***************************************************************************)
(* The publisher, resumed by the scheduler.                                *)
(***************************************************************************)
Scheduling == call \in {"FIRST", "SECOND"}
Over == obj.cancelled \/ obj.state \in {"STOPPING", "STOPPED"}

ResumeValue ==
    /\ obj.ready # None
    /\ obj' = [obj EXCEPT !.ready = None]
    /\ \E graph \in {"RUNNING", "FAILED"} :
          work' = [work EXCEPT !.out = Append(@, obj.ready), !.demand = @ - 1, !.graph = graph]
    /\ UNCHANGED net

Eligible(s) == LET slot == obj.slots[s]
               IN slot.conn # None /\ slot.up /\ ~slot.closing /\ ~slot.pending

(* The first eligible slot at or after the cursor, going round. *)
Selected(s) ==
    /\ Eligible(s)
    /\ \A t \in Slots : Eligible(t) => (s + Capacity - obj.cursor) % Capacity
                                       <= (t + Capacity - obj.cursor) % Capacity

ResumeReceive ==
    /\ obj.ready = None /\ obj.received < MaxId
    /\ \/ \E s \in Slots :
             /\ obj.pending = None /\ Selected(s)
             /\ obj' = [obj EXCEPT !.slots[s].pending = TRUE, !.pending = s,
                                   !.cursor = (s + 1) % Capacity]
             /\ net' = [net EXCEPT ![obj.slots[s].conn].credit = @ + 1]
       \/ (obj.pending # None \/ ~\E s \in Slots : Eligible(s)) /\ UNCHANGED <<obj, net>>
    /\ work' = [work EXCEPT !.runnable = FALSE, !.waker = TRUE]

(* The ids are used up, or the network refuses the receive. *)
ResumeFails ==
    /\ obj.ready = None
    /\ obj.received = MaxId \/ (obj.pending = None /\ \E s \in Slots : Eligible(s))
    /\ obj' = Fail(obj, IF obj.received = MaxId THEN "ERANGE" ELSE "EIO")
    /\ work' = [FailWork(work) EXCEPT !.graph = "FAILED"]
    /\ net' = FailNet(net, obj.slots)

Resume ==
    /\ Scheduling /\ work.graph = "RUNNING" /\ work.runnable /\ work.demand > 0
    /\ IF obj.state = "FAILED" \/ Over
       THEN /\ work' = [work EXCEPT !.graph = IF obj.state = "FAILED" THEN "FAILED" ELSE "DONE"]
            /\ UNCHANGED <<obj, net>>
       ELSE ResumeValue \/ ResumeReceive \/ ResumeFails
    /\ UNCHANGED call

(***************************************************************************)
(* Callbacks of the network.                                               *)
(***************************************************************************)
Networking == call \in {"NET", "STOP"}

ClearPending(o, s) ==
    [o EXCEPT !.slots[s].pending = FALSE, !.pending = IF @ = s THEN None ELSE @]

(* Publishing a reply's terminal ends the pending reply. *)
ReplyPublish(o, s, kind) ==
    IF o.slots[s].reply = None \/ o.slots[s].terminal # None THEN o
    ELSE [o EXCEPT !.slots[s].terminal = <<o.slots[s].reply, kind>>, !.slots[s].reply = None]

(* Mutant: the slot is cleared with the terminal nobody has taken yet. *)
RetireSlotWhole(o, s) ==
    [ClearPending(o, s) EXCEPT !.slots[s] = FreeSlot, !.active = @ - 1]

(* The slot gives up its connection and keeps its terminal. *)
RetireSlot(o, s) ==
    [ClearPending(o, s) EXCEPT !.slots[s] = [FreeSlot EXCEPT !.terminal = o.slots[s].terminal],
                               !.active = @ - 1]

OnConnected(c) ==
    /\ Networking /\ net[c].st = "ACCEPTED"
    /\ net' = [net EXCEPT ![c].st = "UP"]
    /\ obj' = [obj EXCEPT !.slots = [s \in Slots |-> IF s \in FindConnection(c)
                                                     THEN [@[s] EXCEPT !.up = TRUE] ELSE @[s]]]
    /\ work' = Wake(work)
    /\ UNCHANGED call

OnClosing(c) ==
    /\ Networking /\ net[c].st = "UP"
    /\ net' = [net EXCEPT ![c].st = "CLOSING"]
    /\ obj' = [obj EXCEPT !.slots = [s \in Slots |-> IF s \in FindConnection(c)
                                                     THEN [@[s] EXCEPT !.closing = TRUE] ELSE @[s]]]
    /\ UNCHANGED <<work, call>>

(* A connection that ends, closed or failed, ends its reply and its slot. *)
OnEnd(c, kind) ==
    /\ Networking /\ net[c].st \in {"ACCEPTED", "UP", "CLOSING"}
    /\ kind = "PEER_CLOSED" => net[c].st # "ACCEPTED"
    /\ net' = [net EXCEPT ![c] = [st |-> "OVER", credit |-> 0, send |-> None]]
    /\ \E s \in FindConnection(c) :
          LET told == ReplyPublish(obj, s, IF obj.state = "STOPPING" THEN "STOPPED" ELSE kind)
          IN obj' = [RetireSlot(told, s) EXCEPT !.over = @ + 1]
    /\ work' = Wake(work)
    /\ UNCHANGED call

OnSend(c) ==
    /\ Networking /\ net[c].st = "UP" /\ net[c].send # None
    /\ net' = [net EXCEPT ![c].send = None]
    /\ \E s \in FindConnection(c) : obj' = ReplyPublish(obj, s, "SENT")
    /\ UNCHANGED <<work, call>>

OnReceive(c, view) ==
    /\ Networking /\ net[c].st = "UP" /\ net[c].credit > 0
    /\ \E s \in FindConnection(c) :
          LET cleared == ClearPending(obj, s)
              why == IF view = "MALFORMED" THEN "EPROTO"
                     ELSE IF obj.ready # None THEN "EBUSY"
                     ELSE IF view = "LARGE" THEN "EMSGSIZE" ELSE "OK"
              less == [net EXCEPT ![c].credit = @ - 1]
          IN IF why = "OK"
             THEN /\ obj' = [cleared EXCEPT !.ready = <<obj.received + 1, c>>, !.received = @ + 1]
                  /\ work' = Wake(work) /\ net' = less
             ELSE /\ obj' = Fail(cleared, why)
                  /\ work' = FailWork(work) /\ net' = FailNet(less, obj.slots)
    /\ UNCHANGED call

(***************************************************************************)
(* The owner thread.                                                       *)
(***************************************************************************)
Request ==
    /\ call = "IDLE" /\ obj.run /\ work.asked < MaxDemand
    /\ obj.state = "LISTENING" /\ work.graph = "RUNNING"
    /\ work' = [work EXCEPT !.demand = @ + 1, !.asked = @ + 1, !.runnable = @ \/ ~work.waker]
    /\ UNCHANGED <<obj, call, net>>

RunFailed == obj.run /\ obj.state # "STOPPING" /\ work.graph \in {"FAILED", "CANCELED"}
RefreshRun ==
    /\ obj' = IF RunFailed THEN Fail(obj, "RUN") ELSE obj
    /\ work' = IF RunFailed THEN FailWork(work) ELSE work
    /\ net' = IF RunFailed THEN FailNet(net, obj.slots) ELSE net

PollBegin ==
    /\ call = "IDLE" /\ obj.state \in {"LISTENING", "FAILED"}
    /\ call' = "FIRST"
    /\ UNCHANGED <<obj, work, net>>

PollRan ==
    /\ Scheduling
    /\ RefreshRun
    /\ call' = IF call = "SECOND" THEN "IDLE" ELSE IF obj'.state = "FAILED" THEN "SECOND" ELSE "NET"

(* Before and after the client is polled, a waiting connection takes a slot
   that has neither a connection nor a terminal left to take. *)
FindFreeSlot(s) == obj.slots[s].conn = None /\ obj.slots[s].terminal = None

AcceptAvailable(c) ==
    /\ call = "NET" /\ obj.state = "LISTENING" /\ obj.active < Capacity
    /\ net[c].st = "BACKLOG" /\ \A d \in Conns : net[d].st = "BACKLOG" => c <= d
    /\ \E s \in Slots :
          /\ FindFreeSlot(s) /\ \A t \in Slots : FindFreeSlot(t) => s <= t
          /\ obj' = [obj EXCEPT !.slots[s].conn = c, !.slots[s].up = FALSE,
                                !.slots[s].closing = FALSE, !.slots[s].pending = FALSE,
                                !.active = @ + 1, !.accepted = @ + 1]
    /\ net' = [net EXCEPT ![c].st = "ACCEPTED"]
    /\ UNCHANGED <<work, call>>

PollPolled ==
    /\ call = "NET"
    /\ \/ UNCHANGED <<obj, work, net>>
       \/ obj' = Fail(obj, "POLL") /\ work' = FailWork(work) /\ net' = FailNet(net, obj.slots)
    /\ call' = "SECOND"

(* A reply is taken on a connected slot that has none, neither sending nor
   ended and untaken; the network may refuse it. *)
ReplyPrepare(s) ==
    /\ obj.state = "LISTENING"
    /\ obj.slots[s].conn # None /\ obj.slots[s].up /\ ~obj.slots[s].closing
    /\ obj.slots[s].reply = None /\ obj.slots[s].terminal = None

ReplySend(s, tag) ==
    /\ call = "IDLE" /\ tag \notin work.sent
    /\ ReplyPrepare(s)
    /\ \E v \in DOMAIN work.out : work.out[v][2] = obj.slots[s].conn
    /\ obj' = [obj EXCEPT !.slots[s].reply = tag]
    /\ net' = [net EXCEPT ![obj.slots[s].conn].send = tag]
    /\ work' = [work EXCEPT !.sent = @ \cup {tag}]
    /\ UNCHANGED call

ReplyTakeTerminal ==
    /\ call = "IDLE"
    /\ \E s \in Slots :
          /\ obj.slots[s].terminal # None
          /\ \A t \in Slots : obj.slots[t].terminal # None => s <= t
          /\ work' = [work EXCEPT !.taken = Append(@, obj.slots[s].terminal)]
          /\ obj' = [obj EXCEPT !.slots[s].terminal = None]
    /\ UNCHANGED <<call, net>>

Stop ==
    /\ call = "IDLE" /\ obj.state # "STOPPED"
    /\ LET closes == obj.run /\ ~obj.managed
       IN /\ obj' = [obj EXCEPT !.state = "STOPPING", !.run = FALSE, !.listening = FALSE,
                                !.slots = CloseSlots(@), !.cancelled = @ \/ closes]
          /\ work' = IF closes
                     THEN [work EXCEPT !.waker = FALSE,
                                       !.graph = IF @ = "RUNNING" THEN "CANCELED" ELSE @]
                     ELSE work
    /\ net' = CloseConns(net, obj.slots)
    /\ call' = "STOP"

StopTimesOut ==
    /\ call = "STOP" /\ \E c \in Conns : net[c].st \notin {"BACKLOG", "OVER"}
    /\ call' = "IDLE"
    /\ UNCHANGED <<obj, work, net>>

StopEnds ==
    /\ call = "STOP" /\ \A c \in Conns : net[c].st \in {"BACKLOG", "OVER"}
    /\ obj' = [obj EXCEPT !.ready = None, !.pending = None, !.active = 0, !.state = "STOPPED"]
    /\ call' = "IDLE"
    /\ UNCHANGED <<work, net>>

(* The object stays until every reply has ended and been taken. *)
Destroy ==
    /\ call = "IDLE" /\ obj.state = "STOPPED"
    /\ \A s \in Slots : obj.slots[s].reply = None /\ obj.slots[s].terminal = None
    /\ obj' = [obj EXCEPT !.state = "FREED"]
    /\ call' = "GONE"
    /\ UNCHANGED <<work, net>>

Next ==
    \/ Open \/ OpenCleanup \/ Resume
    \/ \E c \in Conns :
          \/ OnConnected(c) \/ OnClosing(c) \/ OnSend(c) \/ AcceptAvailable(c)
          \/ \E kind \in {"PEER_CLOSED", "PEER_FAILED"} : OnEnd(c, kind)
          \/ \E view \in {"BYTES", "MALFORMED", "LARGE"} : OnReceive(c, view)
    \/ \E s \in Slots, tag \in Tags : ReplySend(s, tag)
    \/ ReplyTakeTerminal
    \/ Request \/ PollBegin \/ PollRan \/ PollPolled
    \/ Stop \/ StopTimesOut \/ StopEnds \/ Destroy

Spec == Init /\ [][Next]_vars

Held == IF obj.ready = None THEN 0 ELSE 1

(* The source reads no more than was asked for, gives messages in the order
   of their ids, has one receive outstanding in all, and counts the slots
   that are taken. *)
Delivers ==
    /\ obj.received <= work.asked
    /\ obj.status # "EBUSY"
    /\ \A i \in DOMAIN work.out : work.out[i][1] = i
    /\ obj.state \notin {"STOPPED", "FREED"} =>
          /\ obj.received = Len(work.out) + Held
          /\ obj.active = Cardinality(Occupied)
          /\ obj.accepted = obj.active + obj.over
          /\ \A s \in Slots : obj.slots[s].pending <=> obj.pending = s

(* Between polls a run with demand that is not woken has a receive with the
   network, or no connection could serve one. *)
NeverAsleep ==
    call = "IDLE" /\ work.graph = "RUNNING" /\ work.demand > 0 /\ obj.run /\ ~work.runnable =>
       /\ obj.state = "LISTENING" /\ obj.ready = None /\ work.waker
       /\ obj.pending # None \/ ~\E s \in Slots : Eligible(s)

(* Every reply the source took is sending, ended and waiting to be taken, or
   taken: exactly one of the three, and the object outlives them. *)
ReplyEndsOnce ==
    /\ \A tag \in work.sent :
          Cardinality({s \in Slots : obj.slots[s].reply = tag})
          + Cardinality({s \in Slots : obj.slots[s].terminal # None /\ obj.slots[s].terminal[1] = tag})
          + Cardinality({i \in DOMAIN work.taken : work.taken[i][1] = tag}) = 1
    /\ obj.state = "FREED" => Len(work.taken) = Cardinality(work.sent)
=============================================================================
