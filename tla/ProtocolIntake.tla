----------------------------- MODULE ProtocolIntake -----------------------------
(***************************************************************************)
(* The protocol network intake, ingress/protocol/network/src: an owner     *)
(* that polls a network source, a sink that feeds what arrives to a        *)
(* protocol source and admits the decoded frames to the durable buffer of  *)
(* another Flow, and the replies the codec makes for admitted frames.      *)
(* Everything runs on the thread that calls poll and stop; the source      *)
(* makes progress, and ends the replies it is sending, in its own poll.    *)
(*                                                                         *)
(*   obj   the owner and the sink;  call  what the owner thread is doing;  *)
(*   net   the transport: its connections, and the frames they carried;    *)
(*   work  the protocol source, and what became of messages and frames.    *)
(***************************************************************************)
EXTENDS Naturals, Sequences, FiniteSets

CONSTANTS
    None,
    Links,          \* transport slots
    Settings,       \* configurations offered to create
    MaxMessages, MaxGeneration, MaxFaults

VARIABLES obj, work, call, net

vars == <<obj, work, call, net>>

(***************************************************************************)
(* The protocol source, flow_protocol_source.c: a bounded table of parser  *)
(* sessions, each of which cuts the bytes it is fed into frames and offers *)
(* them, in order, for admission.  A source is a value, and an operator is *)
(* one call.  Of the bytes a session holds there remain the complete       *)
(* frames and `part`, the messages whose bytes an incomplete frame is made *)
(* of; a frame is [of, from]: the message that completes it and its place  *)
(* there, and the messages its bytes are from.                             *)
(***************************************************************************)
SourceCreate(ids) == [accepting |-> TRUE, sessions |-> [i \in ids |-> None]]

SessionNew(generation) ==
    [generation |-> generation, failed |-> FALSE, blocked |-> FALSE, gap |-> FALSE,
     part |-> {}, frames |-> <<>>]

\* session_open: the same identifier is not opened twice.
OpenRefused(src, i) == ~src.accepting \/ src.sessions[i] # None
SessionOpen(src, i, generation) == [src EXCEPT !.sessions[i] = SessionNew(generation)]

CloseRefused(src, i, generation) ==
    src.sessions[i] = None \/ src.sessions[i].generation # generation
SessionClose(src, i) == [src EXCEPT !.sessions[i] = None]

(* A message m ends `ends` frames and has bytes after the last one when it *)
(* has a tail; the first frame it ends includes what was there before.     *)
Frames(m, part) ==
    [k \in 1 .. m.ends |->
        [of |-> <<m.id, k>>, from |-> IF k = 1 THEN part \cup {m.id} ELSE {m.id}]]
Part(m, part) == IF m.ends = 0 THEN part \cup {m.id} ELSE IF m.tail THEN {m.id} ELSE {}

\* session_feed: with bytes, and without any to resume a session that was blocked.
FeedRefused(src, i, generation) ==
    \/ ~src.accepting \/ CloseRefused(src, i, generation)
    \/ src.sessions[i].failed
FeedBusy(src, i) == src.sessions[i].blocked
SessionFeed(src, i, m) ==
    [src EXCEPT !.sessions[i].frames = @ \o Frames(m, src.sessions[i].part),
                !.sessions[i].part = Part(m, @)]
SessionResume(src, i) == [src EXCEPT !.sessions[i].blocked = FALSE]
(* ENOBUFS: the bytes do not fit behind the ones held and are not taken,   *)
(* so what follows starts in the middle of a frame, unless none was cut.   *)
SessionOverflow(src, i, m) ==
    [src EXCEPT !.sessions[i].gap = @ \/ src.sessions[i].part # {} \/ Part(m, {}) # {}]

\* pump: the frame at the head was admitted, was refused for want of room, or is in error.
PumpAdmitted(src, i) == [src EXCEPT !.sessions[i].frames = Tail(@)]
PumpBlocked(src, i) == [src EXCEPT !.sessions[i].blocked = TRUE]
PumpFailed(src, i) == [src EXCEPT !.sessions[i].failed = TRUE]

\* begin_shutdown and force_shutdown, which differ in the status they report.
Shutdown(src) == [accepting |-> FALSE, sessions |-> [i \in DOMAIN src.sessions |-> None]]

(***************************************************************************)
(* The intake.                                                             *)
(***************************************************************************)

(* intake_validate_pairing and _bounds: the sessions are the transport's,  *)
(* and the claims and bytes of a whole source poll fit: a poll runs the    *)
(* scheduler twice.                                                        *)
PairingValid(c) ==
    \/ c.kind = "JTT808" /\ c.transport = "LISTENER"
    \/ c.kind = "COAP" /\ c.transport = "UDP"
BoundsValid(c) ==
    c.sessions = c.connections /\ 2 * c.steps <= c.claims /\ c.message * c.claims <= c.bytes
\* intake_read_protocol and intake_owner_reply_policy.
PolicyValid(c) == c.reply <= c.frame /\ c.mapper <= c.frame
Preflight(c) == PairingValid(c) /\ BoundsValid(c) /\ PolicyValid(c)

Replies == obj.config.reply # 0

NoLink == [generation |-> 0, up |-> FALSE, reply |-> None, terminal |-> None, part |-> {}]

Init ==
    /\ \E c \in Settings :
          /\ Preflight(c)
          /\ obj = [state |-> "NEW", config |-> c, held |-> {}, flow |-> "CALLER", pending |-> <<>>,
                    bytes |-> 0, replies |-> <<>>, inflight |-> {}, tag |-> 1, blocked |-> None,
                    full |-> FALSE, terminal |-> "OK",
                    slots |-> [s \in Links |-> [generation |-> 0, last |-> 0]]]
    /\ work = [src |-> SourceCreate(Links), admitted |-> <<>>, done |-> <<>>]
    /\ call = [pc |-> "IDLE", then |-> None, left |-> 0, ok |-> TRUE, faults |-> 0]
    /\ net = [links |-> [s \in Links |-> NoLink], cut |-> {}, broken |-> FALSE]

MayFault(ok) == ok \/ call.faults < MaxFaults
Idle == [call EXCEPT !.pc = "IDLE", !.then = None, !.left = 0, !.ok = TRUE]
Faults(ok) == call.faults + (IF ok THEN 0 ELSE 1)

(* turbo_flow_protocol_network_intake_create, failing at one of its steps  *)
(* or at none.  Up to the sink everything is given back and the caller     *)
(* keeps the Flow; then the Flow is the intake's and ends with it.  An     *)
(* owner that cannot be destroyed keeps the catalog retained for ever.     *)
Acquired == {"CATALOG", "REGISTRY", "PROTOCOL", "SINK", "PRODUCT"}
BeforeTransfer == {"RETAIN", "REGISTRY", "PROTOCOL", "REPLY", "MAPPER", "SINK"}
AfterTransfer == {"REGISTER", "MATERIALIZE", "VTABLE", "SUPPORTED", "COMPILE", "TOPOLOGY"}
PinUnretirable == {"PRODUCT", "CATALOG"}
Create ==
    /\ call.pc = "IDLE" /\ obj.state = "NEW"
    /\ \/ /\ obj' = [obj EXCEPT !.state = "COMPILED", !.held = Acquired, !.flow = "COMPILED"]
          /\ UNCHANGED call
       \/ /\ MayFault(FALSE)
          /\ \/ \E step \in BeforeTransfer : obj' = [obj EXCEPT !.state = "GONE"]
             \/ \E step \in AfterTransfer :
                   obj' = [obj EXCEPT !.state = "GONE", !.flow = "DESTROYED"]
             \/ obj' = [obj EXCEPT !.state = "GONE", !.flow = "DESTROYED", !.held = PinUnretirable]
          /\ call' = [call EXCEPT !.faults = @ + 1]
    /\ UNCHANGED <<work, net>>

\* turbo_flow_protocol_network_intake_start: the Flow, and then its endpoint.
Start(flows, ok) ==
    /\ call.pc = "IDLE" /\ obj.state = "COMPILED" /\ MayFault(ok) /\ (ok => flows)
    /\ obj' = [obj EXCEPT !.state = IF ok THEN "RUNNING" ELSE "FAILED",
                          !.flow = IF flows THEN "STARTED" ELSE "FAILED"]
    /\ call' = [call EXCEPT !.faults = Faults(ok)]
    /\ UNCHANGED <<work, net>>

-----------------------------------------------------------------------------
(* The sink. *)

Backpressured == obj.blocked # None \/ obj.full \/ obj.replies # <<>>

(* Every call into the sink ends by returning to its caller.               *)
Return(ok) ==
    CASE call.then = "POLL" -> [call EXCEPT !.pc = "POLL", !.then = None, !.ok = TRUE]
      [] call.then = "STOP" -> [call EXCEPT !.pc = "STOP", !.then = None, !.ok = @ /\ ok]
      [] OTHER -> [call EXCEPT !.pc = call.then, !.then = None, !.ok = ok]

\* flow_protocol_network_intake_sink_retry, from its start.
Retry(then) == [call EXCEPT !.pc = "DRAIN", !.then = then]

\* intake_reply_drain_terminals: a terminal must match a reply in flight.
Terminals == {s \in Links : net.links[s].terminal # None}
DrainTerminal(s) ==
    /\ call.pc = "DRAIN" /\ s \in Terminals /\ \A t \in Terminals : s <= t
    /\ LET r == [tag |-> net.links[s].terminal, link |-> s,
                 generation |-> net.links[s].generation]
       IN IF r \in obj.inflight
          THEN /\ obj' = [obj EXCEPT !.inflight = @ \ {r}]
               /\ UNCHANGED call
          ELSE /\ call' = Return(FALSE)
               /\ obj' = [obj EXCEPT !.full = FALSE]
    /\ net' = [net EXCEPT !.links[s].terminal = None]
    /\ UNCHANGED work
DrainEnd ==
    /\ call.pc = "DRAIN" /\ Terminals = {}
    /\ obj' = [obj EXCEPT !.full = FALSE]
    /\ call' = [call EXCEPT !.pc = "SEND"]
    /\ UNCHANGED <<work, net>>

(* intake_reply_drive: the queued replies, in order, while the transport   *)
(* takes them.  A connection sends one reply at a time; a reply it cannot  *)
(* take now waits, and one it refuses otherwise is dropped.                *)
Current(r) == net.links[r.link].up /\ net.links[r.link].generation = r.generation
Sending(s) == net.links[s].reply # None \/ net.links[s].terminal # None
SendAnswers(r) ==
    CASE ~Current(r) -> {"ERROR"}
      [] Current(r) /\ Sending(r.link) -> {"EBUSY"}
      [] OTHER -> IF MayFault(FALSE) THEN {"OK", "EBUSY", "ERROR"} ELSE {"OK"}
SendReply(answer) ==
    /\ call.pc = "SEND" /\ obj.replies # <<>> /\ ~obj.full
    /\ LET r == Head(obj.replies)
       IN /\ answer \in SendAnswers(r)
          /\ obj' = CASE answer = "OK" -> [obj EXCEPT !.replies = Tail(@), !.inflight = @ \cup {r}]
                      [] answer = "EBUSY" -> [obj EXCEPT !.full = TRUE]
                      [] answer = "ERROR" -> [obj EXCEPT !.replies = Tail(@)]
          /\ net' = IF answer = "OK" THEN [net EXCEPT !.links[r.link].reply = r.tag] ELSE net
          /\ call' = [call EXCEPT !.faults = Faults(SendAnswers(r) = {answer} \/ answer = "OK")]
    /\ UNCHANGED work
StopIgnores(status) == call.then = "STOP" /\ status = "ECANCELED"
SendEnd ==
    /\ call.pc = "SEND" /\ (obj.replies = <<>> \/ obj.full)
    /\ call' = IF obj.terminal # "OK" THEN Return(StopIgnores(obj.terminal))
               ELSE IF obj.full THEN Return(TRUE)
               ELSE [call EXCEPT !.pc = "FRONT"]
    /\ UNCHANGED <<obj, work, net>>

(* intake_claim_complete and intake_pending_pop.  A claim that cannot be   *)
(* completed stays and ends the sink; an error ends the source's run.      *)
Settle(completes) ==
    /\ call.pc = "SETTLE" /\ MayFault(completes)
    /\ obj' = IF completes
              THEN [obj EXCEPT !.pending = Tail(@), !.bytes = @ - obj.config.message, !.blocked = None]
              ELSE [obj EXCEPT !.terminal = "ERROR", !.blocked = IF call.ok THEN None ELSE @]
    /\ work' = IF completes
               THEN [work EXCEPT !.done = Append(@, [id |-> Head(obj.pending).id, ok |-> call.ok])]
               ELSE work
    /\ net' = [net EXCEPT !.broken = @ \/ (completes /\ ~call.ok)]
    /\ call' = IF completes THEN [call EXCEPT !.pc = "FRONT", !.ok = TRUE]
               ELSE [Return(FALSE) EXCEPT !.faults = @ + 1]

(* intake_session_prepare: a newer generation of the slot closes the       *)
(* parser of the older one; message ids only grow.                         *)
PrepareRefused(m) ==
    LET slot == obj.slots[m.link]
    IN slot.generation # 0 /\ (m.generation < slot.generation \/ m.id <= slot.last)
Prepare(m) ==
    LET slot == obj.slots[m.link]
    IN IF slot.generation = m.generation THEN work.src
       ELSE SessionOpen(SessionClose(work.src, m.link), m.link, m.generation)

(* intake_process_front, up to the feed.                                   *)
ToSettle(ok) == [call EXCEPT !.pc = "SETTLE", !.ok = ok]
ProcessFront(fits) ==
    /\ call.pc = "FRONT" /\ obj.pending # <<>>
    /\ LET m == Head(obj.pending)
           o == [obj EXCEPT !.slots[m.link] = [generation |-> m.generation, last |-> m.id]]
           src == Prepare(m)
       IN IF obj.blocked # None
          THEN /\ fits
               /\ work' = [work EXCEPT !.src = SessionResume(@, obj.blocked)]
               /\ call' = [call EXCEPT !.pc = "PUMP"]
               /\ UNCHANGED obj
          ELSE IF PrepareRefused(m)
          THEN /\ fits
               /\ call' = ToSettle(FALSE)
               /\ UNCHANGED <<obj, work>>
          ELSE IF FeedRefused(src, m.link, m.generation) \/ FeedBusy(src, m.link)
          THEN /\ fits
               /\ obj' = o
               /\ work' = [work EXCEPT !.src = src]
               /\ call' = ToSettle(FALSE)
          ELSE \* ENOBUFS when the parser has no room for the bytes
               /\ MayFault(fits)
               /\ obj' = o
               /\ work' = [work EXCEPT !.src = IF fits THEN SessionFeed(src, m.link, m)
                                               ELSE SessionOverflow(src, m.link, m)]
               /\ call' = IF fits THEN [call EXCEPT !.pc = "PUMP"]
                          ELSE [ToSettle(FALSE) EXCEPT !.faults = @ + 1]
    /\ UNCHANGED net
FrontEnd ==
    /\ call.pc = "FRONT" /\ obj.pending = <<>>
    /\ call' = Return(TRUE)
    /\ UNCHANGED <<obj, work, net>>

(* flow_protocol_source_pump with intake_decoded_admit.  A frame is        *)
(* offered downstream only when its reply would have room; downstream      *)
(* takes it, is full, or fails.  Once it is admitted, the reply is queued, *)
(* empty or failed, which changes nothing for the frame.                   *)
ReplyRoom == Len(obj.replies) + Cardinality(obj.inflight) < obj.config.claims
Session(m) == work.src.sessions[m.link]
Pumping == call.pc = "PUMP" /\ Session(Head(obj.pending)).frames # <<>>
PumpBlocks ==
    /\ Pumping /\ ~Session(Head(obj.pending)).gap
    /\ LET m == Head(obj.pending)
       IN /\ work' = [work EXCEPT !.src = PumpBlocked(@, m.link)]
          /\ obj' = [obj EXCEPT !.blocked = m.link]
    /\ call' = Return(TRUE)
    /\ UNCHANGED net
PumpFails ==
    /\ Pumping
    /\ LET m == Head(obj.pending)
       IN /\ MayFault(Session(m).gap)
          /\ work' = [work EXCEPT !.src = PumpFailed(@, m.link)]
          /\ call' = [ToSettle(FALSE) EXCEPT !.faults = Faults(Session(m).gap)]
    /\ UNCHANGED <<obj, net>>
Admit(replies) ==
    /\ Pumping /\ ~Session(Head(obj.pending)).gap
    /\ replies => Replies
    /\ Replies => ReplyRoom
    /\ LET m == Head(obj.pending)
           r == [tag |-> obj.tag, link |-> m.link, generation |-> m.generation]
       IN /\ work' = [work EXCEPT !.src = PumpAdmitted(@, m.link),
                                  !.admitted = Append(@, Head(Session(m).frames))]
          /\ obj' = IF replies
                    THEN [obj EXCEPT !.replies = Append(@, r), !.tag = @ + 1] ELSE obj
    /\ UNCHANGED <<call, net>>
PumpEnd ==
    /\ call.pc = "PUMP" /\ Session(Head(obj.pending)).frames = <<>>
    /\ obj' = [obj EXCEPT !.blocked = None]
    /\ call' = ToSettle(TRUE)
    /\ UNCHANGED <<work, net>>

-----------------------------------------------------------------------------
(* The owner and its source. *)

Polled == obj.state \in {"RUNNING", "BACKPRESSURED"}
Poll ==
    /\ call.pc = "IDLE" /\ Polled
    /\ call' = Retry("SOURCE")
    /\ UNCHANGED <<obj, work, net>>
Fail == obj' = [obj EXCEPT !.state = "FAILED"]
(* The source is polled when nothing waits: neither a claim nor a reply.   *)
PollSource ==
    /\ call.pc = "SOURCE"
    /\ IF ~call.ok \/ obj.terminal # "OK"
       THEN Fail /\ call' = Idle
       ELSE IF Backpressured \/ obj.pending # <<>>
       THEN /\ obj' = [obj EXCEPT !.state = "BACKPRESSURED"]
            /\ call' = Idle
       ELSE /\ call' = [call EXCEPT !.pc = "POLL", !.left = 2 * obj.config.steps]
            /\ UNCHANGED obj
    /\ UNCHANGED <<work, net>>

\* Inside the source's poll: connections come, end their replies, and go.
EndReply(link, up) ==
    IF link.reply = None THEN [link EXCEPT !.up = up]
    ELSE [link EXCEPT !.up = up, !.terminal = link.reply, !.reply = None]
Accept(s) ==
    /\ call.pc = "POLL" /\ ~net.broken /\ ~net.links[s].up /\ net.links[s].terminal = None
    /\ net.links[s].generation < MaxGeneration
    /\ net' = [net EXCEPT !.links[s] = [NoLink EXCEPT !.generation = net.links[s].generation + 1,
                                                      !.up = TRUE]]
    /\ UNCHANGED <<obj, work, call>>
Disconnect(s) ==
    /\ call.pc = "POLL" /\ net.links[s].up
    /\ net' = [net EXCEPT !.links[s] = EndReply(@, FALSE)]
    /\ UNCHANGED <<obj, work, call>>
Sent(s) ==
    /\ call.pc = "POLL" /\ net.links[s].up /\ net.links[s].reply # None
    /\ net' = [net EXCEPT !.links[s] = EndReply(@, TRUE)]
    /\ UNCHANGED <<obj, work, call>>

(* intake_async_submit: the claim is taken or refused, and worked on at    *)
(* once unless the front is blocked.                                       *)
Received == Len(work.done) + Len(obj.pending)
SubmitRefused ==
    \/ Len(obj.pending) >= obj.config.claims
    \/ obj.bytes + obj.config.message > obj.config.bytes
Deliver(s, ends, tail) ==
    /\ call.pc = "POLL" /\ call.left > 0 /\ ~net.broken /\ obj.terminal = "OK" /\ net.links[s].up
    /\ Received < MaxMessages
    /\ ends = 0 => tail
    /\ ends = 2 => ~tail
    /\ obj.config.kind = "COAP" => ends = 1 /\ ~tail
    /\ LET m == [id |-> Received + 1, link |-> s, generation |-> net.links[s].generation,
                 ends |-> ends, tail |-> tail]
           frames == Frames(m, net.links[s].part)
           refused == SubmitRefused
       IN /\ net' = [net EXCEPT !.links[s].part = Part(m, @), !.broken = @ \/ refused,
                                !.cut = @ \cup {frames[k] : k \in DOMAIN frames}]
          /\ obj' = IF refused THEN obj
                    ELSE [obj EXCEPT !.pending = Append(@, m), !.bytes = @ + obj.config.message]
          /\ work' = IF refused
                     THEN [work EXCEPT !.done = Append(@, [id |-> m.id, ok |-> FALSE])] ELSE work
    /\ call' = [call EXCEPT !.left = @ - 1, !.then = "POLL",
                            !.pc = IF obj.blocked = None /\ ~SubmitRefused THEN "FRONT" ELSE "POLL"]
PollEnd(ok) ==
    /\ call.pc = "POLL" /\ MayFault(ok)
    /\ call' = [IF ok /\ ~net.broken THEN [Retry("END") EXCEPT !.left = 0] ELSE Idle
                EXCEPT !.faults = Faults(ok)]
    /\ IF ok /\ ~net.broken THEN UNCHANGED obj ELSE Fail
    /\ UNCHANGED <<work, net>>
PollReturn ==
    /\ call.pc = "END"
    /\ obj' = [obj EXCEPT !.state = IF ~call.ok \/ obj.terminal # "OK" THEN "FAILED"
                                    ELSE IF Backpressured \/ obj.pending # <<>> THEN "BACKPRESSURED"
                                    ELSE "RUNNING"]
    /\ call' = Idle
    /\ UNCHANGED <<work, net>>

(* flow_protocol_network_intake_sink_cancel: every claim ends, the replies *)
(* stay queued, and an earlier terminal status is kept.                    *)
Cancel(o) ==
    [o EXCEPT !.pending = <<>>, !.bytes = 0, !.blocked = None,
              !.terminal = IF @ = "OK" THEN "ECANCELED" ELSE @,
              !.slots = [s \in Links |-> [generation |-> 0, last |-> 0]]]
Canceled(o) == [i \in DOMAIN o.pending |-> [id |-> o.pending[i].id, ok |-> FALSE]]

(* turbo_flow_protocol_network_intake_stop.  Stopping the Flow closes the  *)
(* connections, which ends the replies they were sending.                  *)
StopCompiled(ok) ==
    /\ call.pc = "IDLE" /\ obj.state = "COMPILED" /\ MayFault(ok)
    /\ obj' = [obj EXCEPT !.state = IF ok THEN "STOPPED" ELSE "FAILED"]
    /\ call' = [call EXCEPT !.faults = Faults(ok)]
    /\ UNCHANGED <<work, net>>
Stop(quiesces, stops) ==
    /\ call.pc = "IDLE" /\ obj.state \in {"RUNNING", "BACKPRESSURED", "FAILED"}
    /\ MayFault(quiesces /\ stops)
    /\ LET running == obj.flow \in {"STARTED", "FAILED"}
       IN /\ ~running => stops
          /\ obj' = [Cancel(obj) EXCEPT !.state = "STOPPING",
                                        !.flow = IF running /\ stops THEN "STOPPED" ELSE @]
          /\ net' = IF running /\ stops
                    THEN [net EXCEPT !.links = [s \in Links |-> EndReply(@[s], FALSE)]]
                    ELSE net
    /\ work' = [work EXCEPT !.src = Shutdown(@), !.done = @ \o Canceled(obj)]
    /\ call' = [Retry("STOP") EXCEPT !.ok = quiesces /\ stops,
                                     !.faults = Faults(quiesces /\ stops)]
(* Stop has drained the terminals and, past the sink's own ECANCELED, sees *)
(* whether a reply is left; only then is the source drained.               *)
StopDrain(ok) ==
    /\ call.pc = "STOP"
    /\ LET settled == call.ok /\ obj.replies = <<>> /\ obj.inflight = {}
       IN /\ IF settled THEN MayFault(ok) ELSE ok
          /\ obj' = [obj EXCEPT !.state = IF settled /\ ok THEN "STOPPED" ELSE "FAILED"]
          /\ call' = [Idle EXCEPT !.faults = Faults(ok)]
    /\ UNCHANGED <<work, net>>

(* turbo_flow_protocol_network_intake_destroy: a source that will not shut *)
(* down, or a registry that is in use, leaves the rest for another call.   *)
Destroy(held) ==
    /\ call.pc = "IDLE" /\ obj.state = "STOPPED" /\ MayFault(held = {})
    /\ obj' = [obj EXCEPT !.flow = "DESTROYED", !.held = held,
                          !.state = IF held = {} THEN "GONE" ELSE @]
    /\ call' = [call EXCEPT !.faults = Faults(held = {})]
    /\ UNCHANGED <<work, net>>

Next ==
    \/ Create
    \/ \E ok \in BOOLEAN : \/ \E b \in BOOLEAN : Start(b, ok) \/ Stop(b, ok)
                           \/ ProcessFront(ok) \/ Admit(ok) \/ Settle(ok)
                           \/ PollEnd(ok) \/ StopCompiled(ok) \/ StopDrain(ok)
    \/ \E answer \in {"OK", "EBUSY", "ERROR"} : SendReply(answer)
    \/ \E held \in {{}, {"CATALOG", "REGISTRY"}, obj.held} : Destroy(held)
    \/ DrainEnd \/ SendEnd \/ FrontEnd \/ PumpBlocks \/ PumpFails \/ PumpEnd
    \/ Poll \/ PollSource \/ PollReturn
    \/ \E s \in Links : \/ DrainTerminal(s) \/ Accept(s) \/ Disconnect(s) \/ Sent(s)
                        \/ \E ends \in 0 .. 2, tail \in BOOLEAN : Deliver(s, ends, tail)

Spec == Init /\ [][Next]_vars

-----------------------------------------------------------------------------
(* Every message the source handed over is settled once, in the order of   *)
(* arrival, and none is refused for want of room: what preflight demands   *)
(* of the bounds covers a whole source poll.  An intake that stopped has   *)
(* no claim left.                                                          *)
ClaimsSettleInOrder ==
    /\ \A i \in DOMAIN work.done : work.done[i].id = i
    /\ \A i \in DOMAIN obj.pending : obj.pending[i].id = Len(work.done) + i
    /\ obj.bytes = Len(obj.pending) * obj.config.message
    /\ obj.state \in {"STOPPED", "GONE"} => obj.pending = <<>>

(* A frame is admitted at most once, in stream order, and is one that a    *)
(* connection sent: never the bytes of two generations of a slot, however  *)
(* admission was blocked and resumed.  A message settled with OK has had   *)
(* every frame it completes admitted.                                      *)
Before(f, g) == f.of[1] < g.of[1] \/ (f.of[1] = g.of[1] /\ f.of[2] < g.of[2])
FramesAdmittedOnce ==
    /\ \A i \in DOMAIN work.admitted :
          /\ work.admitted[i] \in net.cut
          /\ i > 1 => Before(work.admitted[i - 1], work.admitted[i])
    /\ \A i \in DOMAIN work.done : work.done[i].ok =>
          {f \in net.cut : f.of[1] = i} \subseteq {work.admitted[j] : j \in DOMAIN work.admitted}

(* The replies queued and in flight fit the table that holds them, no more *)
(* were made than frames admitted, and every reply in flight is one the    *)
(* transport is sending or has ended: no terminal arrives unmatched.       *)
RepliesAccounted ==
    /\ Len(obj.replies) + Cardinality(obj.inflight) <= obj.config.claims
    /\ obj.tag - 1 <= Len(work.admitted)
    /\ \A i \in DOMAIN obj.replies : \A r \in obj.inflight : obj.replies[i].tag # r.tag
    /\ {r.tag : r \in obj.inflight} =
          UNION {{net.links[s].reply, net.links[s].terminal} : s \in Links} \ {None}
    /\ obj.state \in {"STOPPED", "GONE"} => obj.inflight = {} /\ obj.replies = <<>>

(* The catalog is retained while an object made by one of its plugins is   *)
(* alive, also one that could not be destroyed.                            *)
CatalogOutlivesOwners == obj.held # {} => "CATALOG" \in obj.held

(* A reply that was queued is sent or dropped, if the intake is polled     *)
(* again and again.                                                        *)
RepliesLeave ==
    \A t \in 1 .. 2 : (\E i \in DOMAIN obj.replies : obj.replies[i].tag = t)
        ~> ~(\E i \in DOMAIN obj.replies : obj.replies[i].tag = t)
=================================================================================
