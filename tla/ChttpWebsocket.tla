--------------------------- MODULE ChttpWebsocket ---------------------------
(***************************************************************************)
(* The WebSocket server as a source and a terminal of one graph:           *)
(* io/chttp/src/turbo_flow_chttp_websocket_server.c.  Connections take     *)
(* session slots, their events take frame slots, and a session is closed   *)
(* by the peer, by a failed publication, by a command of the graph, or, on *)
(* quiesce, by whichever thread finds it drained.  Slots are reused: an    *)
(* index is only good together with the generation seen with it.           *)
(*                                                                         *)
(* The kind of an event is "DATA" or "CLOSE".  work.s holds the session    *)
(* slots, work.f the frame slots.  call[e] has the step of the native      *)
(* callback (h) and of the publication (p) of event e; call[q] is a thread *)
(* in quiesce.  net is the connections as chttp sees them.                 *)
(***************************************************************************)
EXTENDS Naturals, FiniteSets, FiniteSetsExt

CONSTANTS
    Connections, None,
    Events,                     \* the events of the connections, <<connection, kind>>
    Quiescers,                  \* threads that quiesce and resume, <<0, name>>
    SessionSlots, FrameSlots,   \* the two capacities
    MaxGeneration,              \* the largest managed generation, 2^64 - 1 in the code
    MaxFaults                   \* bound on failures of chttp and of memory

VARIABLES obj, work, call, net

vars == <<obj, work, call, net>>

Threads == Events \cup Quiescers
SIds == 1 .. SessionSlots
FIds == 1 .. FrameSlots
Conn(e) == e[1]

NoSession(gen) ==
    [active |-> FALSE, gen |-> gen, conn |-> None, frames |-> 0, peerClosed |-> FALSE,
     submitted |-> FALSE, onDrain |-> FALSE, retry |-> FALSE]
NoFrame == [occupied |-> FALSE, s |-> None, gen |-> 0]

Init ==
    /\ obj = [state |-> "REGISTERED", http |-> FALSE, open |-> FALSE, detached |-> FALSE,
              sessions |-> 0, frames |-> 0, pending |-> 0, accepted |-> 0, completed |-> 0,
              generation |-> 0, faults |-> 0]
    /\ work = [s |-> [s \in SIds |-> NoSession(0)], f |-> [f \in FIds |-> NoFrame]]
    /\ call = [t \in Threads |-> [h |-> "NEW", p |-> "NONE", f |-> None, s |-> None, gen |-> 0,
                                  failed |-> FALSE]]
    /\ net = [c \in Connections |-> [state |-> "NEW", asked |-> FALSE, lost |-> FALSE]]

Fault == obj.faults < MaxFaults
Faulted(o, yes) == IF yes THEN [o EXCEPT !.faults = @ + 1] ELSE o
SessionOf(c) == {s \in SIds : work.s[s].active /\ work.s[s].conn = c}
Same(s, gen) == work.s[s].active /\ work.s[s].gen = gen

(* websocket_retire_session_locked *)
Retire(slot) == IF slot.peerClosed /\ slot.frames = 0 THEN NoSession(slot.gen) ELSE slot
Retired(slot) == slot.active /\ ~Retire(slot).active

\* chttp calls back on one thread of its own
NoCallback == \A e \in Events : call[e].h \in {"NEW", "END"}

(* websocket_open: the first free slot of a running server, else a 503 *)
Open(c) ==
    /\ net[c].state = "NEW" /\ obj.http /\ NoCallback
    /\ LET free == {s \in SIds : ~work.s[s].active} IN
       IF obj.state = "RUNNING" /\ free # {}
       THEN LET s == Min(free) IN
            /\ work' = [work EXCEPT !.s[s] = [NoSession(@.gen + 1) EXCEPT !.active = TRUE,
                                                                          !.conn = c]]
            /\ obj' = [obj EXCEPT !.sessions = @ + 1]
            /\ net' = [net EXCEPT ![c].state = "OPEN"]
       ELSE net' = [net EXCEPT ![c].state = "REFUSED"] /\ UNCHANGED <<obj, work>>
    /\ UNCHANGED call

(***************************************************************************)
(* websocket_event, on the thread of the native server                     *)
(***************************************************************************)
(* an event of an unknown type or too large, or one whose session cannot be
   captured, reserves nothing and leaves its session alone *)
EventUnfit(e) ==
    /\ net[Conn(e)].state = "OPEN" /\ obj.http /\ call[e].h = "NEW"
    /\ NoCallback /\ Fault
    /\ net' = [net EXCEPT ![Conn(e)].state = IF e[2] = "CLOSE" THEN "CLOSED" ELSE @]
    /\ obj' = Faulted(obj, TRUE)
    /\ call' = [call EXCEPT ![e].h = "EPROTO"]
    /\ UNCHANGED work

(* websocket_reserve_frame; a CLOSE that gets no frame retires its session *)
Event(e) ==
    LET c == Conn(e)
        closing == e[2] = "CLOSE"
        free == {f \in FIds : ~work.f[f].occupied}
    IN  /\ net[c].state = "OPEN" /\ obj.http /\ call[e].h = "NEW"
        /\ NoCallback
        /\ net' = [net EXCEPT ![c].state = IF closing THEN "CLOSED" ELSE @]
        /\ \E s \in SessionOf(c) :
              LET slot == [work.s[s] EXCEPT !.peerClosed = @ \/ closing]
                  refusal == IF obj.state # "RUNNING" \/ slot.onDrain THEN "ESHUTDOWN"
                             ELSE IF free = {} THEN "ENOSPC" ELSE "OK"
              IN  IF refusal = "OK"
                  THEN LET f == Min(free) IN
                       /\ work' = [work EXCEPT !.s[s] = [slot EXCEPT !.frames = @ + 1],
                             !.f[f] = [occupied |-> TRUE, s |-> s, gen |-> slot.gen]]
                       /\ obj' = [obj EXCEPT !.frames = @ + 1, !.pending = @ + 1]
                       /\ call' = [call EXCEPT ![e] =
                             [@ EXCEPT !.h = "RESERVED", !.f = f, !.s = s, !.gen = slot.gen]]
                  ELSE /\ work' = [work EXCEPT !.s[s] = Retire(slot)]
                       /\ obj' = [obj EXCEPT !.sessions = IF Retired(slot) THEN @ - 1 ELSE @]
                       /\ call' = [call EXCEPT ![e].h = refusal]

(* websocket_release_frame: the frame is counted down in its own session *)
Release(e, o) ==
    LET f == call[e].f
        s == work.f[f].s
        mine == Same(s, work.f[f].gen)
        slot == [work.s[s] EXCEPT !.frames = IF @ = 0 THEN 0 ELSE @ - 1]
    IN  /\ work' = [work EXCEPT !.f[f].occupied = FALSE,
                                !.s[s] = IF mine THEN Retire(slot) ELSE @]
        /\ obj' = [o EXCEPT !.frames = @ - 1,
                            !.sessions = IF mine /\ Retired(slot) THEN @ - 1 ELSE @]

(* websocket_make_message and turbo_flow_publish_async, and the counts after *)
Publish(e) ==
    /\ call[e].h = "RESERVED" /\ obj.open
    /\ call' = [call EXCEPT ![e].h = "PUBLISHED", ![e].p = "RUNNING"]
    /\ UNCHANGED <<obj, work, net>>

PublishFails(e) ==
    /\ call[e].h = "RESERVED"
    /\ obj.open => Fault
    /\ Release(e, Faulted([obj EXCEPT !.pending = @ - 1], obj.open))
    /\ call' = [call EXCEPT ![e] = [@ EXCEPT !.h = IF obj.open THEN "ENOSPC" ELSE "ESHUTDOWN",
                                             !.f = None, !.s = None, !.gen = 0]]
    /\ UNCHANGED net

Accepted(e) ==
    /\ call[e].h = "PUBLISHED"
    /\ obj' = [obj EXCEPT !.accepted = @ + 1, !.pending = @ - 1]
    /\ call' = [call EXCEPT ![e].h = "END"]
    /\ UNCHANGED <<work, net>>

(* a rejected event closes its connection, unless the session is draining *)
Rejected(e) ==
    LET draining == \E s \in SessionOf(Conn(e)) : work.s[s].onDrain IN
    /\ call[e].h \in {"ESHUTDOWN", "ENOSPC", "EPROTO"}
    /\ call' = [call EXCEPT ![e].h = "END"]
    /\ net' = IF call[e].h = "ESHUTDOWN" /\ draining THEN net
              ELSE [net EXCEPT ![Conn(e)].asked = TRUE]
    /\ UNCHANGED <<obj, work>>

(***************************************************************************)
(* The publication: a CLOSE command of the graph, and the completion.      *)
(***************************************************************************)
(* chttp_server_websocket_close of a captured session, which may be gone *)
CloseFails(c, fails) == fails /\ (net[c].state = "OPEN" => Fault)
CloseSucceeds(c, fails) == ~fails /\ net[c].state = "OPEN"
Closed(c, fails) ==
    /\ CloseFails(c, fails) \/ CloseSucceeds(c, fails)
    /\ net' = IF fails THEN net ELSE [net EXCEPT ![c].asked = TRUE]

(* websocket_terminal_submit up to the unlock; other frames leave no trace *)
CommandClose(e) ==
    LET s == call[e].s IN
    /\ call[e].p = "RUNNING" /\ ~call[e].failed
    /\ IF Same(s, call[e].gen) /\ ~work.s[s].submitted
       THEN /\ work' = [work EXCEPT !.s[s].submitted = TRUE]
            /\ call' = [call EXCEPT ![e].p = "COMMAND"]
       ELSE call' = [call EXCEPT ![e].failed = TRUE] /\ UNCHANGED work
    /\ UNCHANGED <<obj, net>>

(* websocket_send_command and what follows it under the lock *)
CommandSent(e) ==
    /\ call[e].p = "COMMAND"
    /\ \E fails \in BOOLEAN :
          /\ Closed(Conn(e), fails)
          /\ obj' = Faulted(obj, fails /\ net[Conn(e)].state = "OPEN")
          /\ work' = IF fails /\ Same(call[e].s, call[e].gen)
                     THEN [work EXCEPT !.s[call[e].s].submitted = FALSE] ELSE work
          /\ call' = [call EXCEPT ![e].p = "RUNNING", ![e].failed = fails]

(* websocket_publication_complete up to the close that follows *)
PublicationComplete(e) ==
    /\ call[e].p = "RUNNING"
    /\ \E failed \in BOOLEAN :
          /\ call[e].failed => failed
          /\ call' = [call EXCEPT ![e].p =
                IF failed /\ Same(work.f[call[e].f].s, work.f[call[e].f].gen) THEN "ABORT"
                ELSE "DRAIN", ![e].f = None, ![e].gen = 0, ![e].failed = FALSE]
    /\ Release(e, [obj EXCEPT !.completed = @ + 1])
    /\ UNCHANGED net

\* the next step of a thread that is done with one slot
Left(t, failed) ==
    IF t \in Events THEN [call EXCEPT ![t] = [@ EXCEPT !.p = "END", !.f = None, !.s = None, !.gen = 0]]
    ELSE IF failed \/ call[t].s = SessionSlots
         THEN [call EXCEPT ![t] = [@ EXCEPT !.p = "NONE", !.s = None, !.f = None, !.gen = 0]]
         ELSE [call EXCEPT ![t] = [@ EXCEPT !.p = "DRAIN", !.s = @ + 1, !.f = None, !.gen = 0]]

(* the close with 1011, whose result is ignored *)
Abort(e) ==
    /\ call[e].p = "ABORT"
    /\ \E fails \in BOOLEAN :
          /\ CloseFails(Conn(e), fails) \/ CloseSucceeds(Conn(e), fails)
          /\ obj' = Faulted(obj, fails /\ net[Conn(e)].state = "OPEN")
          /\ net' = [net EXCEPT ![Conn(e)] = IF fails THEN [@ EXCEPT !.lost = TRUE]
                                             ELSE [@ EXCEPT !.asked = TRUE]]
    /\ call' = Left(e, FALSE)
    /\ UNCHANGED work

(***************************************************************************)
(* websocket_close_drained, by a completion, and by quiesce for each slot. *)
(***************************************************************************)
Claimable(slot, explicit) ==
    /\ slot.active /\ slot.onDrain /\ slot.frames = 0
    /\ ~slot.submitted /\ ~slot.peerClosed
    /\ slot.retry => explicit

CloseDrained(t) ==
    LET s == call[t].s IN
    /\ call[t].p = "DRAIN"
    /\ IF Claimable(work.s[s], t \in Quiescers)
       THEN /\ work' = [work EXCEPT !.s[s].submitted = TRUE]
            /\ call' = [call EXCEPT ![t].p = "CLOSING", ![t].gen = work.s[s].gen,
                                    ![t].f = work.s[s].conn]
       ELSE call' = Left(t, FALSE) /\ UNCHANGED work
    /\ UNCHANGED <<obj, net>>

CloseDrainedCall(t) ==
    LET c == call[t].f
        s == call[t].s
    IN  /\ call[t].p = "CLOSING"
        /\ \E fails \in BOOLEAN :
              /\ Closed(c, fails)
              /\ obj' = Faulted(obj, fails /\ net[c].state = "OPEN")
              /\ work' = IF fails /\ Same(s, call[t].gen)
                         THEN [work EXCEPT !.s[s].submitted = FALSE, !.s[s].retry = TRUE] ELSE work
              /\ call' = Left(t, fails)

(* websocket_set_admission and websocket_resource_command; the generation
   tells a command of a stale reader from a current one *)
SetAdmission(q, state, check, expected) ==
    /\ call[q].p = "NONE"
    /\ check => expected = obj.generation
    /\ obj.state \in {"RUNNING", "QUIESCED"}
    /\ obj.state # state => obj.generation < MaxGeneration
    /\ obj' = [obj EXCEPT !.state = state, !.generation = IF obj.state = state THEN @ ELSE @ + 1]
    /\ IF state = "QUIESCED"
       THEN /\ work' = [work EXCEPT !.s = [s \in SIds |-> [@[s] EXCEPT !.onDrain = @ \/ work.s[s].active]]]
            /\ call' = [call EXCEPT ![q].p = "DRAIN", ![q].s = 1]
       ELSE UNCHANGED <<work, call>>
    /\ UNCHANGED net

(***************************************************************************)
(* Start, stop, shutdown and destroy                                       *)
(***************************************************************************)
NoPublication == \A e \in Events : call[e].p \in {"NONE", "END"}

(* websocket_adapter_start; a failed start may keep the native server *)
Start ==
    /\ obj.state \in {"REGISTERED", "STOPPED"} /\ ~obj.detached
    /\ \/ obj' = [obj EXCEPT !.state = "RUNNING", !.http = TRUE, !.open = TRUE]
       \/ /\ Fault
          /\ \E kept \in BOOLEAN :
                obj' = [Faulted(obj, TRUE) EXCEPT !.state = IF kept THEN "FAILED" ELSE "STOPPED",
                                                  !.http = kept]
    /\ UNCHANGED <<work, call, net>>

(* turbo_flow_stop closes the Flow, waits for its publications, then stops
   the source: websocket_adapter_stop, or _shutdown when it is destroyed *)
CloseFlow ==
    /\ obj.open /\ obj' = [obj EXCEPT !.open = FALSE]
    /\ UNCHANGED <<work, call, net>>

StopBegin ==
    /\ ~obj.open /\ NoPublication /\ obj.http /\ obj.state # "STOPPING" /\ ~obj.detached
    /\ \E destroyed \in BOOLEAN :
          obj' = [obj EXCEPT !.state = "STOPPING", !.detached = destroyed]
    /\ UNCHANGED <<work, call, net>>

(* websocket_stop_native, and websocket_clear_sessions_locked after it *)
StopEnd ==
    /\ obj.state = "STOPPING"
    /\ \/ /\ NoCallback
          /\ obj' = [obj EXCEPT !.state = IF obj.detached THEN "DETACHED" ELSE "STOPPED",
                                !.http = FALSE, !.sessions = 0, !.frames = 0]
          /\ work' = [s |-> [s \in SIds |-> NoSession(work.s[s].gen)], f |-> [f \in FIds |-> NoFrame]]
          /\ net' = [c \in Connections |-> [net[c] EXCEPT !.state = IF @ = "OPEN" THEN "CLOSED" ELSE @]]
       \/ /\ Fault /\ obj' = [Faulted(obj, TRUE) EXCEPT !.state = "FAILED"]
          /\ UNCHANGED <<work, net>>
    /\ UNCHANGED call

Shutdown ==
    /\ ~obj.http /\ ~obj.detached
    /\ obj' = [obj EXCEPT !.state = "DETACHED", !.detached = TRUE]
    /\ UNCHANGED <<work, call, net>>

(* turbo_flow_chttp_websocket_server_destroy, with no other call on the server *)
Destroy ==
    /\ \A q \in Quiescers : call[q].p = "NONE"
    /\ obj.state = "DETACHED" /\ obj.sessions = 0 /\ obj.frames = 0 /\ ~obj.http
    /\ obj' = [obj EXCEPT !.state = "FREED"]
    /\ UNCHANGED <<work, call, net>>

Next ==
    \/ \E c \in Connections : Open(c)
    \/ \E e \in Events :
          \/ Event(e) \/ EventUnfit(e) \/ Publish(e) \/ PublishFails(e) \/ Accepted(e) \/ Rejected(e)
          \/ CommandClose(e) \/ CommandSent(e) \/ PublicationComplete(e) \/ Abort(e)
    \/ \E t \in Threads : CloseDrained(t) \/ CloseDrainedCall(t)
    \/ \E q \in Quiescers, state \in {"RUNNING", "QUIESCED"}, check \in BOOLEAN,
          expected \in 0 .. MaxGeneration : SetAdmission(q, state, check, expected)
    \/ Start \/ CloseFlow \/ StopBegin \/ StopEnd \/ Shutdown \/ Destroy

Spec == Init /\ [][Next]_vars

(* websocket_managed_snapshot: what it recounts under the lock *)
Occupied == {f \in FIds : work.f[f].occupied}
ActiveSessions == {s \in SIds : work.s[s].active}
ManagedSnapshot ==
    IF obj.pending # 0 THEN IF obj.pending > FrameSlots THEN "EPROTO" ELSE "EBUSY"
    ELSE IF \/ \E s \in SIds \ ActiveSessions : work.s[s].frames # 0
            \/ Cardinality(Occupied) # obj.frames
            \/ MapThenSumSet(LAMBDA s : work.s[s].frames, ActiveSessions) # Cardinality(Occupied)
            \/ Cardinality(ActiveSessions) # obj.sessions
            \/ obj.completed > obj.accepted
         THEN "EPROTO" ELSE "OK"

(* The snapshot never answers EPROTO, whatever event, command, completion and
   retirement of a session it comes between, and the count of frames of each
   session is that of the frames that name this use of its slot. *)
SnapshotConsistent ==
    /\ ManagedSnapshot # "EPROTO"
    /\ \A s \in SIds : work.s[s].frames =
          Cardinality({f \in Occupied : work.f[f].s = s /\ work.f[f].gen = work.s[s].gen
                                        /\ work.s[s].active})

\* no thread is between two steps that concern a session
Settled ==
    \A t \in Threads : call[t].p \in {"NONE", "END", "RUNNING"} /\ call[t].h \in {"NEW", "END"}

(* A session marked by quiesce is closed once its last frame completes: when
   no thread is left to do it, its close has been submitted, or one failed
   and waits for the next quiesce, or the peer was told with another code
   (a failed attempt of that one is not repeated).  A submitted close is
   never just a claim: chttp has accepted a close of that connection. *)
DrainedCloses ==
    \A s \in SIds :
       LET slot == work.s[s] IN
       /\ slot.active /\ slot.onDrain /\ slot.frames = 0 /\ ~slot.peerClosed /\ obj.open
          /\ Settled =>
             slot.submitted \/ slot.retry \/ net[slot.conn].asked \/ net[slot.conn].lost
       /\ slot.active /\ slot.submitted /\ ~slot.peerClosed =>
             \/ net[slot.conn].asked
             \/ \E t \in Threads : call[t].p \in {"COMMAND", "CLOSING"} /\ call[t].s = s
                                   /\ call[t].gen = slot.gen
===============================================================================
