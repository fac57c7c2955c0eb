----------------------------- MODULE ChttpServer -----------------------------
(***************************************************************************)
(* The HTTP server as a source and a terminal of one graph:                *)
(* io/chttp/src/turbo_flow_chttp_server.c.  A handler thread reserves a    *)
(* slot, publishes the request and defers its response; the publication    *)
(* runs on Flow threads, leaves a response in the slot and completes; the  *)
(* handler and the completion both try to send the reply, since either may *)
(* come last.  Slots are reused, and both threads know theirs by address.  *)
(*                                                                         *)
(* call[r] has the step of the handler (h) and of the publication (p) of   *)
(* request r, its slot, and the reply each of the two threads is sending.  *)
(* net[r] is the exchange as the native server sees it.                    *)
(***************************************************************************)
EXTENDS Naturals, FiniteSets

CONSTANTS
    Requests,       \* the HTTP requests of the instance
    None,
    ItemSlots,      \* the capacity of the server
    MaxStarts,      \* bound on starts
    MaxGeneration,  \* the largest managed generation, 2^64 - 1 in the code
    MaxFaults       \* bound on failures of the native server and of memory

VARIABLES obj, work, call, net

vars == <<obj, work, call, net>>

SlotIds == 1 .. ItemSlots

FreeSlot(gen) ==
    [gen |-> gen, occupied |-> FALSE, managed |-> FALSE, deferred |-> None, deferFailed |-> FALSE,
     done |-> FALSE, ok |-> FALSE, response |-> None, replying |-> FALSE]

Init ==
    /\ obj = [state |-> "REGISTERED", http |-> FALSE, active |-> 0, accepted |-> 0,
              completed |-> 0, open |-> FALSE, detached |-> FALSE, generation |-> 0, starts |-> 0, faults |-> 0]
    /\ work = [s \in SlotIds |-> FreeSlot(0)]
    /\ call = [r \in Requests |-> [h |-> "NEW", p |-> "NONE", slot |-> None, gen |-> 0,
                                   hReply |-> None, pReply |-> None]]
    /\ net = [r \in Requests |-> [state |-> "OPEN", body |-> None]]

Fault == obj.faults < MaxFaults
Faulted(o) == [o EXCEPT !.faults = @ + 1]

\* chttp runs the handlers on one thread of its own
NoHandler == \A r \in Requests : call[r].h \in {"NEW", "END"}

(* chttp_server_adapter_slot_reset, and the count of active requests *)
ResetSlot(o, s) ==
    /\ work' = [work EXCEPT ![s] = FreeSlot(@.gen)]
    /\ obj' = [o EXCEPT !.active = IF @ = 0 THEN 0 ELSE @ - 1,
                        !.completed = IF work[s].managed THEN @ + 1 ELSE @]

(***************************************************************************)
(* chttp_server_adapter_handler                                            *)
(***************************************************************************)
(* chttp_server_adapter_reserve_slot: the first free slot, or a 4xx/5xx *)
Reserve(r) ==
    /\ call[r].h = "NEW" /\ obj.http /\ NoHandler
    /\ \E s \in SlotIds :
          /\ obj.state = "RUNNING" /\ ~work[s].occupied
          /\ \A t \in 1 .. s - 1 : work[t].occupied
          /\ work' = [work EXCEPT ![s] = [FreeSlot(@.gen + 1) EXCEPT !.occupied = TRUE]]
          /\ call' = [call EXCEPT ![r].h = "RESERVED", ![r].slot = s, ![r].gen = work[s].gen + 1]
    /\ obj' = [obj EXCEPT !.active = @ + 1]
    /\ UNCHANGED net

Refuse(r) ==
    /\ call[r].h = "NEW" /\ obj.http /\ NoHandler
    /\ obj.state # "RUNNING" \/ \A s \in SlotIds : work[s].occupied
    /\ call' = [call EXCEPT ![r].h = "END"]
    /\ net' = [net EXCEPT ![r].state = "REFUSED"]
    /\ UNCHANGED <<obj, work>>

(* chttp_server_adapter_make_message and turbo_flow_publish_async; when one
   fails, chttp_server_adapter_release_unadmitted and an immediate answer *)
Publish(r) ==
    /\ call[r].h = "RESERVED" /\ obj.open
    /\ call' = [call EXCEPT ![r].h = "PUBLISHED", ![r].p = "RUNNING"]
    /\ UNCHANGED <<obj, work, net>>

PublishFails(r) ==
    /\ call[r].h = "RESERVED"
    /\ obj.open => Fault
    /\ ResetSlot(IF obj.open THEN Faulted(obj) ELSE obj, call[r].slot)
    /\ call' = [call EXCEPT ![r].h = "END"]
    /\ net' = [net EXCEPT ![r].state = "REFUSED"]

Managed(r) ==
    /\ call[r].h = "PUBLISHED"
    /\ IF work[call[r].slot].occupied
       THEN /\ work' = [work EXCEPT ![call[r].slot].managed = TRUE]
            /\ obj' = [obj EXCEPT !.accepted = @ + 1]
       ELSE UNCHANGED <<obj, work>>
    /\ call' = [call EXCEPT ![r].h = "MANAGED"]
    /\ UNCHANGED net

(* chttp_server_response_defer, outside the lock *)
Defer(r) ==
    /\ call[r].h = "MANAGED"
    /\ \/ /\ call' = [call EXCEPT ![r].h = "DEFERRED"]
          /\ net' = [net EXCEPT ![r].state = "DEFERRED"] /\ UNCHANGED obj
       \/ /\ Fault /\ obj' = Faulted(obj)
          /\ call' = [call EXCEPT ![r].h = "UNDEFERRED"]
          /\ net' = [net EXCEPT ![r].state = "REFUSED"]
    /\ UNCHANGED work

AttachDeferred(r) ==
    /\ call[r].h = "DEFERRED"
    /\ IF work[call[r].slot].occupied
       THEN work' = [work EXCEPT ![call[r].slot].deferred = r] ELSE UNCHANGED work
    /\ call' = [call EXCEPT ![r].h = "ATTACHED"]
    /\ UNCHANGED <<obj, net>>

DeferFailed(r) ==
    /\ call[r].h = "UNDEFERRED"
    /\ LET s == call[r].slot IN
       /\ work' = [work EXCEPT ![s].deferFailed = work[s].occupied]
       /\ call' = [call EXCEPT ![r].h = IF work[s].occupied /\ work[s].done THEN "RELEASE"
                                        ELSE "END"]
    /\ UNCHANGED <<obj, net>>

(* chttp_server_adapter_release_unadmitted after the publication completed *)
ReleaseCompleted(r) ==
    /\ call[r].h = "RELEASE"
    /\ IF work[call[r].slot].occupied THEN ResetSlot(obj, call[r].slot) ELSE UNCHANGED <<obj, work>>
    /\ call' = [call EXCEPT ![r].h = "END"]
    /\ UNCHANGED net

(***************************************************************************)
(* The publication.                                                        *)
(***************************************************************************)
(* chttp_server_adapter_terminal_submit, at most once with effect *)
TerminalSubmit(r) ==
    /\ call[r].p = "RUNNING"
    /\ LET s == call[r].slot IN
       /\ work[s].occupied /\ work[s].gen = call[r].gen /\ work[s].response = None
       /\ work' = [work EXCEPT ![s].response = r]
    /\ UNCHANGED <<obj, call, net>>

(* chttp_server_adapter_publication_complete up to the unlock *)
PublicationComplete(r) ==
    /\ call[r].p = "RUNNING"
    /\ LET s == call[r].slot IN
       IF work[s].occupied /\ work[s].deferFailed
       THEN ResetSlot(obj, s) /\ call' = [call EXCEPT ![r].p = "END"]
       ELSE /\ \E ok \in BOOLEAN :
                  work' = IF work[s].occupied
                          THEN [work EXCEPT ![s].done = TRUE, ![s].ok = ok] ELSE work
            /\ call' = [call EXCEPT ![r].p = "COMPLETED"]
            /\ UNCHANGED obj
    /\ UNCHANGED net

(***************************************************************************)
(* chttp_server_adapter_execute_reply, by the handler ("h", in step        *)
(* ATTACHED) and by the completion ("p", in step COMPLETED).               *)
(***************************************************************************)
Replier(r, t) == IF t = "h" THEN call[r].h = "ATTACHED" ELSE call[r].p = "COMPLETED"
ReplyOf(r, t) == IF t = "h" THEN call[r].hReply ELSE call[r].pReply
SetReply(c, t, reply) ==
    IF t = "h" THEN [c EXCEPT !.hReply = reply] ELSE [c EXCEPT !.pReply = reply]
EndReply(c, t) == IF t = "h" THEN [c EXCEPT !.h = "END"] ELSE [c EXCEPT !.p = "END"]

(* chttp_server_adapter_prepare_reply *)
PrepareReply(r, t) ==
    /\ Replier(r, t) /\ ReplyOf(r, t) = None
    /\ LET s == call[r].slot
           slot == work[s]
       IN  IF slot.occupied /\ slot.done /\ slot.deferred # None /\ ~slot.replying
           THEN /\ work' = [work EXCEPT ![s].replying = TRUE, ![s].response = IF slot.ok THEN None
                                                                              ELSE @]
                /\ call' = [call EXCEPT ![r] =
                      SetReply(@, t, [gen |-> slot.gen, to |-> slot.deferred, status |-> "NEW",
                                      body |-> IF slot.ok THEN slot.response ELSE None])]
           ELSE /\ call' = [call EXCEPT ![r] = EndReply(@, t)]
                /\ UNCHANGED work
    /\ UNCHANGED <<obj, net>>

(* chttp_server_deferred_reply, and _cancel when the reply is refused for a
   reason that leaves the exchange open; an exchange whose peer has gone
   settles.  A missing response and a failed publication are answered with
   the graph error. *)
SendReply(r, t) ==
    LET reply == ReplyOf(r, t) IN
    /\ Replier(r, t) /\ reply # None /\ reply.status = "NEW"
    /\ \E status \in {"SETTLED", "CANCELED", "FAILED"} :
          /\ status # "SETTLED" => Fault
          /\ obj' = IF status = "SETTLED" THEN obj ELSE Faulted(obj)
          /\ call' = [call EXCEPT ![r] = SetReply(@, t, [reply EXCEPT !.status = status])]
          /\ net' = [net EXCEPT ![reply.to] =
                IF status = "FAILED" \/ @.state = "GONE" THEN @
                ELSE IF @.state # "DEFERRED" THEN [@ EXCEPT !.state = "TWICE"]
                ELSE IF status = "SETTLED" THEN [state |-> "REPLIED", body |-> reply.body]
                ELSE [@ EXCEPT !.state = "CANCELED"]]
    /\ UNCHANGED work

PeerLeaves(r) ==
    /\ net[r].state = "DEFERRED"
    /\ net' = [net EXCEPT ![r].state = "GONE"]
    /\ UNCHANGED <<obj, work, call>>

(* chttp_server_adapter_finish_reply: nobody sends a reply that could neither
   be sent nor cancelled again, and its slot stays taken. *)
FinishReply(r, t) ==
    LET reply == ReplyOf(r, t)
        s == call[r].slot
        failed == IF reply.status = "SETTLED" THEN obj ELSE [obj EXCEPT !.state = "FAILED"]
    IN  /\ Replier(r, t) /\ reply # None /\ reply.status # "NEW"
        /\ IF ~work[s].occupied \/ work[s].gen # reply.gen THEN UNCHANGED <<obj, work>>
           ELSE IF reply.status = "FAILED"
                THEN work' = [work EXCEPT ![s].replying = FALSE] /\ obj' = failed
           ELSE ResetSlot(failed, s)
        /\ call' = [call EXCEPT ![r] = SetReply(EndReply(@, t), t, None)]
        /\ UNCHANGED net

(***************************************************************************)
(* Control: start, quiesce and resume, stop, shutdown and destroy.  The    *)
(* Flow opens and closes the admission of publications around them.        *)
(***************************************************************************)
NoPublication == \A r \in Requests : call[r].p \in {"NONE", "END"}

(* chttp_server_adapter_start; a failed start may keep the native server *)
Start ==
    /\ obj.state \in {"REGISTERED", "STOPPED"} /\ obj.starts < MaxStarts
    /\ \/ obj' = [obj EXCEPT !.state = "RUNNING", !.http = TRUE, !.open = TRUE, !.starts = @ + 1]
       \/ /\ Fault
          /\ \E kept \in BOOLEAN :
                obj' = [Faulted(obj) EXCEPT !.state = IF kept THEN "FAILED" ELSE "STOPPED",
                                            !.http = kept, !.starts = @ + 1]
    /\ UNCHANGED <<work, call, net>>

(* chttp_server_adapter_set_admission *)
SetAdmission(state) ==
    /\ obj.state \in {"RUNNING", "QUIESCED"} \ {state} /\ obj.generation < MaxGeneration
    /\ obj' = [obj EXCEPT !.state = state, !.generation = @ + 1]
    /\ UNCHANGED <<work, call, net>>

(* chttp_server_adapter_resource_command: only on the generation it expects *)
ResourceCommand(state, expected) == expected = obj.generation /\ SetAdmission(state)

(* turbo_flow_stop closes the Flow's admission first ... *)
CloseAdmission ==
    /\ obj.open /\ obj' = [obj EXCEPT !.open = FALSE]
    /\ UNCHANGED <<work, call, net>>

(* ... and stops the source once no publication is left: chttp_server_adapter_stop,
   or chttp_server_adapter_shutdown when the Flow is destroyed *)
StopBegin ==
    /\ ~obj.open /\ NoPublication /\ obj.http /\ obj.state # "STOPPING" /\ ~obj.detached
    /\ \E destroyed \in BOOLEAN :
          obj' = [obj EXCEPT !.state = "STOPPING", !.detached = destroyed]
    /\ UNCHANGED <<work, call, net>>

(* chttp_server_adapter_stop_native waits for the handlers, or times out *)
StopEnd ==
    /\ obj.state = "STOPPING"
    /\ \/ /\ NoHandler
          /\ obj' = [obj EXCEPT !.state = IF obj.detached THEN "DETACHED" ELSE "STOPPED",
                                !.http = FALSE]
       \/ Fault /\ obj' = [Faulted(obj) EXCEPT !.state = "FAILED"]
    /\ UNCHANGED <<work, call, net>>

(* chttp_server_adapter_shutdown of a server that was stopped or never ran *)
Shutdown ==
    /\ ~obj.http /\ ~obj.detached
    /\ obj' = [obj EXCEPT !.state = "DETACHED", !.detached = TRUE]
    /\ UNCHANGED <<work, call, net>>

(* turbo_flow_chttp_server_destroy *)
Destroy ==
    /\ obj.state = "DETACHED" /\ obj.active = 0 /\ ~obj.http
    /\ obj' = [obj EXCEPT !.state = "FREED"]
    /\ UNCHANGED <<work, call, net>>

Next ==
    \/ \E r \in Requests :
          \/ Reserve(r) \/ Refuse(r) \/ Publish(r) \/ PublishFails(r) \/ Managed(r) \/ Defer(r)
          \/ AttachDeferred(r) \/ DeferFailed(r) \/ ReleaseCompleted(r)
          \/ TerminalSubmit(r) \/ PublicationComplete(r) \/ PeerLeaves(r)
    \/ \E r \in Requests, t \in {"h", "p"} : PrepareReply(r, t) \/ SendReply(r, t) \/ FinishReply(r, t)
    \/ \E state \in {"RUNNING", "QUIESCED"} :
          \/ SetAdmission(state)
          \/ \E expected \in 0 .. MaxGeneration : ResourceCommand(state, expected)
    \/ Start \/ CloseAdmission \/ StopBegin \/ StopEnd \/ Shutdown \/ Destroy

Spec == Init /\ [][Next]_vars

(* However a slot is reused under the two threads that know its address, an
   exchange is answered at most once, with the response of its own
   publication; and once both threads are done, a deferred exchange has been
   answered or its reply failed. *)
RepliesMatch ==
    \A r \in Requests :
       /\ net[r].state # "TWICE"
       /\ net[r].body \in {None, r}
       /\ call[r].h = "END" /\ call[r].p = "END" /\ obj.faults = 0 =>
             \/ net[r].state \in {"REFUSED", "REPLIED", "GONE"}
             \/ \E s \in SlotIds : work[s].deferred = r /\ work[s].replying

(* chttp_server_adapter_managed_snapshot *)
ManagedSnapshot ==
    LET occupied == {s \in SlotIds : work[s].occupied}
        managed == {s \in SlotIds : work[s].managed}
    IN  IF ~(managed \subseteq occupied) THEN "EPROTO"
        ELSE IF managed # occupied THEN "EBUSY"
        ELSE IF Cardinality(occupied) # obj.active \/ obj.completed > obj.accepted THEN "EPROTO"
        ELSE "OK"

(* The snapshot never answers EPROTO; the admissions are the completions and
   the requests in flight; a slot that nobody works on is free, unless its
   reply failed. *)
SlotsAccounted ==
    LET occupied == {s \in SlotIds : work[s].occupied}
        managed == {s \in SlotIds : work[s].managed}
    IN  /\ ManagedSnapshot # "EPROTO"
        /\ obj.active = Cardinality(occupied)
        /\ obj.accepted = obj.completed + Cardinality(managed)
        /\ NoHandler /\ NoPublication =>
              \A s \in occupied : work[s].deferred # None /\ obj.faults # 0
        /\ obj.state = "FREED" => occupied = {} /\ NoPublication /\ NoHandler
===============================================================================
