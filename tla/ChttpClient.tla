----------------------------- MODULE ChttpClient -----------------------------
(***************************************************************************)
(* The HTTP client stage: io/chttp/src/turbo_flow_chttp.c.  Graph threads  *)
(* hand it claims, one per message; a thread that polls it owns the native *)
(* client and submits, retries, times out and completes them; any thread   *)
(* may cancel a request; and the Flow stops it.                            *)
(*                                                                         *)
(* "work" is the request slots, "call" the steps of the polling and of the *)
(* stopping thread, "net" the native requests and what became of each      *)
(* claim.  Time is a deadline that passes and a retry delay that ends.     *)
(***************************************************************************)
EXTENDS Naturals, Sequences

CONSTANTS
    Messages,       \* the messages of the graph
    None,
    RequestSlots,   \* the capacity of the client
    MaxAttempts,    \* attempts per request, the first one included
    MaxFaults       \* bound on failures of the native client

VARIABLES obj, work, call, net

vars == <<obj, work, call, net>>

SlotIds == 1 .. RequestSlots
Id(m) == IF obj.sameId THEN 1 ELSE m   \* an id is what the graph gives a message

FreeSlot == [st |-> "FREE", msg |-> None, attempts |-> 0, cancel |-> None, late |-> FALSE]

Init ==
    /\ \E idempotent, same \in BOOLEAN :
          obj = [state |-> "REGISTERED", impl |-> FALSE, owner |-> FALSE, retries |-> idempotent,
                 sameId |-> same]
    /\ work = [s \in SlotIds |-> FreeSlot]
    /\ call = [poll |-> "IDLE", stop |-> "IDLE", slot |-> 1, pass |-> 1, finish |-> None,
               refused |-> FALSE]
    /\ net = [native |-> {}, done |-> [m \in Messages |-> <<>>], given |-> {}, canceled |-> {},
              sent |-> [m \in Messages |-> 0], faults |-> 0]

Live == obj.state \in {"RUNNING", "QUIESCED"}
Fault == net.faults < MaxFaults

(* chttp_adapter_start *)
Start ==
    /\ obj.state = "REGISTERED"
    /\ \/ obj' = [obj EXCEPT !.state = "RUNNING", !.impl = TRUE] /\ UNCHANGED net
       \/ /\ Fault
          /\ \E kept \in BOOLEAN :
                obj' = [obj EXCEPT !.state = IF kept THEN "FAILED" ELSE "STOPPED", !.impl = kept]
          /\ net' = [net EXCEPT !.faults = @ + 1]
    /\ UNCHANGED <<work, call>>

(* chttp_adapter_submit_claim: the claim moves into the first free slot unless
   a request with the same message id is still held. *)
SubmitClaim(m) ==
    /\ obj.state = "RUNNING" /\ m \notin net.given
    /\ \A s \in SlotIds : work[s].msg # None => Id(work[s].msg) # Id(m)
    /\ \E s \in SlotIds :
          /\ work[s].st = "FREE" /\ \A t \in 1 .. s - 1 : work[t].st # "FREE"
          /\ work' = [work EXCEPT ![s] = [FreeSlot EXCEPT !.st = "QUEUED", !.msg = m]]
    /\ net' = [net EXCEPT !.given = @ \cup {m}]
    /\ UNCHANGED <<obj, call>>

(* The overall deadline of a request passes. *)
Deadline(s) ==
    /\ work[s].msg # None /\ ~work[s].late
    /\ work' = [work EXCEPT ![s].late = TRUE]
    /\ UNCHANGED <<obj, call, net>>

(* turbo_flow_chttp_client_cancel *)
CancelRequest(s) ==
    /\ Live /\ work[s].msg # None /\ work[s].st # "COMPLETING" /\ work[s].cancel = None
    /\ work' = [work EXCEPT ![s].cancel = "ECANCELED"]
    /\ net' = [net EXCEPT !.canceled = @ \cup {work[s].msg}]
    /\ UNCHANGED <<obj, call>>

(* turbo_flow_chttp_client_quiesce and _resume *)
Admission ==
    /\ Live
    /\ obj' = [obj EXCEPT !.state = IF @ = "RUNNING" THEN "QUIESCED" ELSE "RUNNING"]
    /\ UNCHANGED <<work, call, net>>

(***************************************************************************)
(* The owner, polling or stopping, completes a claim in two steps: it marks*)
(* the slot, lets go of the lock to copy the response, and then frees the  *)
(* slot and settles the claim.                                             *)
(***************************************************************************)
Completing(s, status) ==
    /\ work' = [work EXCEPT ![s].st = "COMPLETING"]
    /\ call' = [call EXCEPT !.finish = [slot |-> s, status |-> status]]

Settled(done, s, status) == [done EXCEPT ![work[s].msg] = Append(@, status)]

(* chttp_adapter_finish; the copy of a response may fail for lack of memory *)
Finish ==
    /\ call.finish # None
    /\ LET s == call.finish.slot IN
       \E status \in {call.finish.status} \cup (IF call.finish.status = "OK" /\ Fault
                                                THEN {"ENOMEM"} ELSE {}) :
          /\ net' = [net EXCEPT !.done = Settled(@, s, status),
                                !.faults = IF status = "ENOMEM" THEN @ + 1 ELSE @]
          /\ work' = [work EXCEPT ![s] = FreeSlot]
    /\ call' = [call EXCEPT !.finish = None]
    /\ UNCHANGED obj

(* chttp_adapter_retryable and the other conditions of a further attempt *)
MayRetry(s, status) == obj.retries /\ status = "EIO" /\ work[s].attempts < MaxAttempts

(* chttp_adapter_complete, called by the native client inside its poll or its
   stop: a slot without a claim was settled by a failed stop. *)
NativeComplete(s, status) ==
    /\ call.finish = None /\ s \in net.native
    /\ \/ call.poll = "NATIVE"
       \/ call.stop = "NATIVE"
    /\ net' = [net EXCEPT !.native = @ \ {s}]
    /\ IF work[s].msg = None THEN UNCHANGED <<work, call>>
       ELSE IF work[s].cancel # None THEN Completing(s, work[s].cancel)
       ELSE IF work[s].late THEN Completing(s, "ETIMEDOUT")
       ELSE IF Live /\ MayRetry(s, status)
            THEN work' = [work EXCEPT ![s].st = "RETRY_WAIT"] /\ UNCHANGED call
       ELSE Completing(s, status)
    /\ UNCHANGED obj

(***************************************************************************)
(* turbo_flow_chttp_client_poll: cancellations, slots, the native poll, and*)
(* cancellations and slots again.                                          *)
(***************************************************************************)
PollBegin ==
    /\ Live /\ ~obj.owner /\ call.poll = "IDLE"
    /\ obj' = [obj EXCEPT !.owner = TRUE]
    /\ call' = [call EXCEPT !.poll = "CANCEL", !.slot = 1, !.pass = 1]
    /\ UNCHANGED <<work, net>>

NextPhase(c) ==
    CASE c.poll = "CANCEL" /\ ~c.refused -> [c EXCEPT !.poll = "SLOTS", !.slot = 1]
      [] c.poll = "SLOTS" /\ c.pass = 1 -> [c EXCEPT !.poll = "NATIVE"]
      [] OTHER -> [c EXCEPT !.poll = "DONE"]

Advance(c) == IF c.slot = RequestSlots THEN NextPhase(c) ELSE [c EXCEPT !.slot = @ + 1]

(* chttp_adapter_poll_cancellations; a refusal ends the poll, after the last slot *)
PollCancellations ==
    /\ call.poll = "CANCEL"
    /\ LET s == call.slot
           expire == work[s].st = "ACTIVE" /\ work[s].cancel = None /\ work[s].late
       IN  work' = IF expire THEN [work EXCEPT ![s].cancel = "ETIMEDOUT"] ELSE work
    /\ \/ call' = Advance(call) /\ UNCHANGED net
       \/ /\ Fault /\ work'[call.slot].st = "ACTIVE" /\ work'[call.slot].cancel # None
          /\ call' = Advance([call EXCEPT !.refused = TRUE])
          /\ net' = [net EXCEPT !.faults = @ + 1]
    /\ UNCHANGED obj

(* chttp_adapter_poll_slot up to the native submission *)
PollSlot ==
    /\ call.poll = "SLOTS" /\ call.finish = None
    /\ LET s == call.slot
           slot == work[s]
           next == Advance(call)
           complete(status) ==
               /\ work' = [work EXCEPT ![s].st = "COMPLETING"]
               /\ call' = [next EXCEPT !.finish = [slot |-> s, status |-> status]]
       IN  IF slot.st \in {"FREE", "ACTIVE"} THEN call' = next /\ UNCHANGED work
           ELSE IF ~Live THEN complete("ESHUTDOWN")
           ELSE IF slot.cancel # None THEN complete(slot.cancel)
           ELSE IF slot.late THEN complete("ETIMEDOUT")
           ELSE \/ slot.st = "RETRY_WAIT" /\ call' = next /\ UNCHANGED work
                \/ /\ work' = [work EXCEPT ![s].attempts = @ + 1]
                   /\ call' = [call EXCEPT !.poll = "SUBMIT"]
    /\ UNCHANGED <<obj, net>>

(* chttp_async_client_submit outside the lock, and what the slot becomes *)
PollSubmitted ==
    /\ call.poll = "SUBMIT"
    /\ LET s == call.slot
           next == Advance([call EXCEPT !.poll = "SLOTS"])
       IN  \/ /\ work' = [work EXCEPT ![s].st = "ACTIVE"]
              /\ net' = [net EXCEPT !.native = @ \cup {s}, !.sent[work[s].msg] = @ + 1]
              /\ call' = next
           \/ /\ Fault /\ net' = [net EXCEPT !.faults = @ + 1]
              /\ \/ /\ work' = [work EXCEPT ![s].attempts = @ - 1, ![s].st = "QUEUED"]
                    /\ call' = next
                 \/ \E status \in {"EIO", "EPROTO"} :
                       IF MayRetry(s, status)
                       THEN work' = [work EXCEPT ![s].st = "RETRY_WAIT"] /\ call' = next
                       ELSE /\ work' = [work EXCEPT ![s].st = "COMPLETING"]
                            /\ call' = [next EXCEPT !.finish = [slot |-> s, status |-> status]]
    /\ UNCHANGED obj

(* The native poll returns; an error of its own ends the poll. *)
PollNative ==
    /\ call.poll = "NATIVE" /\ call.finish = None
    /\ \/ call' = [call EXCEPT !.poll = "CANCEL", !.slot = 1, !.pass = 2] /\ UNCHANGED net
       \/ /\ Fault /\ call' = [call EXCEPT !.poll = "DONE"]
          /\ net' = [net EXCEPT !.faults = @ + 1]
    /\ UNCHANGED <<obj, work>>

PollEnd ==
    /\ call.poll = "DONE" /\ call.finish = None
    /\ obj' = [obj EXCEPT !.owner = FALSE]
    /\ call' = [call EXCEPT !.poll = "IDLE", !.slot = 1, !.pass = 1, !.refused = FALSE]
    /\ UNCHANGED <<work, net>>

(***************************************************************************)
(* chttp_adapter_stop: one bounded native stop; the Flow may call it again *)
(* after a failure.                                                        *)
(***************************************************************************)
StopBegin ==
    /\ call.stop = "IDLE" /\ obj.state \in {"RUNNING", "QUIESCED", "FAILED"}
    /\ obj' = [obj EXCEPT !.state = "STOPPING"]
    /\ call' = [call EXCEPT !.stop = "WAIT"]
    /\ UNCHANGED <<work, net>>

StopOwns ==
    /\ call.stop = "WAIT" /\ ~obj.owner
    /\ obj' = [obj EXCEPT !.owner = TRUE]
    /\ call' = [call EXCEPT !.stop = "SLOTS", !.slot = 1]
    /\ UNCHANGED <<work, net>>

StopSlot ==
    /\ call.stop = "SLOTS"
    /\ LET s == call.slot IN
       IF work[s].st \in {"QUEUED", "RETRY_WAIT"}
       THEN /\ work' = [work EXCEPT ![s] = FreeSlot]
            /\ net' = [net EXCEPT !.done = Settled(@, s, "ESHUTDOWN")]
       ELSE UNCHANGED <<work, net>>
    /\ call' = IF call.slot = RequestSlots THEN [call EXCEPT !.stop = "NATIVE"]
               ELSE [call EXCEPT !.slot = @ + 1]
    /\ UNCHANGED obj

(* chttp_async_client_stop completes every request before it succeeds *)
StopNative ==
    /\ call.stop = "NATIVE" /\ call.finish = None
    /\ \/ /\ net.native = {}
          /\ obj' = [obj EXCEPT !.state = "STOPPED", !.impl = FALSE, !.owner = FALSE]
          /\ call' = [call EXCEPT !.stop = "IDLE", !.slot = 1] /\ UNCHANGED net
       \/ /\ Fault /\ net' = [net EXCEPT !.faults = @ + 1]
          /\ call' = [call EXCEPT !.stop = "SETTLE", !.slot = 1] /\ UNCHANGED obj
    /\ UNCHANGED work

(* A failed native stop keeps the native requests; their claims are settled. *)
StopSettle ==
    /\ call.stop = "SETTLE" /\ call.finish = None
    /\ LET s == call.slot
           next == IF s = RequestSlots THEN [call EXCEPT !.stop = "FAILED"]
                   ELSE [call EXCEPT !.slot = @ + 1]
       IN  IF work[s].msg = None THEN call' = next /\ UNCHANGED work
           ELSE /\ work' = [work EXCEPT ![s].st = "COMPLETING"]
                /\ call' = [next EXCEPT !.finish = [slot |-> s, status |-> "ETIMEDOUT"]]
    /\ UNCHANGED <<obj, net>>

StopFailed ==
    /\ call.stop = "FAILED" /\ call.finish = None
    /\ obj' = [obj EXCEPT !.state = "FAILED", !.owner = FALSE]
    /\ call' = [call EXCEPT !.stop = "IDLE", !.slot = 1]
    /\ UNCHANGED <<work, net>>

(* chttp_adapter_shutdown, when the Flow is destroyed *)
Shutdown ==
    /\ call.stop = "IDLE"
    /\ \/ obj.state \in {"REGISTERED", "STOPPED"}
       \/ obj.state = "FAILED" /\ ~obj.impl
    /\ obj' = [obj EXCEPT !.state = "DETACHED"]
    /\ UNCHANGED <<work, call, net>>

(* turbo_flow_chttp_client_destroy *)
Destroy ==
    /\ obj.state = "DETACHED" /\ obj' = [obj EXCEPT !.state = "FREED"]
    /\ UNCHANGED <<work, call, net>>

Next ==
    \/ Start \/ Admission \/ Finish \/ Shutdown \/ Destroy
    \/ \E m \in Messages : SubmitClaim(m)
    \/ \E s \in SlotIds : Deadline(s) \/ CancelRequest(s)
    \/ \E s \in SlotIds, status \in {"OK", "EIO", "EPROTO"} : NativeComplete(s, status)
    \/ PollBegin \/ PollCancellations \/ PollSlot \/ PollSubmitted \/ PollNative \/ PollEnd
    \/ StopBegin \/ StopOwns \/ StopSlot \/ StopNative \/ StopSettle \/ StopFailed

Spec == Init /\ [][Next]_vars

(* Every claim the client took is settled exactly once: it is in one slot
   until then, whatever timeouts, cancellations, retries, a stop and the late
   callbacks of a failed stop do to it. *)
ClaimsSettleOnce ==
    \A m \in Messages :
       LET held == {s \in SlotIds : work[s].msg = m}
       IN  IF m \in net.given
           THEN IF net.done[m] = <<>> THEN \E s \in SlotIds : held = {s}
                ELSE Len(net.done[m]) = 1 /\ held = {}
           ELSE held = {} /\ net.done[m] = <<>>

(* A cancelled request never succeeds, a request is sent at most as often as
   its policy allows - once when it may not be repeated - and a client that
   can be freed has no request left, native or claimed. *)
RequestsBounded ==
    /\ \A m \in net.canceled : net.done[m] # <<"OK">>
    /\ \A m \in Messages : net.sent[m] <= IF obj.retries THEN MaxAttempts ELSE 1
    /\ obj.state \in {"STOPPED", "DETACHED", "FREED"} =>
          net.native = {} /\ \A s \in SlotIds : work[s] = FreeSlot
===============================================================================
