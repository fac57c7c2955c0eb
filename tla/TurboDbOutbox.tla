------------------------------ MODULE TurboDbOutbox ------------------------------
(***************************************************************************)
(* The outbox source, io/turbodb/src/turbo_flow_turbodb_outbox.c: it       *)
(* fetches one record at a time from a provider while it has demand, a     *)
(* free slot and bytes left, runs the Flow once for it, and settles the    *)
(* claim when the run has ended.  One thread owns the source; runs end,    *)
(* and the provider wakes it, on other threads.  The provider (external)   *)
(* offers a record again, under a new token, when its claim was requeued.  *)
(*                                                                         *)
(*   obj   the source;  call  what its owner is in;                        *)
(*   work  the provider's records;  net  its claims, by token.             *)
(***************************************************************************)
EXTENDS Naturals, Sequences, FiniteSets, FiniteSetsExt

CONSTANTS
    Records, BytesOf,           \* the outbox, and what each record retains
    DeadLetters,                \* the permanent failure policies to consider
    SlotCount, ByteBudget,      \* in_flight_messages, in_flight_bytes
    MaxDemand, MaxTokens, MaxFaults, None

VARIABLES obj, work, call, net

vars == <<obj, work, call, net>>

Tokens == 1 .. MaxTokens
Empty == [phase |-> "EMPTY", token |-> 0, bytes |-> 0, run |-> None, failure |-> FALSE]

Init ==
    /\ \E policy \in DeadLetters :
          obj = [state |-> "RUNNING", demand |-> 0, messages |-> 0, bytes |-> 0,
                 slots |-> [i \in 1 .. SlotCount |-> Empty], armed |-> FALSE, wake |-> FALSE,
                 deadLetter |-> policy, requested |-> 0, consumed |-> 0, faults |-> 0]
    /\ call = "IDLE"
    /\ work = [r \in Records |-> "READY"]
    /\ net = [t \in Tokens |-> [record |-> None, ended |-> None, settled |-> <<>>, dead |-> 0]]

MayFault(ok) == ok \/ obj.faults < MaxFaults
Fault(ok) == obj.faults + (IF ok THEN 0 ELSE 1)

\* outbox_source_error: only a terminal error ends the source.
Fail(s) == [s EXCEPT !.state = "FAILED"]
\* outbox_slot_release
Release(s, i) ==
    [s EXCEPT !.slots[i] = Empty, !.messages = @ - 1, !.bytes = @ - s.slots[i].bytes]
Settled(t, how) == [net EXCEPT ![t].settled = Append(@, how)]
Offer(t) == [work EXCEPT ![net[t].record] = "READY"]

-----------------------------------------------------------------------------
(* What other threads do. *)

RunEnds(i, ok) ==
    /\ obj.slots[i].phase = "GRAPH_RUNNING" /\ obj.slots[i].run = "ACTIVE"
    /\ obj' = [obj EXCEPT !.slots[i].run = IF ok THEN "OK" ELSE "FAILED"]
    /\ net' = [net EXCEPT ![obj.slots[i].token].ended = IF ok THEN "OK" ELSE "FAILED"]
    /\ UNCHANGED <<work, call>>
FetchWake ==
    /\ obj.armed /\ ~obj.wake
    /\ obj' = [obj EXCEPT !.wake = TRUE]
    /\ UNCHANGED <<work, call, net>>

-----------------------------------------------------------------------------
(* The owner: turbo_flow_turbodb_outbox_source_request and _poll. *)

Request ==
    /\ call = "IDLE" /\ obj.state \in {"RUNNING", "WAITING"} /\ obj.requested < MaxDemand
    /\ obj' = [obj EXCEPT !.demand = @ + 1, !.requested = @ + 1]
    /\ UNCHANGED <<work, call, net>>

\* A source that waits for its provider does nothing else until it is woken.
Poll ==
    /\ call = "IDLE" /\ obj.state \in {"RUNNING", "WAITING", "STOPPING"}
    /\ obj.state = "WAITING" => obj.wake
    /\ obj' = IF obj.state = "WAITING"
              THEN [obj EXCEPT !.state = "RUNNING", !.armed = FALSE, !.wake = FALSE] ELSE obj
    /\ call' = "POLL"
    /\ UNCHANGED <<work, net>>
\* max_steps, or nothing left to do.
PollEnd == call = "POLL" /\ call' = "IDLE" /\ UNCHANGED <<obj, work, net>>

Actionable(s) ==
    {i \in 1 .. SlotCount :
        \/ s.slots[i].phase \notin {"EMPTY", "GRAPH_RUNNING"}
        \/ s.slots[i].phase = "GRAPH_RUNNING" /\ s.slots[i].run # "ACTIVE"}
(* outbox_source_settle_one, first half: the run's outcome and the         *)
(* classifier's answer give the phase.                                     *)
Resolve(slot, disposition, deadLetter) ==
    IF slot.phase # "GRAPH_RUNNING" THEN slot
    ELSE IF slot.run = "OK" THEN [slot EXCEPT !.phase = "ACK_PENDING"]
    ELSE IF disposition = "PERMANENT" /\ deadLetter THEN [slot EXCEPT !.phase = "DEAD_LETTER_PENDING"]
    ELSE [slot EXCEPT !.phase = "REQUEUE_PENDING", !.failure = disposition # "RETRYABLE"]
(* Mutant: the phase of a settled dead letter is not advanced. *)
AfterDeadLetterAgain == "DEAD_LETTER_PENDING"

(* Second half: one call of the provider; a refused one keeps the slot.    *)
AfterDeadLetter == "ACK_PENDING"
SettleCall(s, i, ok) ==
    LET slot == s.slots[i]
    IN IF ~ok THEN /\ obj' = s
                   /\ UNCHANGED <<work, net>>
       ELSE CASE slot.phase = "DEAD_LETTER_PENDING" ->
                    /\ obj' = [s EXCEPT !.slots[i].phase = AfterDeadLetter]
                    /\ net' = [net EXCEPT ![slot.token].dead = @ + 1]
                    /\ UNCHANGED work
              [] slot.phase = "ACK_PENDING" ->
                    /\ obj' = Release(s, i)
                    /\ net' = Settled(slot.token, "ACK")
                    /\ work' = [work EXCEPT ![net[slot.token].record] = "DONE"]
              [] slot.phase = "REQUEUE_PENDING" ->
                    /\ obj' = IF slot.failure THEN Fail(Release(s, i)) ELSE Release(s, i)
                    /\ net' = Settled(slot.token, "REQUEUE")
                    /\ work' = Offer(slot.token)
SettleOne(disposition, ok) ==
    /\ Actionable(obj) # {} /\ MayFault(ok)
    /\ LET i == Min(Actionable(obj))
           slot == Resolve(obj.slots[i], disposition, obj.deadLetter)
       IN /\ disposition # "RETRYABLE" =>
                obj.slots[i].phase = "GRAPH_RUNNING" /\ obj.slots[i].run # "OK"
          /\ SettleCall([obj EXCEPT !.slots[i] = slot, !.faults = Fault(ok)], i, ok)
PollSettle(disposition, ok) ==
    /\ call = "POLL" /\ obj.state # "FAILED"
    /\ SettleOne(disposition, ok)
    /\ call' = IF ok /\ obj'.state # "FAILED" THEN "POLL" ELSE "IDLE"

-----------------------------------------------------------------------------
(* outbox_source_fetch_one, when nothing could be settled. *)

FreeSlots == {i \in 1 .. SlotCount : obj.slots[i].phase = "EMPTY"}
WithinBudget == obj.demand > 0 /\ FreeSlots # {} /\ obj.bytes < ByteBudget
Fetching ==
    /\ call = "POLL" /\ obj.state = "RUNNING" /\ Actionable(obj) = {} /\ WithinBudget

\* DATA_LOSS, ERROR, an unusable step, a token that is still in a slot, or a message id
\* that cannot be counted any further: nothing was transferred.
FetchFails ==
    /\ Fetching /\ MayFault(FALSE)
    /\ obj' = [Fail(obj) EXCEPT !.faults = @ + 1]
    /\ call' = "IDLE"
    /\ UNCHANGED <<work, net>>
FetchWait ==
    /\ Fetching /\ \A r \in Records : work[r] # "READY"
    /\ obj' = [obj EXCEPT !.state = "WAITING", !.armed = TRUE, !.wake = FALSE]
    /\ UNCHANGED <<work, call, net>>

NextToken == Min({t \in Tokens : net[t].record = None})
MayClaim(r) == Fetching /\ work[r] = "READY" /\ \E t \in Tokens : net[t].record = None
Claim(r, ended) ==
    /\ work' = [work EXCEPT ![r] = "CLAIMED"]
    /\ net' = [net EXCEPT ![NextToken].record = r, ![NextToken].ended = ended]
InSlot(phase, bytes, run, failure) ==
    [phase |-> phase, token |-> NextToken, bytes |-> bytes, run |-> run, failure |-> failure]

(* A valid record gets its run.  A run that refuses the request for its    *)
(* value is canceled, unless it has ended, and the record goes back.       *)
Validated(r) == BytesOf[r] <= ByteBudget - obj.bytes
FetchRecord(r, request) ==
    /\ MayClaim(r) /\ Validated(r)
    /\ MayFault(request = "ACTIVE")
    /\ LET i == Min(FreeSlots)
           taken == [obj EXCEPT !.messages = @ + 1, !.bytes = @ + BytesOf[r],
                                !.faults = Fault(request = "ACTIVE")]
           used == [taken EXCEPT !.demand = @ - 1, !.consumed = @ + 1]
       IN CASE request \in {"ACTIVE", "FAILED"} ->
                  /\ obj' = [used EXCEPT !.slots[i] = InSlot("GRAPH_RUNNING", BytesOf[r], request, FALSE)]
                  /\ call' = "POLL"
            [] request \in {"ENOSPC", "ERROR"} ->
                  /\ obj' = [taken EXCEPT !.slots[i] = InSlot("REQUEUE_PENDING", BytesOf[r], "CANCELED",
                                                              request = "ERROR")]
                  /\ call' = "IDLE"
            [] request = "CANCEL_FAILS" ->
                  /\ obj' = Fail([taken EXCEPT !.slots[i] = InSlot("GRAPH_RUNNING", BytesOf[r],
                                                                   "ACTIVE", FALSE)])
                  /\ call' = "IDLE"
    /\ Claim(r, IF request = "FAILED" THEN "FAILED" ELSE None)

(* outbox_source_requeue_rejected: the record does not fit or is not       *)
(* valid, or the run cannot be opened.  The token is in a slot until the   *)
(* provider has taken it back, and then the source fails.                  *)
FetchRejected(r, requeued) ==
    /\ MayClaim(r) /\ (Validated(r) => MayFault(FALSE)) /\ MayFault(requeued)
    /\ LET s == [obj EXCEPT !.faults = @ + (IF Validated(r) \/ ~requeued THEN 1 ELSE 0)]
       IN IF requeued
          THEN /\ obj' = Fail(s)
               /\ net' = [net EXCEPT ![NextToken] = [@ EXCEPT !.record = r, !.settled = <<"REQUEUE">>]]
               /\ UNCHANGED work
          ELSE /\ obj' = [s EXCEPT !.messages = @ + 1,
                                   !.slots[Min(FreeSlots)] = InSlot("REQUEUE_PENDING", 0, None, TRUE)]
               /\ Claim(r, None)
    /\ call' = "IDLE"

-----------------------------------------------------------------------------
(* turbo_flow_turbodb_outbox_source_stop and _destroy. *)

(* Every claim is to go back, whatever its phase; a run that cannot be     *)
(* canceled ends the call there, and the caller stops again.               *)
StopSlot(slot) ==
    IF slot.phase = "EMPTY" THEN slot
    ELSE [slot EXCEPT !.phase = "REQUEUE_PENDING", !.failure = FALSE,
                      !.run = IF slot.phase = "GRAPH_RUNNING" /\ @ = "ACTIVE" THEN "CANCELED" ELSE @]
StopBegin(refused) ==
    /\ call = "IDLE" /\ obj.state \notin {"STOPPED", "GONE"} /\ MayFault(refused = SlotCount + 1)
    /\ refused \in 1 .. SlotCount => obj.slots[refused].phase = "GRAPH_RUNNING"
    /\ obj' = [obj EXCEPT !.state = "STOPPING", !.armed = FALSE, !.wake = FALSE,
                          !.faults = Fault(refused = SlotCount + 1),
                          !.slots = [i \in 1 .. SlotCount |->
                                        IF i < refused THEN StopSlot(obj.slots[i]) ELSE obj.slots[i]]]
    /\ call' = IF refused = SlotCount + 1 THEN "STOP" ELSE "IDLE"
    /\ UNCHANGED <<work, net>>
StopSettle(ok) ==
    /\ call = "STOP" /\ obj.messages # 0
    /\ SettleOne("RETRYABLE", ok)
    /\ call' = IF ok THEN "STOP" ELSE "IDLE"
StopEnd ==
    /\ call = "STOP" /\ obj.messages = 0
    /\ obj' = [obj EXCEPT !.state = "STOPPED"]
    /\ call' = "IDLE"
    /\ UNCHANGED <<work, net>>
Destroy ==
    /\ call = "IDLE" /\ obj.state = "STOPPED"
    /\ obj' = [obj EXCEPT !.state = "GONE"]
    /\ UNCHANGED <<work, call, net>>

Next ==
    \/ \E i \in 1 .. SlotCount, ok \in BOOLEAN : RunEnds(i, ok)
    \/ FetchWake \/ Request \/ Poll \/ PollEnd \/ FetchFails \/ FetchWait
    \/ \E disposition \in {"RETRYABLE", "PERMANENT", "INVALID"}, ok \in BOOLEAN :
          PollSettle(disposition, ok)
    \/ \E r \in Records, request \in {"ACTIVE", "FAILED", "ENOSPC", "ERROR", "CANCEL_FAILS"} :
          FetchRecord(r, request)
    \/ \E r \in Records, requeued \in BOOLEAN : FetchRejected(r, requeued)
    \/ \E refused \in 0 .. SlotCount + 1 : StopBegin(refused)
    \/ \E ok \in BOOLEAN : StopSettle(ok)
    \/ StopEnd \/ Destroy

Spec == Init /\ [][Next]_vars

-----------------------------------------------------------------------------
Held == {i \in 1 .. SlotCount : obj.slots[i].phase # "EMPTY"}

(* The slots are where the source's claims are: every token the provider   *)
(* has given out and not got back is in exactly one slot, the counts of    *)
(* the snapshot are those of the slots and stay in their budgets, demand   *)
(* is used once per run, and a stopped source holds no claim.              *)
ClaimsAccounted ==
    /\ {t \in Tokens : net[t].record # None /\ net[t].settled = <<>>} = {obj.slots[i].token : i \in Held}
    /\ \A i, j \in Held : i # j => obj.slots[i].token # obj.slots[j].token
    /\ obj.messages = Cardinality(Held)
    /\ obj.bytes = MapThenSumSet(LAMBDA i : obj.slots[i].bytes, Held) /\ obj.bytes <= ByteBudget
    /\ obj.requested = obj.demand + obj.consumed
    /\ obj.state \in {"STOPPED", "GONE"} => Held = {} /\ ~obj.armed

(* A claim is settled once.  It is acknowledged only when its run          *)
(* completed, or when the record has been dead-lettered, which happens     *)
(* once per claim; a record acknowledged is never offered again.           *)
AckTruthful ==
    \A t \in Tokens : LET c == net[t] IN
        /\ Len(c.settled) <= 1 /\ c.dead <= 1
        /\ c.settled = <<"ACK">> => (c.ended = "OK" \/ c.dead = 1) /\ work[c.record] = "DONE"
        /\ c.dead = 1 => c.ended = "FAILED" /\ obj.deadLetter
==================================================================================
