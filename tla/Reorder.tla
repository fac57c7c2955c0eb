------------------------------- MODULE Reorder -------------------------------
(***************************************************************************)
(* The reorder boundaries of a flow (turbo_flow/src/flow_reorder.c) as the *)
(* runs of the graph use them (flow_run_message_from_stage in              *)
(* flow_runtime.c, flow_dispatch_stage in flow_dispatch.c).                *)
(*                                                                         *)
(* A run takes a ticket of every boundary it can reach before it starts,   *)
(* passes each boundary in the order of the tickets, and cancels at its    *)
(* end the tickets it has not used.  A stage that emits messages first     *)
(* cancels the tickets of the boundaries below it; each output is then a   *)
(* run of its own, nested in the run of the stage.                         *)
(***************************************************************************)
EXTENDS Integers, Sequences, FiniteSets, FiniteSetsExt, Relation

CONSTANTS
    Boundaries,    \* stages with a reorder option, numbered in stage order
    Capacity,      \* boundary -> its capacity
    Runs,          \* runs of the graph, those of emitted messages included
    Nested,        \* the runs of emitted messages
    Reach,         \* run -> boundaries it can reach
    Path,          \* run -> sequence of steps: [pass |-> boundary] or [emit |-> run]
    TimesOut       \* whether waits may time out

VARIABLES
    sequence,      \* next_sequence of the flow: runs begun so far
    issued,        \* boundary -> issued_sequence, the last ticket
    next,          \* boundary -> next_sequence, the ticket that may pass
    canceled,      \* boundary -> canceled_sequences
    inside,        \* boundary -> the runs executing its stage (active)
    stopping,      \* the boundaries that are stopping
    run            \* run -> [at, pos, ticket, rc]

vars == <<sequence, issued, next, canceled, inside, stopping, run>>

boundaryVars == <<issued, next, canceled, inside, stopping>>

NoTickets == [b \in Boundaries |-> 0]

Init ==
    /\ sequence = 0
    /\ issued = [b \in Boundaries |-> 0]
    /\ next = [b \in Boundaries |-> 1]
    /\ canceled = [b \in Boundaries |-> {}]
    /\ inside = [b \in Boundaries |-> {}]
    /\ stopping = {}
    /\ run = [r \in Runs |-> [at |-> IF r \in Nested THEN "HELD" ELSE "NEW", pos |-> 1,
                              ticket |-> NoTickets, rc |-> "OK"]]

(* The step a run is at: the boundary it passes or the run it emits. *)
Passes(r, k) == k <= Len(Path[r]) /\ "pass" \in DOMAIN Path[r][k]

Emits(r, k) == k <= Len(Path[r]) /\ "emit" \in DOMAIN Path[r][k]

Here(r) == Path[r][run[r].pos].pass

Output(r) == Path[r][run[r].pos].emit

Waiting(b) == {r \in Runs : run[r].at = "WAIT" /\ Here(r) = b}

(* flow_reorder_reserve *)
HasRoom(b) == issued[b] >= next[b] => issued[b] - next[b] < Capacity[b]
MayReserve(b) == b \notin stopping /\ HasRoom(b)
Refusal(b) == IF b \in stopping THEN "ESHUTDOWN" ELSE "ENOSPC"

(***************************************************************************)
(* The tickets of a run, taken in one section under runtime_mutex.  At a   *)
(* boundary that refuses, stage_sequences holds the run's own number, not  *)
(* a ticket; the boundaries behind it are not asked.                       *)
(***************************************************************************)
Refusing(r) == {b \in Reach[r] : ~MayReserve(b)}

TakeTickets(r) ==
    /\ run[r].at = "NEW"
    /\ sequence' = sequence + 1
    /\ LET refused == Refusing(r)
           asked == IF refused = {} THEN Reach[r] ELSE {b \in Reach[r] : b < Min(refused)}
       IN  /\ issued' = [b \in Boundaries |-> issued[b] + IF b \in asked THEN 1 ELSE 0]
           /\ run' = [run EXCEPT
                ![r].at = IF refused = {} THEN "RUN" ELSE "CLEANUP",
                ![r].rc = IF refused = {} THEN "OK" ELSE Refusal(Min(refused)),
                ![r].ticket = [b \in Boundaries |->
                    CASE b \in asked -> issued'[b]
                      [] refused # {} /\ b = Min(refused) -> sequence'
                      [] OTHER -> 0]]
    /\ UNCHANGED <<next, canceled, inside, stopping>>

(* flow_reorder_advance_canceled *)
Advanced(n, gone) == Min((n..n + Cardinality(gone)) \ gone)

(* flow_reorder_cancel of several tickets; 0 is none.  The boundaries share nothing,
   so the order in which a run cancels at them is not told apart. *)
Cancel(tickets) ==
    LET gone(b) == canceled[b] \cup IF tickets[b] >= next[b] THEN {tickets[b]} ELSE {}
        to(b) == IF inside[b] = {} THEN Advanced(next[b], gone(b)) ELSE next[b]
    IN  /\ next' = [b \in Boundaries |-> to(b)]
        /\ canceled' = [b \in Boundaries |-> {t \in gone(b) : t >= to(b)}]
        /\ UNCHANGED <<issued, inside, stopping>>

(***************************************************************************)
(* Passing a boundary: flow_reorder_enter, the stage, flow_reorder_leave.  *)
(***************************************************************************)
AtBoundary(r) == run[r].at = "RUN" /\ Passes(r, run[r].pos)

Ticket(r) == run[r].ticket[Here(r)]

Stopping(r) == Here(r) \in stopping

MayPass(r) == Ticket(r) = next[Here(r)] /\ inside[Here(r)] = {}

Move(r, at) == run' = [run EXCEPT ![r].at = at]

Enter(r) ==
    /\ AtBoundary(r) /\ ~Stopping(r) /\ MayPass(r)
    /\ inside' = [inside EXCEPT ![Here(r)] = {r}]
    /\ Move(r, "IN")
    /\ UNCHANGED <<sequence, issued, next, canceled, stopping>>

EnterWaits(r) ==
    /\ AtBoundary(r) /\ ~Stopping(r) /\ ~MayPass(r) /\ Ticket(r) >= next[Here(r)]
    /\ Cardinality(Waiting(Here(r))) < Capacity[Here(r)]
    /\ Move(r, "WAIT")
    /\ UNCHANGED <<sequence, boundaryVars>>

(* A failed stage ends the run, unless an edge routes its error. *)
Fail(r, rc) ==
    \/ run' = [run EXCEPT ![r].at = "CLEANUP", ![r].rc = rc]
    \/ run' = [run EXCEPT ![r].at = "RUN", ![r].pos = @ + 1]

EnterFails(r) ==
    /\ AtBoundary(r) /\ ~Stopping(r) /\ ~MayPass(r)
    /\ IF Ticket(r) < next[Here(r)]
       THEN Fail(r, "EALREADY")
       ELSE Cardinality(Waiting(Here(r))) >= Capacity[Here(r)] /\ Fail(r, "ENOSPC")
    /\ UNCHANGED <<sequence, boundaryVars>>

(* Mutant: whoever wakes up enters. *)
WakeAnyone(r) ==
    /\ run[r].at = "WAIT" /\ inside[Here(r)] = {}
    /\ inside' = [inside EXCEPT ![Here(r)] = {r}]
    /\ Move(r, "IN")
    /\ UNCHANGED <<sequence, issued, next, canceled, stopping>>

Wake(r) ==
    /\ run[r].at = "WAIT" /\ ~Stopping(r) /\ MayPass(r)
    /\ inside' = [inside EXCEPT ![Here(r)] = {r}]
    /\ Move(r, "IN")
    /\ UNCHANGED <<sequence, issued, next, canceled, stopping>>

(* A wait that has timed out fails even if the run could pass by now. *)
TimeOut(r) ==
    /\ TimesOut
    /\ run[r].at = "WAIT" /\ ~Stopping(r)
    /\ Fail(r, "ETIMEDOUT")
    /\ UNCHANGED <<sequence, boundaryVars>>

(* A boundary that is stopping lets nobody in, and ends the waits. *)
EnterStopped(r) ==
    /\ AtBoundary(r) \/ run[r].at = "WAIT"
    /\ Stopping(r)
    /\ Fail(r, "ESHUTDOWN")
    /\ UNCHANGED <<sequence, boundaryVars>>

(* flow_stop_reorder_states, one boundary after another.  A run whose publication was
   given back at its deadline may still be in the graph. *)
StopNext ==
    /\ stopping # Boundaries
    /\ stopping' = stopping \cup {Min(Boundaries \ stopping)}
    /\ UNCHANGED <<sequence, issued, next, canceled, inside, run>>

(* The stage is through, well or not, and flow_reorder_leave moves on. *)
Leave(r) ==
    /\ run[r].at = "IN"
    /\ LET b == Here(r)
           on == Advanced(next[b] + 1, canceled[b])
       IN  /\ inside' = [inside EXCEPT ![b] = {}]
           /\ next' = [next EXCEPT ![b] = on]
           /\ canceled' = [canceled EXCEPT ![b] = {t \in @ : t >= on}]
    /\ \/ run' = [run EXCEPT ![r].at = "RUN", ![r].pos = @ + 1]
       \/ run' = [run EXCEPT ![r].at = "CLEANUP", ![r].rc = "EIO"]
    /\ UNCHANGED <<sequence, issued, stopping>>

(***************************************************************************)
(* Emitting: flow_cancel_emission_descendant_reorders and the nested run.  *)
(***************************************************************************)
Emit(r) ==
    /\ run[r].at = "RUN" /\ Emits(r, run[r].pos)
    /\ LET below == Reach[Output(r)]
       IN  /\ Cancel([b \in Boundaries |-> IF b \in below THEN run[r].ticket[b] ELSE 0])
           /\ run' = [run EXCEPT
                ![r].at = "EMIT",
                ![r].ticket = [b \in Boundaries |-> IF b \in below THEN 0 ELSE @[b]],
                ![Output(r)].at = "NEW"]
    /\ UNCHANGED sequence

(* A failed output fails the run. *)
Emitted(r) ==
    /\ run[r].at = "EMIT" /\ run[Output(r)].at = "ENDED"
    /\ IF run[Output(r)].rc = "OK"
       THEN run' = [run EXCEPT ![r].at = "RUN", ![r].pos = @ + 1]
       ELSE run' = [run EXCEPT ![r].at = "CLEANUP", ![r].rc = run[Output(r)].rc]
    /\ UNCHANGED <<sequence, boundaryVars>>

PathDone(r) ==
    /\ run[r].at = "RUN" /\ run[r].pos > Len(Path[r])
    /\ Move(r, "CLEANUP")
    /\ UNCHANGED <<sequence, boundaryVars>>

(* Mutant: a run that ends well cancels nothing. *)
CleanupFailed(r) ==
    /\ run[r].at = "CLEANUP"
    /\ IF run[r].rc = "OK" THEN UNCHANGED boundaryVars ELSE Cancel(run[r].ticket)
    /\ run' = [run EXCEPT ![r].at = "ENDED", ![r].ticket = NoTickets]
    /\ UNCHANGED sequence

(* The cleanup of flow_run_message_from_stage; tickets already used are below next. *)
Cleanup(r) ==
    /\ run[r].at = "CLEANUP"
    /\ Cancel(run[r].ticket)
    /\ run' = [run EXCEPT ![r].at = "ENDED", ![r].ticket = NoTickets]
    /\ UNCHANGED sequence

Step(r) ==
    \/ Enter(r) \/ EnterWaits(r) \/ EnterFails(r) \/ EnterStopped(r) \/ Wake(r) \/ Leave(r)
    \/ Emit(r) \/ Emitted(r) \/ PathDone(r) \/ Cleanup(r)

Next == StopNext \/ \E r \in Runs : TakeTickets(r) \/ Step(r) \/ TimeOut(r)

Spec == Init /\ [][Next]_vars

(* A boundary lets one run through at a time, the one whose ticket is next. *)
OneInside ==
    \A b \in Boundaries, r \in Runs :
        run[r].at = "IN" /\ Here(r) = b => inside[b] = {r} /\ Ticket(r) = next[b]

(* Once every run has ended no ticket is left for anybody to wait for. *)
NoTicketLeft ==
    (\A r \in Runs \ Nested : run[r].at = "ENDED") => \A b \in Boundaries : next[b] > issued[b]
=============================================================================
