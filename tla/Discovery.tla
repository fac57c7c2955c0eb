-------------------------------- MODULE Discovery --------------------------------
(***************************************************************************)
(* The discovery controller, turbo_flow/src/flow_discovery.c, over the     *)
(* Flow's command dispatcher, flow_resource_command.c: a versioned list of *)
(* peers is reconciled onto a fixed set of adapter slots by commands to    *)
(* the adapters' owners, all of them or none.  The history of commands is  *)
(* bounded and never evicted, so a call reserves what it and its undoing   *)
(* may need before the first command.  The host serializes all calls.  An  *)
(* owner (external) is open or quiesced and has an endpoint; a command it  *)
(* refuses has no effect.                                                  *)
(*                                                                         *)
(*   obj   the controller;  net  the owners and the dispatcher;            *)
(*   call  the call that is running: commands to do, commands done;        *)
(*   work  the list that it is about.                                      *)
(***************************************************************************)
EXTENDS Naturals, Sequences, FiniteSets, FiniteSetsExt, SequencesExt

CONSTANTS
    PeerIds, Endpoints,
    SlotCount, HistoryMax,
    MaxVersion, MaxFaults, None

VARIABLES obj, work, call, net

vars == <<obj, work, call, net>>

SlotSet == 1 .. SlotCount
Vacant == [active |-> FALSE, peer |-> None, endpoint |-> None]
Idle == [pc |-> "IDLE", todo |-> <<>>, done |-> <<>>, remaining |-> 0, clean |-> TRUE]

Init ==
    /\ obj = [state |-> "NONE", slots |-> [i \in SlotSet |-> Vacant], version |-> 0,
              consistent |-> TRUE]
    /\ work = [version |-> 0, targets |-> [i \in SlotSet |-> Vacant]]
    /\ call = Idle
    /\ \E used \in 0 .. HistoryMax :        \* other commands have been there before
          net = [owners |-> [i \in SlotSet |-> [open |-> TRUE, endpoint |-> None]],
                 used |-> used, left |-> {}, short |-> FALSE, status |-> None, faults |-> 0]

(* How a command ends: done; refused by the owner; or not sent at all, since  *)
(* the resource's metadata does not fit.                                   *)
Ends == {"DONE", "REFUSED", "UNFIT"}
MayEnd(end) == end = "DONE" \/ net.faults < MaxFaults
Command(i, kind, endpoint) == [slot |-> i, kind |-> kind, endpoint |-> endpoint]

-----------------------------------------------------------------------------
(* flow_resource_command_scope_begin: nothing happens unless the whole     *)
(* budget fits into the history.                                           *)
ScopeFits(budget) == budget <= HistoryMax - net.used

(* flow_discovery_command and flow_resource_command_execute: a record is   *)
(* claimed before the owner is asked.  net.left are the owners that an     *)
(* undoing could not resume.                                               *)
Applied(owner, c) ==
    CASE c.kind = "QUIESCE" -> [owner EXCEPT !.open = FALSE]
      [] c.kind = "RESUME" -> [owner EXCEPT !.open = TRUE]
      [] c.kind = "REPLACE_ENDPOINT" -> [owner EXCEPT !.endpoint = c.endpoint]
Claims(end) == IF end = "UNFIT" THEN 0 ELSE 1
Execute(c, end) ==
    net' = [net EXCEPT !.used = @ + Claims(end),
                       !.short = @ \/ (end # "UNFIT" /\ (call.remaining = 0 \/ net.used = HistoryMax)),
                       !.owners[c.slot] = IF end = "DONE" THEN Applied(@, c) ELSE @,
                       !.left = IF c.kind # "RESUME" THEN @
                                ELSE IF end = "DONE" THEN @ \ {c.slot} ELSE @ \cup {c.slot},
                       !.faults = @ + (IF end = "DONE" THEN 0 ELSE 1)]

-----------------------------------------------------------------------------
(* turbo_flow_discovery_controller_create: every owner is quiesced, or     *)
(* those that were are resumed.                                            *)

Create ==
    /\ obj.state = "NONE" /\ call.pc = "IDLE" /\ ScopeFits(2 * SlotCount)
    /\ call' = [Idle EXCEPT !.pc = "CREATE", !.remaining = 2 * SlotCount,
                            !.todo = [i \in SlotSet |-> Command(i, "QUIESCE", None)]]
    /\ UNCHANGED <<obj, work, net>>
ControllerDestroy ==
    /\ obj.state = "LIVE" /\ call.pc = "IDLE"
    /\ obj' = [obj EXCEPT !.state = "GONE"]
    /\ UNCHANGED <<work, call, net>>

-----------------------------------------------------------------------------
(* turbo_flow_discovery_replace_peer_list *)

Active(slots) == {i \in SlotSet : slots[i].active}
Holder(slots, peer) == {i \in Active(slots) : slots[i].peer = peer}
Target(p) == [active |-> TRUE, peer |-> p.peer, endpoint |-> p.endpoint]

(* flow_discovery_build_targets: a peer that is known keeps its slot; a    *)
(* new one takes a vacant slot, or one whose peer leaves.                  *)
ListValid(list) ==
    /\ Len(list) <= SlotCount
    /\ \A i, j \in DOMAIN list : i # j => list[i].peer # list[j].peer
Kept(slots, list) ==
    [i \in SlotSet |->
        LET known == {k \in DOMAIN list : i \in Holder(slots, list[k].peer)}
        IN IF known = {} THEN Vacant ELSE Target(list[CHOOSE k \in known : TRUE])]
Place(slots, targets, p) ==
    LET free == {i \in SlotSet : ~targets[i].active}
        vacant == free \ Active(slots)
        i == Min(IF vacant # {} THEN vacant ELSE free)
    IN IF Holder(slots, p.peer) # {} THEN targets ELSE [targets EXCEPT ![i] = Target(p)]
BuildTargets(slots, list) ==
    FoldLeft(LAMBDA targets, p : Place(slots, targets, p), Kept(slots, list), list)

(* The commands of a replacement, in the order of the two loops.           *)
Changed(i, targets) == targets[i].active /\ targets[i] # obj.slots[i]
Leaving(i, targets) == ~targets[i].active /\ obj.slots[i].active
OneOf(i, targets) ==
    IF ~Changed(i, targets) THEN <<>>
    ELSE IF obj.slots[i].active THEN <<Command(i, "REPLACE_ENDPOINT", targets[i].endpoint)>>
    ELSE <<Command(i, "REPLACE_ENDPOINT", targets[i].endpoint), Command(i, "RESUME", None)>>
Plan(targets) ==
    FlattenSeq([i \in SlotSet |-> OneOf(i, targets)])
    \o FlattenSeq([i \in SlotSet |-> IF Leaving(i, targets) THEN <<Command(i, "QUIESCE", None)>>
                                     ELSE <<>>])
Budget(targets) ==
    MapThenSumSet(LAMBDA i : IF Changed(i, targets) THEN (IF obj.slots[i].active THEN 2 ELSE 3)
                             ELSE IF Leaving(i, targets) THEN 2 ELSE 0, SlotSet)

Refuse(status) ==
    /\ net' = [net EXCEPT !.status = status]
    /\ UNCHANGED <<obj, work, call>>
ReplacePeerList(version, list) ==
    /\ obj.state = "LIVE" /\ obj.consistent /\ call.pc = "IDLE"
    /\ IF ~ListValid(list) THEN Refuse("INVALID")
       ELSE LET targets == BuildTargets(obj.slots, list) IN
            IF version < obj.version THEN Refuse("EALREADY")
            ELSE IF version = obj.version
                 THEN Refuse(IF targets = obj.slots THEN "OK" ELSE "EPROTO")
            ELSE IF ~ScopeFits(Budget(targets)) THEN Refuse("ENOSPC")
            ELSE /\ work' = [version |-> version, targets |-> targets]
                 /\ call' = [Idle EXCEPT !.pc = "APPLY", !.todo = Plan(targets),
                                         !.remaining = Budget(targets)]
                 /\ net' = [net EXCEPT !.status = None]
                 /\ UNCHANGED obj

(* The next command; the first that fails starts the undoing.              *)
Undone(c) == [c EXCEPT !.kind = IF @ = "QUIESCE" THEN "RESUME" ELSE "QUIESCE"]
\* flow_discovery_rollback: removals first, then additions and replacements, last first.
UndoOf(c) ==
    IF obj.slots[c.slot].active THEN Command(c.slot, "REPLACE_ENDPOINT", obj.slots[c.slot].endpoint)
    ELSE Command(c.slot, "QUIESCE", None)
Rollback(done) ==
    LET removals == SelectSeq(done, LAMBDA c : c.kind = "QUIESCE")
        changes == SelectSeq(done, LAMBDA c : c.kind = "REPLACE_ENDPOINT")
    IN Reverse([i \in DOMAIN removals |-> Command(removals[i].slot, "RESUME", None)])
       \o Reverse([i \in DOMAIN changes |-> UndoOf(changes[i])])
Compensation(pc, done) ==
    IF pc = "CREATE" THEN Reverse([i \in DOMAIN done |-> Undone(done[i])]) ELSE Rollback(done)
Step(end) ==
    /\ call.pc \in {"CREATE", "APPLY"} /\ call.todo # <<>> /\ MayEnd(end)
    /\ Execute(Head(call.todo), end)
    /\ call' = IF end = "DONE"
               THEN [call EXCEPT !.todo = Tail(@), !.done = Append(@, Head(call.todo)),
                                 !.remaining = @ - 1]
               ELSE [call EXCEPT !.pc = IF @ = "CREATE" THEN "UNCREATE" ELSE "ROLLBACK",
                                 !.todo = Compensation(call.pc, call.done), !.done = <<>>,
                                 !.remaining = @ - Claims(end)]
    /\ UNCHANGED <<obj, work>>
\* Every undo is tried; one that fails leaves the controller unusable.
UndoStep(end) ==
    /\ call.pc \in {"UNCREATE", "ROLLBACK"} /\ call.todo # <<>> /\ MayEnd(end)
    /\ Execute(Head(call.todo), end)
    /\ call' = [call EXCEPT !.todo = Tail(@), !.remaining = @ - Claims(end),
                            !.clean = @ /\ end = "DONE"]
    /\ UNCHANGED <<obj, work>>

(* The end of the call: flow_discovery_commit, or the old facts stay.      *)
Commit == [obj EXCEPT !.slots = work.targets, !.version = work.version]
CallEnd ==
    /\ call.pc # "IDLE" /\ call.todo = <<>>
    /\ obj' = CASE call.pc = "CREATE" -> [obj EXCEPT !.state = "LIVE"]
                [] call.pc = "APPLY" -> Commit
                [] call.pc = "UNCREATE" -> obj      \* the controller is freed
                [] call.pc = "ROLLBACK" -> [obj EXCEPT !.consistent = call.clean]
    /\ net' = [net EXCEPT !.status = IF call.pc \in {"CREATE", "APPLY"} THEN "OK" ELSE "FAILED"]
    /\ call' = Idle
    /\ UNCHANGED work

Lists == BoundedSeq([peer : PeerIds, endpoint : Endpoints], SlotCount)
Next ==
    \/ Create \/ ControllerDestroy \/ CallEnd
    \/ \E version \in 1 .. MaxVersion, list \in Lists : ReplacePeerList(version, list)
    \/ \E end \in Ends : Step(end) \/ UndoStep(end)

Spec == Init /\ [][Next]_vars

-----------------------------------------------------------------------------
(* Between calls the owners are what the controller says they are: a slot  *)
(* with a peer is open on its endpoint, one without is quiesced, and no    *)
(* two slots have the same peer.  Before the controller exists every owner *)
(* is open that a failed create did not fail to resume.  An undoing that   *)
(* failed makes the controller unusable.                                   *)
OwnersAsCommitted ==
    call.pc = "IDLE" /\ obj.consistent =>
        /\ obj.state = "NONE" => \A i \in SlotSet \ net.left : net.owners[i].open
        /\ obj.state = "LIVE" =>
              \A i \in SlotSet :
                  IF obj.slots[i].active
                  THEN net.owners[i] = [open |-> TRUE, endpoint |-> obj.slots[i].endpoint]
                  ELSE ~net.owners[i].open
        /\ \A i, j \in Active(obj.slots) : i # j => obj.slots[i].peer # obj.slots[j].peer

(* What a call reserved is enough for all of its commands and for undoing  *)
(* them, wherever it fails: none is ever refused for want of history.      *)
ReservationSuffices == ~net.short /\ net.used <= HistoryMax

(* The committed peers change only together with the version, which only   *)
(* grows, and only at the end of a call whose commands all succeeded.      *)
VersionedChange ==
    obj.slots' # obj.slots =>
        obj.version' > obj.version /\ call.pc = "APPLY" /\ call.todo = <<>>
==================================================================================
