------------------------------- MODULE KeyedState -------------------------------
(***************************************************************************)
(* The keyed state store and its event-time windows,                       *)
(* turbo_flow/src/flow_keyed_state.c.  A stage callback works on a         *)
(* snapshot of one key outside the store's mutex and commits what it did   *)
(* if the key's revision is still the one it saw; a watermark closes the   *)
(* windows it passes and emits their aggregates.  The callback modelled    *)
(* here aggregates: it puts the aggregate with its message added, deletes  *)
(* it and emits it, or leaves it.  A value is the set of messages in it    *)
(* and is as long as the set; a key is one long.                           *)
(*                                                                         *)
(*   obj   the store;  work  the callbacks, one for each message;          *)
(*   call  the call that advances the watermark;  net  what was emitted.   *)
(***************************************************************************)
EXTENDS Naturals, Sequences, FiniteSets, FiniteSetsExt

CONSTANTS
    Messages, Keys,     \* Keys are numbers, compared as the bytes of a key are
    Stores,             \* store configurations
    Times, Watermarks,  \* event times and watermarks offered
    MaxTime,            \* UINT64_MAX, of a time
    MaxRevision,        \* UINT64_MAX, of a revision
    MaxFaults, None

VARIABLES obj, work, call, net

vars == <<obj, work, call, net>>

EventTime == obj.config.window # 0

(* flow_event_time_bounds: a window that would end after the last time is  *)
(* refused, one whose lateness reaches over it closes with it.             *)
Start(ts) == (ts \div obj.config.window) * obj.config.window
OutOfRange(ts) == Start(ts) > MaxTime - obj.config.window
CloseAt(start) ==
    LET end == start + obj.config.window
    IN IF end > MaxTime - obj.config.lateness THEN MaxTime ELSE end + obj.config.lateness

\* The key of the store: the application's key, in its window.
FullKey(k, ts) == <<IF EventTime THEN Start(ts) ELSE 0, k>>

Idle == [pc |-> "NEW", key |-> None, had |-> FALSE, present |-> FALSE, revision |-> 0,
         value |-> {}, mutation |-> "NONE", pending |-> {}, status |-> "OK"]
NoAdvance == [pc |-> "IDLE", mark |-> 0, left |-> <<>>]

Init ==
    /\ \E c \in Stores :
          obj = [config |-> c, entries |-> [k \in {} |-> 0], bytes |-> 0, count |-> 0, mark |-> 0,
                 marked |-> FALSE, advancing |-> FALSE, faults |-> 0]
    /\ work = [m \in Messages |-> Idle]
    /\ call = NoAdvance
    /\ net = [out |-> <<>>, dropped |-> {}]

HasSlot(k) == k \in DOMAIN obj.entries
Put(f, k, v) == [x \in DOMAIN f \cup {k} |-> IF x = k THEN v ELSE f[x]]
Done(m, status) == [work EXCEPT ![m] = [Idle EXCEPT !.pc = "DONE", !.status = status]]
MayFault(ok) == ok \/ obj.faults < MaxFaults
Faulted(ok) == IF ok THEN obj ELSE [obj EXCEPT !.faults = @ + 1]

-----------------------------------------------------------------------------
(* One message: flow_keyed_state_execute, flow_keyed_state_execute_emitting *)
(* and flow_event_time_window_execute.                                     *)

\* flow_keyed_event_time_gate_locked
Late(k) == EventTime /\ obj.marked /\ obj.mark >= CloseAt(k[1])

Enter(m, k, ts) ==
    /\ work[m].pc = "NEW"
    /\ work' = IF EventTime /\ OutOfRange(ts) THEN Done(m, "ERANGE")
               ELSE IF Late(FullKey(k, ts)) THEN Done(m, "ETIMEDOUT")
               ELSE [work EXCEPT ![m].pc = "GATED", ![m].key = FullKey(k, ts)]
    /\ UNCHANGED <<obj, call, net>>

\* flow_keyed_snapshot
Snapshot(m) ==
    /\ work[m].pc = "GATED"
    /\ LET k == work[m].key
           had == HasSlot(k)
           e == obj.entries[k]
       IN work' = [work EXCEPT ![m].pc = "CALLBACK", ![m].had = had,
                               ![m].present = had /\ e.present,
                               ![m].revision = IF had THEN e.revision ELSE 0,
                               ![m].value = IF had THEN e.value ELSE {}]
    /\ UNCHANGED <<obj, call, net>>

\* turbo_flow_keyed_state_put: a refused value fails the callback whatever it returns.
KeyedPut(m) ==
    /\ work[m].pc = "CALLBACK" /\ work[m].status = "OK"
    /\ LET value == work[m].value \cup {m}
       IN work' = IF Cardinality(value) > obj.config.value
                  THEN [work EXCEPT ![m].status = "ENOSPC"]
                  ELSE [work EXCEPT ![m].mutation = "PUT", ![m].pending = value]
    /\ UNCHANGED <<obj, call, net>>

\* turbo_flow_keyed_state_delete
KeyedDelete(m) ==
    /\ work[m].pc = "CALLBACK" /\ work[m].status = "OK"
    /\ IF work[m].mutation = "PUT" /\ ~work[m].present
       THEN work' = [work EXCEPT ![m].mutation = "NONE", ![m].pending = {}]
       ELSE /\ work[m].present /\ work[m].mutation # "DELETE"
            /\ work' = [work EXCEPT ![m].mutation = "DELETE", ![m].pending = {}]
    /\ UNCHANGED <<obj, call, net>>

\* The callback, or the emitter it wrote to, fails.
CallbackFails(m) ==
    /\ work[m].pc = "CALLBACK" /\ MayFault(FALSE)
    /\ work' = Done(m, "FAILED")
    /\ obj' = Faulted(FALSE)
    /\ UNCHANGED <<call, net>>

(* Mutant: a commit compares the presence of the entry and not its revision. *)
ConflictIgnoresRevision(w, k) == IF ~w.had THEN HasSlot(k) ELSE ~HasSlot(k)

\* flow_keyed_conflict
Conflict(w, k) ==
    IF ~w.had THEN HasSlot(k) ELSE ~HasSlot(k) \/ obj.entries[k].revision # w.revision

\* An event that was in time when it entered may be late when it commits.
Gated(w) == Late(w.key)

\* What the commit of w answers, under the store's mutex.
NewBytes(w) ==
    obj.bytes + Cardinality(w.pending)
        + IF HasSlot(w.key) THEN 0 ELSE 1
PutBytes(w) == NewBytes(w) - (IF HasSlot(w.key) THEN Cardinality(obj.entries[w.key].value) ELSE 0)
Answer(w) ==
    LET has == HasSlot(w.key)
        e == obj.entries[w.key]
    IN CASE w.status # "OK" -> w.status
         [] Gated(w) -> "ETIMEDOUT"
         [] Conflict(w, w.key) -> "EBUSY"
         [] w.mutation = "NONE" -> "OK"
         [] w.mutation = "DELETE" /\ ~(has /\ e.present) -> "ENOENT"
         [] has /\ e.revision = MaxRevision -> "ERANGE"
         [] w.mutation = "PUT" /\ ~has /\ Cardinality(DOMAIN obj.entries) >= obj.config.entries
              -> "ENOSPC"
         [] w.mutation = "PUT" /\ PutBytes(w) > obj.config.bytes -> "ENOSPC"
         [] OTHER -> "OK"

\* flow_keyed_commit_put; a deleted key keeps its slot and its revision.
CommitPut(w) ==
    LET k == w.key
        e == obj.entries[k]
    IN [obj EXCEPT
          !.entries = Put(@, k, [present |-> TRUE, value |-> w.pending,
                                 revision |-> IF HasSlot(k) THEN e.revision + 1 ELSE 1]),
          !.count = IF HasSlot(k) /\ e.present THEN @ ELSE @ + 1,
          !.bytes = PutBytes(w)]
\* flow_keyed_commit_delete
CommitDelete(k) ==
    [obj EXCEPT !.entries[k] = [present |-> FALSE, value |-> {}, revision |-> @.revision + 1],
                !.count = @ - 1, !.bytes = @ - Cardinality(obj.entries[k].value)]

(* flow_keyed_state_close after the callback returned OK; what it emitted  *)
(* leaves only when the commit succeeds.                                   *)
Commit(m) ==
    /\ work[m].pc = "CALLBACK"
    /\ LET w == work[m]
           answer == Answer(w)
           ok == answer = "OK"
       IN /\ obj' = IF ok /\ w.mutation = "PUT" THEN CommitPut(w)
                    ELSE IF ok /\ w.mutation = "DELETE" THEN CommitDelete(w.key) ELSE obj
          /\ net' = IF ~ok \/ w.mutation # "DELETE" THEN net
                    ELSE IF EventTime THEN [net EXCEPT !.dropped = @ \cup w.value \cup {m}]
                    ELSE [net EXCEPT !.out = Append(@, [key |-> w.key, value |-> w.value \cup {m}])]
          /\ work' = Done(m, IF ok /\ w.mutation = "NONE" THEN "UNCHANGED" ELSE answer)
    /\ UNCHANGED call

-----------------------------------------------------------------------------
(* flow_event_time_window_advance. *)

AdvanceBegin(mark) ==
    /\ EventTime /\ call.pc = "IDLE" /\ ~obj.advancing /\ (obj.marked => mark >= obj.mark)
    /\ obj' = [obj EXCEPT !.advancing = TRUE]
    /\ call' = [call EXCEPT !.pc = "SCAN", !.mark = mark]
    /\ UNCHANGED <<work, net>>

\* flow_event_time_candidate_compare: by start, then by key.
Precedes(j, k) == j[1] < k[1] \/ (j[1] = k[1] /\ j[2] <= k[2])
Sorted(ks) == CHOOSE s \in [1 .. Cardinality(ks) -> ks] :
                  \A i, j \in DOMAIN s : i < j => s[i] # s[j] /\ Precedes(s[i], s[j])

\* The watermark is set, and the windows it closes are collected, under one lock.
Scan ==
    /\ call.pc = "SCAN"
    /\ obj' = [obj EXCEPT !.mark = call.mark, !.marked = TRUE]
    /\ LET ks == Sorted({k \in DOMAIN obj.entries : obj.entries[k].present
                                                    /\ CloseAt(k[1]) <= call.mark})
       IN call' = [call EXCEPT !.pc = "CLOSE",
                       !.left = [i \in DOMAIN ks |-> [key |-> ks[i], value |-> obj.entries[ks[i]].value,
                                                      revision |-> obj.entries[ks[i]].revision]]]
    /\ UNCHANGED <<work, net>>

(* flow_event_time_close_candidate: the window is deleted, if its revision *)
(* is the one collected, and then its aggregate goes downstream, which     *)
(* does not bring it back when it fails.  Any failure ends the call.       *)
CloseStatus(c) ==
    IF ~HasSlot(c.key) \/ obj.entries[c.key].revision # c.revision THEN "EBUSY"
    ELSE IF ~obj.entries[c.key].present THEN "ENOENT"
    ELSE IF c.revision = MaxRevision THEN "ERANGE" ELSE "OK"
CloseCandidate(closes, delivers) ==
    /\ call.pc = "CLOSE" /\ call.left # <<>> /\ MayFault(closes /\ delivers)
    /\ LET c == Head(call.left)
           ok == closes /\ CloseStatus(c) = "OK"
       IN /\ obj' = [IF ok THEN CommitDelete(c.key) ELSE obj
                     EXCEPT !.faults = Faulted(closes /\ delivers).faults]
          /\ net' = IF ok THEN [net EXCEPT !.out = Append(@, [key |-> c.key, value |-> c.value])]
                    ELSE net
          /\ call' = [call EXCEPT !.left = IF ok /\ delivers THEN Tail(@) ELSE <<>>]
    /\ UNCHANGED work

AdvanceEnd ==
    /\ call.pc = "CLOSE" /\ call.left = <<>>
    /\ obj' = [obj EXCEPT !.advancing = FALSE]
    /\ call' = NoAdvance
    /\ UNCHANGED <<work, net>>

(* flow_keyed_state_store_reset, when a runtime generation begins: nothing *)
(* is being published then, and no watermark advanced.                     *)
Active == {m \in Messages : work[m].pc \in {"GATED", "CALLBACK"}}
Reset ==
    /\ Active = {} /\ call.pc = "IDLE" /\ MayFault(FALSE) /\ obj.entries # [k \in {} |-> 0]
    /\ obj' = [obj EXCEPT !.entries = [k \in {} |-> 0], !.bytes = 0, !.count = 0, !.mark = 0,
                          !.marked = FALSE, !.advancing = FALSE, !.faults = @ + 1]
    /\ work' = [m \in Messages |-> IF work[m].pc = "NEW" THEN Idle
                                   ELSE [Idle EXCEPT !.pc = "DONE", !.status = "RESET"]]
    /\ net' = [out |-> <<>>, dropped |-> {}]
    /\ UNCHANGED call

Next ==
    \/ \E m \in Messages :
          \/ \E k \in Keys, ts \in Times : Enter(m, k, ts)
          \/ Snapshot(m) \/ KeyedPut(m) \/ KeyedDelete(m) \/ CallbackFails(m) \/ Commit(m)
    \/ \E mark \in Watermarks : AdvanceBegin(mark)
    \/ Scan \/ AdvanceEnd \/ Reset
    \/ \E closes, delivers \in BOOLEAN : (closes \/ delivers) /\ CloseCandidate(closes, delivers)

Spec == Init /\ [][Next]_vars

-----------------------------------------------------------------------------
Aggregates == {k \in DOMAIN obj.entries : obj.entries[k].present}
Holding(m) == {k \in Aggregates : m \in obj.entries[k].value}
Emitted(m) == {i \in DOMAIN net.out : m \in net.out[i].value}

(* A message whose callback answered OK after changing its key is in one   *)
(* aggregate or in one result (emitted, or dropped by a window's callback  *)
(* that deletes it), and a message that was refused is in neither: no concurrent callback of the   *)
(* same key, and no watermark, loses it or counts it twice.                *)
CountedOnce ==
    \A m \in Messages :
        Cardinality(Holding(m)) + Cardinality(Emitted(m)) + Cardinality(net.dropped \cap {m}) =
            IF work[m].pc = "DONE" /\ work[m].status = "OK" THEN 1 ELSE 0

(* A window is emitted once in a generation, and none that the watermark   *)
(* closed gains a message afterwards: an aggregate that is still there     *)
(* with its window closed is the one whose close is due or failed.         *)
WindowsCloseOnce ==
    EventTime =>
        /\ \A i, j \in DOMAIN net.out : i # j => net.out[i].key # net.out[j].key
        /\ \A i \in DOMAIN net.out :
              net.out[i].key \notin Aggregates /\ CloseAt(net.out[i].key[1]) <= obj.mark
        /\ \A i \in DOMAIN call.left :
              LET c == call.left[i]
              IN c.key \in Aggregates /\ obj.entries[c.key].value = c.value

(* The store's counters are those of its contents and stay within its      *)
(* bounds; the slots of deleted keys count against them.                   *)
StoreAccounted ==
    /\ obj.count = Cardinality(Aggregates)
    /\ obj.bytes = Cardinality(DOMAIN obj.entries)
                     + MapThenSumSet(LAMBDA k : Cardinality(obj.entries[k].value), DOMAIN obj.entries)
    /\ obj.bytes <= obj.config.bytes
    /\ Cardinality(DOMAIN obj.entries) <= obj.config.entries
=================================================================================
