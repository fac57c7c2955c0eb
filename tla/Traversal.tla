------------------------------ MODULE Traversal ------------------------------
(***************************************************************************)
(* One run of a message through the graph: flow_run_message_from_stage in  *)
(* turbo_flow/src/flow_runtime.c and the release of stages in              *)
(* flow_completion.c.                                                      *)
(*                                                                         *)
(* A run marks the stages it can reach up to the next buffers, counts the  *)
(* edges between them, and completes its origin.  Completing a stage       *)
(* settles its outgoing edges one by one; a stage whose last edge has been *)
(* settled is dispatched if one of them was active, and is skipped with    *)
(* everything only it leads to otherwise.  Chains of pure stages that the  *)
(* plan has fused into one CFlow region are executed at once.              *)
(***************************************************************************)
EXTENDS Integers, Sequences, FiniteSets, FiniteSetsExt

CONSTANTS
    Stages,        \* the stages in a topological order; 1 is the source
    Plans          \* graphs: [edges, buffers, ports, emitting, async, pure]

VARIABLES
    plan,          \* the compiled graph
    origin,        \* the stage the run starts from
    phase,         \* "MARK", "RELEASE", "LOOP" or "END"
    worklist,      \* of flow_mark_execution_region_from_stage
    reachable,     \* stages of the run
    remaining,     \* stage -> incoming edges not settled yet
    activated,     \* stage -> incoming edges found active
    done,          \* stages that are through
    queue,         \* stages ready to be dispatched
    skipped,       \* stages whose outgoing edges are to be settled as inactive
    current,       \* the completion under way: [stage, selected, ok, route, todo]
    rc,            \* "OK" or what the run returns
    dispatched,    \* history: stage -> times it was executed
    admitted,      \* history: buffer -> admissions
    followed          \* history: edges found active

vars == <<plan, origin, phase, worklist, reachable, remaining, activated, done, queue, skipped,
          current, rc, dispatched, admitted, followed>>

fixed == <<plan, origin, worklist, reachable>>

Out(p, s) == {e \in p.edges : e.from = s}

In(p, t) == {e \in p.edges : e.to = t}

(* The stages below each stage. *)
Below(p) ==
    LET below[s \in Stages] == UNION {{e.to} \cup below[e.to] : e \in Out(p, s)} IN below

(***************************************************************************)
(* What the compiler accepts: rejects leave executable stages, one each;   *)
(* every stage is reached from the source; an asynchronous terminal stage  *)
(* ends its path; what lies below an emitting stage has no other way in;   *)
(* a stage that may be fused has one way in and out, and no dynamic route. *)
(***************************************************************************)
(* compile_validate_emitting_operations *)
UnmergedEmission(p) ==
    \A s \in p.emitting \cup p.async, e \in p.edges :
        e.to \in Below(p)[s] => e.from \in {s} \cup Below(p)[s]

Compiles(p) ==
    /\ \A s \in Stages :
         /\ Cardinality({e \in Out(p, s) : e.kind = "REJECT"})
              <= IF s \in {1} \cup p.ports \cup p.buffers THEN 0 ELSE 1
    /\ Stages \ {1} \subseteq Below(p)[1]
    /\ UnmergedEmission(p)
    /\ \A s \in p.pure : /\ Cardinality(In(p, s)) <= 1 /\ Cardinality(Out(p, s)) <= 1
                         /\ \A e \in Out(p, s) : e.kind = "UNCONDITIONAL"

(* flow_assign_candidate_regions: two candidates are joined over an edge that
   is the only way out of the one and into the other. *)
Joined(p, s, t) ==
    /\ {s, t} \subseteq p.pure
    /\ \E e \in p.edges : e.kind = "UNCONDITIONAL" /\ Out(p, s) = {e} /\ In(p, t) = {e}

(* The region that s is the entry of. *)
Region(p, s) ==
    LET chain[m \in Stages] == {m} \cup UNION {chain[t] : t \in {t \in Stages : Joined(p, m, t)}}
    IN  chain[s]

Nothing == [stage |-> 0, selected |-> FALSE, ok |-> TRUE, route |-> 0, todo |-> {}]

Completed(s, selected, ok, route) ==
    [stage |-> s, selected |-> selected, ok |-> ok, route |-> route,
     todo |-> {e \in Out(plan, s) : e.to \in reachable}]

Init ==
    /\ plan \in {p \in Plans : Compiles(p)}
    /\ origin \in {1} \cup plan.emitting \cup plan.async \cup plan.buffers
    /\ phase = "MARK" /\ worklist = {origin} /\ reachable = {origin}
    /\ remaining = [s \in Stages |-> 0] /\ activated = [s \in Stages |-> 0]
    /\ done = {} /\ queue = <<>> /\ skipped = <<>> /\ current = Nothing /\ rc = "OK"
    /\ dispatched = [s \in Stages |-> 0] /\ admitted = [s \in Stages |-> 0] /\ followed = {}

Successors(s) ==
    IF s # origin /\ s \in plan.buffers THEN {} ELSE {e.to : e \in Out(plan, s)}

(* flow_mark_execution_region_from_stage, one stage of its worklist *)
Mark ==
    /\ phase = "MARK" /\ worklist # {}
    /\ LET s == Min(worklist)
           new == Successors(s) \ reachable
       IN  /\ reachable' = reachable \cup new
           /\ worklist' = (worklist \ {s}) \cup new
    /\ UNCHANGED <<plan, origin, phase, remaining, activated, done, queue, skipped, current, rc,
                   dispatched, admitted, followed>>

(* The edges into a stage that the run can settle. *)
Incoming(t) == Cardinality({e \in In(plan, t) : e.from \in reachable})

(* A stage may be refused before anything runs; otherwise the origin completes. *)
Begin ==
    /\ phase = "MARK" /\ worklist = {}
    /\ \/ /\ remaining' = [t \in Stages |-> IF t \in reachable THEN Incoming(t) ELSE 0]
          /\ done' = {origin} /\ phase' = "RELEASE"
          /\ current' = Completed(origin, TRUE, TRUE, 0)
          /\ UNCHANGED rc
       \/ /\ phase' = "END" /\ rc' = "EINVAL"
          /\ UNCHANGED <<remaining, done, current>>
    /\ UNCHANGED <<fixed, activated, queue, skipped, dispatched, admitted, followed>>

(* flow_route_edge_active: what it may find *)
Active(c, e) ==
    CASE ~c.ok -> {e.kind = "REJECT"}
      [] e.kind = "REJECT" -> {FALSE}
      [] c.route # 0 -> {e.to = c.route}
      [] e.kind = "CONDITIONAL" -> {TRUE, FALSE}
      [] OTHER -> {TRUE}

Findings(e) == IF current.selected THEN Active(current, e) ELSE {FALSE}

(* Mutant: the edge settled last decides. *)
SelectedLast(t, active) == active

(* The target of a settled edge has been selected by this edge or an earlier one. *)
Selected(t, active) == active \/ activated[t] > 0

(* Mutant: a stage is ready as soon as one of its edges is active. *)
LastAny(t) == TRUE

(* The edge being settled is the target's last. *)
Last(t) == remaining[t] = 1

(* One edge is settled; the target's last edge decides what becomes of it. *)
ReleaseEdge ==
    /\ phase = "RELEASE"
    /\ \E e \in current.todo : \E active \in Findings(e) :
         LET t == e.to
             ready == Last(t) /\ Selected(t, active)
             passed == Last(t) /\ ~Selected(t, active) /\ t \notin done
         IN  /\ remaining' = [remaining EXCEPT ![t] = @ - 1]
             /\ activated' = [activated EXCEPT ![t] = IF active THEN @ + 1 ELSE @]
             /\ followed' = IF active THEN followed \cup {e} ELSE followed
             /\ current' = [current EXCEPT !.todo = @ \ {e}]
             /\ queue' = IF ready /\ t \notin plan.buffers THEN Append(queue, t) ELSE queue
             /\ admitted' = IF ready /\ t \in plan.buffers
                            THEN [admitted EXCEPT ![t] = @ + 1] ELSE admitted
             /\ skipped' = IF passed THEN Append(skipped, t) ELSE skipped
             /\ done' = IF passed \/ (ready /\ t \in plan.buffers) THEN done \cup {t} ELSE done
    /\ UNCHANGED <<fixed, phase, rc, dispatched>>

(* A predicate cannot be evaluated, or a buffer refuses the record. *)
ReleaseFails ==
    /\ phase = "RELEASE"
    /\ \E e \in current.todo :
         \/ Findings(e) = {TRUE, FALSE} /\ rc' = "EPREDICATE"
         \/ /\ e.to \in plan.buffers /\ Last(e.to)
            /\ \E active \in Findings(e) : Selected(e.to, active)
            /\ rc' = "EBUFFER"
    /\ phase' = "END"
    /\ UNCHANGED <<fixed, remaining, activated, done, queue, skipped, current, dispatched, admitted,
                   followed>>

(* The edges of the next skipped stage are settled as inactive. *)
ReleaseNext ==
    /\ phase = "RELEASE" /\ current.todo = {}
    /\ \/ /\ skipped = <<>>
          /\ current' = Nothing /\ phase' = "LOOP" /\ UNCHANGED skipped
       \/ /\ skipped # <<>>
          /\ current' = Completed(Head(skipped), FALSE, TRUE, 0)
          /\ skipped' = Tail(skipped) /\ UNCHANGED phase
    /\ UNCHANGED <<fixed, remaining, activated, done, queue, rc, dispatched, admitted, followed>>

(***************************************************************************)
(* The loop of flow_run_message_from_stage: one stage of the queue, with   *)
(* flow_dispatch_stage and flow_apply_completion.                          *)
(***************************************************************************)
Dequeue(s) == phase = "LOOP" /\ queue # <<>> /\ s = Head(queue) /\ queue' = Tail(queue)

Execute(members) ==
    /\ dispatched' = [m \in Stages |-> IF m \in members THEN dispatched[m] + 1 ELSE dispatched[m]]
    /\ UNCHANGED <<fixed, remaining, activated, admitted, followed>>

Release(c, members) ==
    /\ current' = c /\ phase' = "RELEASE" /\ done' = done \cup members
    /\ UNCHANGED <<skipped, rc>>

Fail(code) == rc' = code /\ phase' = "END" /\ UNCHANGED <<current, skipped, done>>

(* A failure goes along the reject edge, unless it cannot be recorded in the
   message; without such an edge it ends the run. *)
Failed(s) ==
    \/ /\ \E e \in Out(plan, s) : e.kind = "REJECT"
       /\ Release(Completed(s, TRUE, FALSE, 0), {s})
    \/ Fail("EFAIL")

Ordinary(s) == s \notin plan.pure \cup plan.ports \cup plan.emitting \cup plan.async

(* A stage or a port succeeds. *)
DispatchOk(s) ==
    /\ Dequeue(s) /\ (s \in plan.ports \/ Ordinary(s))
    /\ Release(Completed(s, TRUE, TRUE, 0), {s})
    /\ Execute({s})

(* A stage with data rules names a route, known or not. *)
DispatchRoutes(s) ==
    /\ Dequeue(s) /\ Ordinary(s)
    /\ \/ \E e \in Out(plan, s) : /\ e.kind # "REJECT"
                                  /\ Release(Completed(s, TRUE, TRUE, e.to), {s})
       \/ Fail("EPROTO")
    /\ Execute({s})

(* Its data rules drop the message, or send it to the dead letters. *)
DispatchDrops(s) ==
    /\ Dequeue(s) /\ Ordinary(s)
    /\ Release(Completed(s, FALSE, TRUE, 0), {s})
    /\ Execute({s})

DispatchFails(s) ==
    /\ Dequeue(s) /\ s \notin plan.pure \cup plan.ports
    /\ Failed(s)
    /\ Execute({s})

(* The outputs of an emitting stage have each been run with the stage as their
   origin; for this run the stage is terminal.  An output that fails ends it. *)
DispatchEmits(s) ==
    /\ Dequeue(s) /\ s \in plan.emitting
    /\ Release(Completed(s, FALSE, TRUE, 0), {s}) \/ Fail("EOUTPUT")
    /\ Execute({s})

(* A stage that its adapter completes later: this run releases nothing below it. *)
DispatchAsync(s) ==
    /\ Dequeue(s) /\ s \in plan.async
    /\ done' = done \cup {s}
    /\ Execute({s})
    /\ UNCHANGED <<phase, current, skipped, rc>>

(* The entry of a fused region: all of it runs, then its exit completes. *)
DispatchRegion(s) ==
    /\ Dequeue(s) /\ s \in plan.pure
    /\ LET exit == Max(Region(plan, s))
       IN  \/ Release(Completed(exit, TRUE, TRUE, 0), Region(plan, s))
           \/ /\ rc' = "EREGION" /\ phase' = "END"
              /\ done' = done \cup (Region(plan, s) \ {exit})
              /\ UNCHANGED <<current, skipped>>
    /\ Execute(Region(plan, s))

Dispatch(s) ==
    \/ DispatchOk(s) \/ DispatchRoutes(s) \/ DispatchDrops(s) \/ DispatchFails(s)
    \/ DispatchEmits(s) \/ DispatchAsync(s) \/ DispatchRegion(s)

LoopEnds ==
    /\ phase = "LOOP" /\ queue = <<>>
    /\ phase' = "END"
    /\ UNCHANGED <<fixed, remaining, activated, done, queue, skipped, current, rc, dispatched,
                   admitted, followed>>

Next ==
    \/ Mark \/ Begin \/ ReleaseEdge \/ ReleaseFails \/ ReleaseNext \/ LoopEnds
    \/ \E s \in Stages : Dispatch(s)

Spec == Init /\ [][Next]_vars

-----------------------------------------------------------------------------

(* A stage is queued, executed or fed to a buffer only when all the stages of
   this run that lead to it are through. *)
FanInWaits ==
    \A e \in plan.edges :
        /\ e.from \in reachable
        /\ \/ dispatched[e.to] + admitted[e.to] > 0
           \/ \E i \in DOMAIN queue : queue[i] = e.to
        => e.from \in done

Entries(s) == {e \in followed : s \in Region(plan, e.to)}

(* A run that returns SALTS_OK has executed, or fed to its buffer, exactly the
   stages that an active edge leads to. *)
SelectedRan ==
    phase = "END" /\ rc = "OK" =>
        \A s \in reachable \ {origin} : dispatched[s] + admitted[s] > 0 <=> Entries(s) # {}
=============================================================================
