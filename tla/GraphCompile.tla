---------------------------- MODULE GraphCompile ----------------------------
(***************************************************************************)
(* What a Flow does with a parsed graph: turbo_flow_compile validates it    *)
(* pass by pass, flow_build_runtime_plan seals the plan the runtime walks,  *)
(* and a plugin's functions stay loaded through the leases the plan owns    *)
(* (flow_compile.c, flow_plan.c, flow_plan_semantics.c,                     *)
(* flow_cflow_region.c, flow_plugin_operation.c).                           *)
(*                                                                         *)
(* A text is what the parser made of the source, together with what the     *)
(* host registered for the names in it: every stage carries the adapter,    *)
(* the operation and the provider a lookup of its names finds.  A type      *)
(* stands for a domain and a type name; stage 0 is a name nobody declared.  *)
(***************************************************************************)
EXTENDS Naturals, FiniteSets, Sequences, SequencesExt, FiniteSetsExt

CONSTANTS
    Texts,              \* the parsed graphs
    None,
    LastGeneration      \* stands for UINT64_MAX

VARIABLES
    obj,    \* turbo_flow_t: text, state, observer, plugin operations, plan, generation
    work,   \* the calls the host may still make
    call,   \* the last call: what it was, its result, and the pass that refused
    net     \* the plugin leases: pending in the flow, owned by the plan, released

vars == <<obj, work, call, net>>

(* The first refusal of a list of checks, and of the elements of a list. *)
First(checks) ==
    LET hit == SelectSeq(checks, LAMBDA c : c[1]) IN IF hit = << >> THEN "OK" ELSE hit[1][2]
FirstOf(n, Refusal(_)) ==
    LET bad == {i \in 1 .. n : Refusal(i) # "OK"} IN IF bad = {} THEN "OK" ELSE Refusal(Min(bad))

(* Everything a walk over "succ" sees from a stage, in the order of the code's recursion. *)
RECURSIVE Mark(_, _, _)
Mark(succ, seen, s) ==
    IF s \in seen THEN seen
    ELSE FoldLeft(LAMBDA sofar, t : Mark(succ, sofar, t), seen \cup {s}, succ[s])

Stages(p) == DOMAIN p.stages
Edges(p) == DOMAIN p.edges
Into(p, s) == {k \in Edges(p) : p.edges[k].to = s}
OutOf(p, s) == {k \in Edges(p) : p.edges[k].from = s}
Along(p, s, Follows(_)) ==
    LET chosen == SelectSeq(p.edges, LAMBDA e : e.from = s /\ Follows(e))
    IN [k \in DOMAIN chosen |-> chosen[k].to]
Against(p, s, Follows(_)) ==
    LET chosen == SelectSeq(p.edges, LAMBDA e : e.to = s /\ Follows(e))
    IN [k \in DOMAIN chosen |-> chosen[k].from]

IsPort(s) == s.role \in {"INPUT", "OUTPUT"}
Executes(s) == s.role = "STAGE"
Pooled(s) == s.pool # 0
Consumes(a) == a.consume \/ a.async # "NONE"

-----------------------------------------------------------------------------
(* Composite stages: a name's prefix is the composite it was declared in. *)
SameComposite(s, t) == s.path # << >> /\ t.path # << >> /\ Head(s.path) = Head(t.path)
SameDirectComposite(s, t) == s.path # << >> /\ s.path = t.path

(* A composite none of whose ports an outer edge uses is only a template. *)
Inactive(p, i) ==
    /\ p.stages[i].path # << >>
    /\ \A k \in Edges(p) : \/ p.edges[k].internal
                           \/ \A x \in {p.edges[k].from, p.edges[k].to} :
                                 ~SameComposite(p.stages[i], p.stages[x])
Active(p, i) == ~Inactive(p, i)

ValidateSources(p) ==
    IF \E i \in Stages(p) : p.stages[i].role = "SOURCE" THEN "OK" ELSE "EINVAL"

ValidateEdges(p) ==
    FirstOf(Len(p.edges), LAMBDA k :
        LET e == p.edges[k] IN
        First(<<<<e.from = 0 \/ e.to = 0, "EINVAL">>,
                <<e.kind = "CONDITIONAL" /\ e.predicate = "MALFORMED", "EINVAL">>,
                <<e.kind = "CONDITIONAL" /\ e.predicate # "BOOL", "EPROTO">>>>))

ValidateRejectEdges(p) ==
    FirstOf(Len(p.edges), LAMBDA k :
        LET e == p.edges[k]
            again == {j \in Edges(p) : /\ j > k /\ p.edges[j].kind = "REJECT"
                                       /\ \/ p.edges[j].name = e.name
                                          \/ p.edges[j].from = e.from}
        IN IF e.kind # "REJECT" THEN "OK"
           ELSE First(<<<<~Executes(p.stages[e.from]), "EINVAL">>, <<again # {}, "EALREADY">>>>))

ValidateBoundaries(p) ==
    FirstOf(Len(p.edges), LAMBDA k :
        LET e == p.edges[k]
            from == p.stages[e.from]
            to == p.stages[e.to]
        IN IF e.internal
           THEN First(<<<<~SameComposite(from, to), "EINVAL">>,
                        <<from.role = "OUTPUT" /\ SameDirectComposite(from, to), "EINVAL">>,
                        <<to.role = "INPUT" /\ SameDirectComposite(from, to), "EINVAL">>>>)
           ELSE First(<<<<from.path # << >> /\ from.role # "OUTPUT", "EINVAL">>,
                        <<to.path # << >> /\ to.role # "INPUT", "EINVAL">>>>))

(* Backwards from an output port, inside its composite, until an input port. *)
ReachesInput(p, i) ==
    LET inner(s) == Against(p, s, LAMBDA e : e.internal
                                     /\ SameComposite(p.stages[s], p.stages[e.from]))
        back == [s \in Stages(p) |-> IF p.stages[s].role = "INPUT" THEN << >> ELSE inner(s)]
    IN \E s \in Mark(back, {}, i) : p.stages[s].role = "INPUT"

ValidateOutputPorts(p) ==
    FirstOf(Len(p.stages), LAMBDA i :
        IF p.stages[i].role = "OUTPUT" /\ Active(p, i) /\ ~ReachesInput(p, i)
        THEN "EINVAL" ELSE "OK")

ValidateDuplicates(p) ==
    IF \E j, k \in Edges(p) : /\ j < k /\ p.edges[j].from = p.edges[k].from
                              /\ p.edges[j].to = p.edges[k].to /\ p.edges[j].kind = p.edges[k].kind
    THEN "EALREADY" ELSE "OK"

Reachable(p) ==
    LET forth == [s \in Stages(p) |-> Along(p, s, LAMBDA e : TRUE)]
    IN FoldLeft(LAMBDA seen, i : IF p.stages[i].role = "SOURCE" THEN Mark(forth, seen, i) ELSE seen,
                {}, [i \in Stages(p) |-> i])

ValidateReachability(p) ==
    IF \A i \in Stages(p) : i \in Reachable(p) \/ Inactive(p, i) THEN "OK" ELSE "EINVAL"

(* The depth-first search: a stage is open (1) while its successors are visited, then done (2). *)
RECURSIVE Search(_, _, _)
Search(p, v, s) ==
    LET visit(w, t) ==
            IF w.cycle \/ w.state[t] = 2 THEN w
            ELSE IF w.state[t] = 1 THEN [w EXCEPT !.cycle = TRUE]
            ELSE Search(p, w, t)
        after == FoldLeft(visit, [v EXCEPT !.state[s] = 1], Along(p, s, LAMBDA e : TRUE))
    IN IF after.cycle THEN after ELSE [after EXCEPT !.state[s] = 2]

ValidateCycles(p) ==
    LET start == [cycle |-> FALSE, state |-> [s \in Stages(p) |-> 0]]
        next(v, s) == IF v.cycle \/ v.state[s] # 0 THEN v ELSE Search(p, v, s)
    IN IF FoldLeft(next, start, [s \in Stages(p) |-> s]).cycle THEN "EINVAL" ELSE "OK"

(* flow_durable_buffer_resolve_bindings, whose refusals keep the flow's state. *)
ResolveBuffers(p) ==
    FirstOf(Len(p.stages), LAMBDA i :
        LET s == p.stages[i] IN
        IF s.role # "BUFFER" THEN "OK"
        ELSE First(<<<<s.resource \notin p.bindings, "ENOENT">>,
                     <<\E j \in 1 .. i - 1 : /\ p.stages[j].role = "BUFFER"
                                             /\ p.stages[j].resource = s.resource, "EINVAL">>,
                     <<s.resource \in p.stale, "ESTALE">>>>))

-----------------------------------------------------------------------------
(* What executes a stage. *)
Cataloged(s) == s.op.named /\ s.op.module # None
Projects(s) == s.op.named /\ s.op.registered /\ s.op.reflected /\ s.op.lowers
Provided(s) == s.op.named /\ s.provider.present

AdapterChecks(p, i) ==
    LET s == p.stages[i]
        a == s.adapter
        direct == s.exec = "INLINE" /\ ~Pooled(s) /\ ~s.retry /\ ~s.reorder
        onward == \E k \in OutOf(p, i) : p.edges[k].kind # "REJECT"
    IN IF ~a.named THEN << >>
       ELSE <<<<~a.registered, "EINVAL">>,
              <<a.async = "TERMINAL" /\ s.role # "SOURCE" /\ (IsPort(s) \/ ~direct), "ENOTSUP">>,
              <<a.async = "TERMINAL" /\ s.role # "SOURCE" /\ OutOf(p, i) # {}, "EINVAL">>,
              <<a.async = "EMIT" /\ (s.role = "SOURCE" \/ IsPort(s) \/ ~direct), "ENOTSUP">>,
              <<a.async = "EMIT" /\ "TRANSFORM" \notin a.roles, "EINVAL">>,
              <<a.roles # {} /\ s.role = "SOURCE" /\ "SOURCE" \notin a.roles, "EINVAL">>,
              <<a.roles # {} /\ s.role # "SOURCE" /\ ~IsPort(s)
                  /\ a.roles \cap {"SINK", "TRANSFORM"} = {}, "EINVAL">>,
              <<s.role # "SOURCE" /\ ~IsPort(s) /\ "SINK" \in a.roles
                  /\ "TRANSFORM" \notin a.roles /\ onward, "EINVAL">>>>

ModuleChecks(s) ==
    LET a == s.adapter
        bound == a.named /\ ~Provided(s)
    IN IF Cataloged(s)
       THEN <<<<Provided(s) /\ s.provider.module # s.op.module, "EPROTO">>,
              <<bound /\ a.binds # s.op.module, "EPROTO">>,
              <<bound /\ s.op.registered /\ s.op.resource # None /\ ~a.bindsResource, "EPROTO">>,
              <<bound /\ s.role = "SOURCE" /\ ~a.starts, "EPROTO">>,
              <<~bound /\ ~Provided(s) /\ s.op.registered /\ s.op.scope = "ADAPTER_OWNER", "EPROTO">>>>
       ELSE <<<<s.op.named /\ s.op.registered /\ s.op.scope = "ADAPTER_OWNER", "EPROTO">>>>

ValidateRegistrations(p) ==
    FirstOf(Len(p.stages), LAMBDA i :
        LET s == p.stages[i]
            a == s.adapter
        IN IF Inactive(p, i) THEN "OK"
           ELSE First(AdapterChecks(p, i)
                      \o <<<<s.retry /\ ~a.retries, "ENOTSUP">>, <<s.retry /\ Provided(s), "EINVAL">>>>
                      \o ModuleChecks(s)
                      \o <<<<Executes(s) /\ ~Provided(s) /\ ~Consumes(a) /\ ~Projects(s), "EINVAL">>,
                           <<Executes(s) /\ ~Provided(s) /\ Consumes(a) /\ s.exec # "INLINE", "EINVAL">>,
                           <<Executes(s) /\ Provided(s) /\ s.provider.decides
                               /\ s.exec # "INLINE", "EINVAL">>>>))

(* What the pass copies from its provider into a stage. *)
Runs(p, i) == Executes(p.stages[i]) /\ Active(p, i) /\ Provided(p.stages[i])
Mutable(p, i) == Runs(p, i) /\ p.stages[i].provider.mutable
Keyed(p, i) == Runs(p, i) /\ p.stages[i].provider.kind \in {"KEYED", "KEYED_EMIT", "WINDOW"}
AsyncEmits(p, i) == Active(p, i) /\ p.stages[i].adapter.async = "EMIT"
Emits(p, i) ==
    \/ AsyncEmits(p, i)
    \/ Runs(p, i) /\ p.stages[i].provider.kind \in {"EMIT", "KEYED_EMIT", "WINDOW"}
Rejects(p, i) == \E k \in OutOf(p, i) : p.edges[k].kind = "REJECT"

(* The contract of a stage without an operation of its own. *)
CoreOperation(p, i) ==
    LET s == p.stages[i]
        base == [s.op EXCEPT
                    !.registered = TRUE, !.in = None, !.out = IF IsPort(s) THEN None ELSE "Message",
                    !.roles = IF s.role = "SOURCE" THEN {"SOURCE"} ELSE {"STAGE"},
                    !.execs = {"INLINE"}, !.concurrency = "INLINE_LANE", !.authority = "PURE",
                    !.scope = "PRIVATE", !.handoff = "DIRECT", !.backpressure = "NONE",
                    !.error = "PROPAGATE", !.settles = {}]
    IN CASE IsPort(s) -> base
         [] s.role = "SOURCE" ->
              [base EXCEPT !.concurrency = IF s.adapter.named THEN "OWNER_CONTEXT" ELSE @,
                           !.authority = "OWNER_LOCAL"]
         [] s.role = "BUFFER" ->
              [base EXCEPT !.in = "Message", !.scope = "NONE", !.settles = {"COMPLETE"}]
         [] OTHER ->
              [base EXCEPT !.in = "Message", !.concurrency = "OWNER_CONTEXT",
                           !.authority = "OWNER_LOCAL",
                           !.handoff = IF Pooled(s) THEN "BOUNDED" ELSE @,
                           !.backpressure = IF Pooled(s) THEN "BLOCK" ELSE @, !.capacity = s.pool,
                           !.error = IF s.retry THEN "RETRY"
                                     ELSE IF Rejects(p, i) THEN "REJECT" ELSE @,
                           !.settles = IF s.retry THEN {"RETRY"} ELSE @]

Operation(p, i) == IF p.stages[i].op.named THEN p.stages[i].op ELSE CoreOperation(p, i)

ResolveOperations(p) ==
    IF \E i \in Stages(p) : Active(p, i) /\ p.stages[i].op.named /\ ~p.stages[i].op.registered
    THEN "EINVAL" ELSE "OK"

(* A port takes the type of a neighbour: passes over the edges, both directions of
   each, until a pass changes nothing or there were as many as stages. *)
PortPass(p, start) ==
    LET bind(v, port, type) ==
            IF v.rc # "OK" \/ ~IsPort(p.stages[port]) \/ type = None THEN v
            ELSE IF v.types[port].in = None
            THEN [v EXCEPT !.types[port] = [in |-> type, out |-> type], !.changed = TRUE]
            ELSE IF v.types[port].in = type THEN v ELSE [v EXCEPT !.rc = "EINVAL"]
        edge(v, e) ==
            IF Inactive(p, e.from) \/ Inactive(p, e.to) THEN v
            ELSE LET w == bind(v, e.to, v.types[e.from].out) IN bind(w, e.from, w.types[e.to].in)
    IN FoldLeft(edge, [start EXCEPT !.changed = FALSE], p.edges)

RECURSIVE PortPasses(_, _, _)
PortPasses(p, v, n) ==
    IF n = 0 THEN v
    ELSE LET w == PortPass(p, v) IN IF w.rc # "OK" \/ ~w.changed THEN w ELSE PortPasses(p, w, n - 1)

PortTypes(p) ==
    LET own(i) == IF Inactive(p, i) THEN [in |-> None, out |-> None]
                  ELSE [in |-> Operation(p, i).in, out |-> Operation(p, i).out]
    IN PortPasses(p, [rc |-> "OK", changed |-> FALSE, types |-> [i \in Stages(p) |-> own(i)]],
                  Len(p.stages))

ResolvePortTypes(p) ==
    LET resolved == PortTypes(p)
    IN IF resolved.rc # "OK" THEN resolved.rc
       ELSE IF \E i \in Stages(p) : /\ IsPort(p.stages[i]) /\ Active(p, i)
                                    /\ resolved.types[i].in = None
       THEN "EINVAL" ELSE "OK"

-----------------------------------------------------------------------------
(* What a stage's contract asks of the graph around it. *)
OwnerSettlements == {"COMPLETE", "REQUEUE", "DEAD_LETTER", "ACKNOWLEDGE", "CANCELED"}

RuntimeChecks(p, i) ==
    LET s == p.stages[i]
        o == Operation(p, i)
        source == s.role = "SOURCE"
        bounded == o.handoff = "BOUNDED"
    IN IF s.role = "BUFFER" THEN << >>
       ELSE <<<<source /\ o.deadline, "ENOTSUP">>,
              <<s.adapter.async # "NONE" /\ o.deadline, "ENOTSUP">>,
              <<source /\ o.settles # {}, "ENOTSUP">>,
              <<(o.settles \cap OwnerSettlements # {} \/ o.error = "SETTLE")
                  /\ ~s.adapter.settles, "ENOTSUP">>,
              <<bounded /\ (source \/ ~Pooled(s)), "EINVAL">>,
              <<bounded /\ o.capacity # s.pool, "EINVAL">>,
              <<bounded /\ o.backpressure = "DROP_OLDEST", "ENOTSUP">>,
              <<bounded /\ o.backpressure = "NONE", "EINVAL">>,
              <<~bounded /\ Pooled(s), "EINVAL">>,
              <<o.ordered /\ Pooled(s) /\ ~s.reorder, "EINVAL">>,
              <<o.cooperative /\ (source \/ (~Pooled(s) /\ s.exec = "INLINE")), "ENOTSUP">>,
              <<o.error = "REJECT" /\ ~Rejects(p, i), "EINVAL">>,
              <<o.error = "RETRY" /\ ~s.retry, "EINVAL">>,
              <<o.error = "RETRY" /\ "RETRY" \notin o.settles, "EINVAL">>>>

ResourceChecks(p, i) ==
    LET s == p.stages[i]
        o == Operation(p, i)
        known == s.resource \in DOMAIN p.primitives
    IN <<<<o.resource # None /\ s.resource = None, "EINVAL">>,
         <<o.resource # None /\ ~known, "EINVAL">>,
         <<o.resource # None /\ known /\ p.primitives[s.resource].type # o.resource, "EINVAL">>,
         <<o.resource # None /\ known /\ ~p.primitives[s.resource].inRange, "EPROTO">>,
         <<o.resource = None /\ s.resource # None /\ s.role # "BUFFER" /\ ~Provided(s)
             /\ ~s.adapter.scoped, "EINVAL">>>>

ValidateBindings(p) ==
    FirstOf(Len(p.stages), LAMBDA i :
        LET s == p.stages[i]
            o == Operation(p, i)
            source == s.role = "SOURCE"
        IN IF Inactive(p, i) \/ IsPort(s) THEN "OK"
           ELSE First(<<<<(IF source THEN "SOURCE" ELSE "STAGE") \notin o.roles, "EINVAL">>,
                        <<source /\ (o.in # None \/ o.out = None), "EINVAL">>,
                        <<~source /\ o.in = None, "EINVAL">>,
                        <<o.authority = "OWNER_COMMAND" \/ o.management, "EINVAL">>>>
                      \o ResourceChecks(p, i)
                      \o <<<<~source /\ s.role # "BUFFER" /\ s.exec \notin o.execs, "EINVAL">>,
                           <<o.concurrency = "OWNER_CONTEXT" /\ source /\ ~s.adapter.named, "EINVAL">>,
                           <<o.concurrency = "OWNER_CONTEXT" /\ ~source
                               /\ (~Consumes(s.adapter) \/ s.exec # "INLINE"), "EINVAL">>,
                           <<o.concurrency = "POOL" /\ ~source /\ ~Pooled(s)
                               /\ s.exec = "INLINE", "EINVAL">>,
                           <<o.concurrency = "LOCK_FREE_SNAPSHOT"
                               /\ o.authority # "OBSERVE_ONLY", "EINVAL">>>>
                      \o RuntimeChecks(p, i)))

(* Reflected functions compare their own types; the message envelope carries any payload. *)
EdgeTypesAgree(p, types, e) ==
    LET from == p.stages[e.from]
        to == p.stages[e.to]
        reflected(s) == s.op.named /\ s.op.reflected
    IN \/ types[e.from].out = types[e.to].in
       \/ /\ ~(Projects(from) /\ Projects(to))
          /\ \/ reflected(to) /\ types[e.from].out = "Message"
             \/ reflected(from) /\ types[e.to].in = "Message"

ValidateOperationEdges(p) ==
    LET types == PortTypes(p).types IN
    FirstOf(Len(p.edges), LAMBDA k :
        LET e == p.edges[k] IN
        IF Inactive(p, e.from) \/ Inactive(p, e.to) THEN "OK"
        ELSE First(<<<<types[e.from].out = None, "EINVAL">>, <<types[e.to].in = None, "EINVAL">>,
                     <<~EdgeTypesAgree(p, types, e), "EINVAL">>>>))

(* An emitting stage publishes into everything behind it: no other branch may merge there. *)
ValidateEmitting(p) ==
    LET forth == [s \in Stages(p) |-> Along(p, s, LAMBDA e : TRUE)] IN
    FirstOf(Len(p.stages), LAMBDA i :
        LET s == p.stages[i]
            o == Operation(p, i)
            behind == Mark(forth, {}, i)
        IN IF ~Emits(p, i) THEN "OK"
           ELSE First(<<<<s.exec # "INLINE" \/ Pooled(s) \/ s.retry, "ENOTSUP">>,
                        <<~AsyncEmits(p, i)
                            /\ (\/ o.authority \notin {"PURE", "DATA_MUTATION"}
                                \/ o.handoff # "DIRECT" \/ o.settles # {} \/ o.deadline
                                \/ "INLINE" \notin o.execs), "ENOTSUP">>,
                        <<\E k \in Edges(p) : /\ p.edges[k].to # i /\ p.edges[k].to \in behind
                                              /\ p.edges[k].from \notin behind, "ENOTSUP">>>>))

(* The registration has checked the shape of a keyed provider. *)
ValidateKeyed(p) ==
    FirstOf(Len(p.stages), LAMBDA i :
        LET s == p.stages[i]
            o == Operation(p, i)
        IN IF ~Keyed(p, i) THEN "OK"
           ELSE First(<<<<s.exec # "INLINE" \/ Pooled(s) \/ s.retry, "ENOTSUP">>,
                        <<\/ o.scope # "NODE" \/ o.concurrency # "INLINE_LANE"
                          \/ o.authority # "DATA_MUTATION" \/ o.handoff # "DIRECT"
                          \/ o.settles # {} \/ o.deadline \/ "INLINE" \notin o.execs
                          \/ o.error \notin {"PROPAGATE", "REJECT"}, "ENOTSUP">>,
                        <<\E j \in 1 .. i - 1 : /\ Keyed(p, j)
                                                /\ p.stages[j].provider.store = s.provider.store,
                          "EALREADY">>>>))

(* Backwards from an edge into a fan-in, up to a reorder boundary or an earlier fan-in. *)
Unordered(s) == Pooled(s) \/ s.exec = "THREAD"
FanIn(p, s) == Cardinality(Into(p, s)) > 1

ValidateUnorderedFanIn(p) ==
    LET stops(s) == p.stages[s].reorder \/ Unordered(p.stages[s]) \/ FanIn(p, s)
        back == [s \in Stages(p) |-> IF stops(s) THEN << >> ELSE Against(p, s, LAMBDA e : TRUE)]
        unordered(s) == ~p.stages[s].reorder /\ Unordered(p.stages[s])
    IN IF \E k \in Edges(p) : /\ FanIn(p, p.edges[k].to)
                              /\ \E s \in Mark(back, {}, p.edges[k].from) : unordered(s)
       THEN "EINVAL" ELSE "OK"

(* Along every branch of a broadcast, up to a mutable stage or the next fan-in. *)
FanOut(p, s) == Cardinality({k \in OutOf(p, s) : p.edges[k].kind # "REJECT"}) > 1

ValidateFanOut(p) ==
    LET branch == [s \in Stages(p) |-> IF Mutable(p, s) THEN << >>
                                       ELSE Along(p, s, LAMBDA e : ~FanIn(p, e.to))]
    IN IF \E s \in Stages(p) : /\ FanOut(p, s)
                               /\ \E k \in OutOf(p, s) : \E t \in Mark(branch, {}, p.edges[k].to) :
                                     Mutable(p, t)
       THEN "EINVAL" ELSE "OK"

-----------------------------------------------------------------------------
(* flow_build_runtime_plan: the edges sorted by their source in one array, each node
   with its slice of it, an executor per executing stage, and the data segments. *)
Begin(p, s) == Cardinality({k \in Edges(p) : p.edges[k].from < s})
Place(p, k) == Begin(p, p.edges[k].from) + Cardinality({j \in OutOf(p, p.edges[k].from) : j <= k})

Segment(kind, stage, edge, width) == [kind |-> kind, stage |-> stage, edge |-> edge, width |-> width]

Segments(p) ==
    LET width(s) == <<Cardinality(OutOf(p, s)), Cardinality(Into(p, s))>>
        direct == [k \in Edges(p) |-> Segment("DIRECT", p.edges[k].from, k, 1)]
        of(s) == (IF Pooled(p.stages[s]) THEN <<Segment("WORKER_POOL", s, 0, p.stages[s].pool)>> ELSE << >>)
                 \o (IF width(s)[1] > 1 THEN <<Segment("FANOUT", s, 0, width(s)[1])>> ELSE << >>)
                 \o (IF width(s)[2] > 1 THEN <<Segment("FANIN", s, 0, width(s)[2])>> ELSE << >>)
    IN FoldLeft(LAMBDA all, s : all \o of(s), direct, [s \in Stages(p) |-> s])

(* flow_plan_build_semantics: the reflected functions a CFlow region may run. *)
Barred(p, i, observed) ==
    LET s == p.stages[i]
        o == Operation(p, i)
    IN \/ ~o.pure \/ Mutable(p, i) \/ o.authority \in {"DATA_MUTATION", "OWNER_LOCAL", "OWNER_COMMAND"}
       \/ Keyed(p, i) \/ o.scope # "NONE" \/ AsyncEmits(p, i) \/ s.exec # "INLINE" \/ Pooled(s)
       \/ o.handoff # "DIRECT" \/ s.retry \/ o.deadline \/ o.cooperative \/ o.backpressure # "NONE"
       \/ o.error # "PROPAGATE" \/ o.settles # {} \/ (Runs(p, i) /\ s.provider.decides)
       \/ s.adapter.named \/ s.resource # None \/ o.resource # None \/ s.reorder \/ o.ordered
       \/ Cardinality(Into(p, i)) > 1 \/ Cardinality(OutOf(p, i)) > 1
       \/ \E k \in OutOf(p, i) : p.edges[k].kind # "UNCONDITIONAL"
       \/ observed

Lowers(p, observed) ==
    {i \in Stages(p) : Executes(p.stages[i]) /\ Active(p, i) /\ Projects(p.stages[i])
                         /\ ~Barred(p, i, observed)}

(* flow_assign_candidate_regions: candidates joined by the edge between them are one
   region; every stage carries its region's representative. *)
Joins(p, low, e) ==
    /\ e.kind = "UNCONDITIONAL" /\ e.from \in low /\ e.to \in low
    /\ Cardinality(OutOf(p, e.from)) = 1 /\ Cardinality(Into(p, e.to)) = 1
Union(root, a, b) == [x \in DOMAIN root |-> IF root[x] = root[b] THEN root[a] ELSE root[x]]
Regions(p, low, edges) ==
    LET join(root, e) == IF Joins(p, low, e) THEN Union(root, e.from, e.to) ELSE root
        root == FoldLeft(join, [i \in Stages(p) |-> i], edges)
    IN {{i \in low : root[i] = r} : r \in {root[i] : i \in low}}

(* flow_cflow_region_shape: one entry, one exit and a chain between them. *)
Entries(p, r) == {i \in r : \A k \in Into(p, i) : p.edges[k].from \notin r}
Exits(p, r) == {i \in r : \A k \in OutOf(p, i) : p.edges[k].to \notin r}
RegionShape(p, r) ==
    LET before(i) == {k \in Into(p, i) : p.edges[k].from \in r}
        after(i) == {k \in OutOf(p, i) : p.edges[k].to \in r}
    IN First(<<<<\E i \in r : Cardinality(before(i)) > 1 \/ Cardinality(after(i)) > 1, "EPROTO">>,
               <<Cardinality(Entries(p, r)) # 1 \/ Cardinality(Exits(p, r)) # 1, "EPROTO">>>>)

(* flow_cflow_region_compile: the types along the chain meet, and a value leaves it as
   the type it came. *)
RegionRefusal(p, r) ==
    LET type(i) == p.stages[i].op
    IN IF RegionShape(p, r) # "OK" THEN RegionShape(p, r)
       ELSE First(<<<<\E k \in Edges(p) : /\ p.edges[k].from \in r /\ p.edges[k].to \in r
                                          /\ type(p.edges[k].from).out # type(p.edges[k].to).in, "EPROTO">>,
                    <<\E i \in Entries(p, r), j \in Exits(p, r) : type(i).in # type(j).out, "ENOTSUP">>>>)

Candidate(p, observed) ==
    LET edges == [x \in Edges(p) |-> p.edges[CHOOSE k \in Edges(p) : Place(p, k) = x]]
    IN [nodes |-> [s \in Stages(p) |-> [begin |-> Begin(p, s), out |-> Cardinality(OutOf(p, s)),
                                        in |-> Cardinality(Into(p, s))]],
        edges |-> edges, segments |-> Segments(p),
        executors |-> SelectSeq([s \in Stages(p) |-> s], LAMBDA s : Executes(p.stages[s])),
        regions |-> Regions(p, Lowers(p, observed), edges)]

(* flow_verify_compiled_plan: what the runtime relies on without looking again. *)
Inconsistent(p, c) ==
    \E s \in Stages(p) :
        \/ c.nodes[s].begin + c.nodes[s].out > Len(c.edges)
        \/ \E x \in 1 .. c.nodes[s].out : c.edges[c.nodes[s].begin + x].from # s
        \/ Executes(p.stages[s]) # (s \in Range(c.executors))
        \/ Pooled(p.stages[s]) # (\E x \in DOMAIN c.segments :
               c.segments[x].kind = "WORKER_POOL" /\ c.segments[x].stage = s)

(* flow_verify_execution_backends *)
WithoutBackend(p, c) ==
    {s \in Stages(p) : /\ Executes(p.stages[s]) /\ Active(p, s) /\ s \notin UNION c.regions
                       /\ ~Provided(p.stages[s]) /\ ~Consumes(p.stages[s].adapter)}

(* The adapter of every stage is looked up, that of a template's too. *)
BuildPlan(p, observed) ==
    LET c == Candidate(p, observed)
        refused == {RegionRefusal(p, r) : r \in c.regions} \ {"OK"}
    IN First(<<<<\E i \in Stages(p) : p.stages[i].adapter.named /\ ~p.stages[i].adapter.registered, "EPROTO">>,
               <<"EPROTO" \in refused, "EPROTO">>, <<refused # {}, "ENOTSUP">>,
               <<Inconsistent(p, c), "EPROTO">>>>)

-----------------------------------------------------------------------------
(* turbo_flow_compile *)
Passes ==
    <<"SOURCES", "EDGES", "REJECT", "BOUNDARIES", "OUTPUT_PORTS", "DUPLICATES", "REACHABILITY",
      "CYCLES", "BUFFERS", "REGISTRATIONS", "OPERATIONS", "PORT_TYPES", "BINDINGS", "TYPES",
      "EMITTING", "KEYED", "FANIN", "FANOUT", "BUILD", "BACKENDS">>

Pass(name, p, observed) ==
    CASE name = "SOURCES" -> ValidateSources(p)
      [] name = "EDGES" -> ValidateEdges(p)
      [] name = "REJECT" -> ValidateRejectEdges(p)
      [] name = "BOUNDARIES" -> ValidateBoundaries(p)
      [] name = "OUTPUT_PORTS" -> ValidateOutputPorts(p)
      [] name = "DUPLICATES" -> ValidateDuplicates(p)
      [] name = "REACHABILITY" -> ValidateReachability(p)
      [] name = "CYCLES" -> ValidateCycles(p)
      [] name = "BUFFERS" -> ResolveBuffers(p)
      [] name = "REGISTRATIONS" -> ValidateRegistrations(p)
      [] name = "OPERATIONS" -> ResolveOperations(p)
      [] name = "PORT_TYPES" -> ResolvePortTypes(p)
      [] name = "BINDINGS" -> ValidateBindings(p)
      [] name = "TYPES" -> ValidateOperationEdges(p)
      [] name = "EMITTING" -> ValidateEmitting(p)
      [] name = "KEYED" -> ValidateKeyed(p)
      [] name = "FANIN" -> ValidateUnorderedFanIn(p)
      [] name = "FANOUT" -> ValidateFanOut(p)
      [] name = "BUILD" -> BuildPlan(p, observed)
      [] OTHER -> IF WithoutBackend(p, Candidate(p, observed)) = {} THEN "OK" ELSE "ENOTSUP"

Verdict(p, observed) ==
    FoldLeft(LAMBDA v, name : IF v.rc # "OK" THEN v ELSE [rc |-> Pass(name, p, observed), at |-> name],
             [rc |-> "OK", at |-> None], Passes)

(* The operations a plugin brought are registered once they are bound. *)
Bound(p, bound) ==
    [p EXCEPT !.stages = [i \in DOMAIN p.stages |->
        [p.stages[i] EXCEPT !.op.registered = @ \/ \E b \in bound : b.name = p.stages[i].op.name]]]

PluginOperations(p) ==
    {p.stages[i].op.name : i \in {j \in Stages(p) : p.stages[j].op.plugin}}

Return(op, rc, at) == call' = [op |-> op, rc |-> rc, at |-> at]

Init ==
    /\ obj \in {[text |-> t, state |-> "PARSED", observed |-> FALSE, bound |-> {}, plan |-> None,
                 generation |-> 0] : t \in Texts}
    /\ work = obj.text.calls
    /\ call = [op |-> None, rc |-> "OK", at |-> None]
    /\ net = [pending |-> {}, owned |-> {}, released |-> {}]

(* flow_plugin_bind_cflow_function: the lease is staged before the operation is
   registered, and taken back when the registration refuses (the name is known). *)
Bind(name) ==
    /\ obj.state = "PARSED"
    /\ LET lease == 1 + Cardinality(net.pending \cup net.owned \cup net.released) IN
       IF \E b \in obj.bound : b.name = name
       THEN /\ net' = [net EXCEPT !.released = @ \cup {lease}]
            /\ Return("BIND", "EALREADY", None)
            /\ UNCHANGED obj
       ELSE /\ obj' = [obj EXCEPT !.bound = @ \cup {[name |-> name, lease |-> lease]}]
            /\ net' = [net EXCEPT !.pending = @ \cup {lease}]
            /\ Return("BIND", "OK", None)

(* flow_plan_owned_resources_transfer: the new plan takes the pending leases, and destroying the old plan releases its own. *)
Sealed(p) ==
    /\ obj' = [obj EXCEPT !.state = "COMPILED", !.generation = @ + 1,
                          !.plan = Candidate(p, obj.observed)]
    /\ net' = [pending |-> {}, owned |-> net.pending, released |-> net.released \cup net.owned]

(* flow_plan_owned_resources_return_to_flow, then the plan is destroyed. *)
PlanCleared ==
    IF net.pending = {} THEN [net EXCEPT !.pending = net.owned, !.owned = {}]
    ELSE [net EXCEPT !.owned = {}, !.released = @ \cup net.owned]

Compile ==
    LET p == Bound(obj.text, obj.bound)
        verdict == Verdict(p, obj.observed)
        keeps == verdict.at \in {"BUFFERS", "BACKENDS"}
    IN IF obj.state \notin {"PARSED", "STOPPED"}
       THEN /\ obj' = [obj EXCEPT !.state = "FAILED"]
            /\ Return("COMPILE", "EINVAL", "STATE")
            /\ UNCHANGED net
       ELSE IF verdict.rc # "OK"
       THEN /\ obj' = [obj EXCEPT !.state = IF keeps THEN @ ELSE "FAILED"]
            /\ Return("COMPILE", verdict.rc, verdict.at)
            /\ UNCHANGED net
       ELSE IF obj.generation = LastGeneration
       THEN /\ obj' = [obj EXCEPT !.state = "FAILED", !.plan = None]
            /\ net' = [net EXCEPT !.owned = {}, !.released = @ \cup net.owned]
            /\ Return("COMPILE", "ERANGE", "GENERATION")
       ELSE Sealed(p) /\ Return("COMPILE", "OK", None)

(* turbo_flow_start, with every component of the runtime starting (FlowLifecycle has
   the rest), and turbo_flow_stop. *)
Start ==
    LET rc == First(<<<<obj.state \notin {"COMPILED", "STOPPED"} \/ obj.plan = None, "EINVAL">>,
                      <<obj.observed /\ obj.plan # None /\ obj.plan.regions # {}, "EBUSY">>,
                      <<obj.generation = LastGeneration, "ERANGE">>>>)
    IN /\ obj' = IF rc = "OK" THEN [obj EXCEPT !.state = "STARTED", !.generation = @ + 1] ELSE obj
       /\ Return("START", rc, None)
       /\ UNCHANGED net

Stop ==
    /\ obj.state = "STARTED"
    /\ obj' = [obj EXCEPT !.state = "STOPPED"]
    /\ Return("STOP", "OK", None)
    /\ UNCHANGED net

(* turbo_flow_set_observer *)
Observe(observed) ==
    /\ obj.state # "STARTED" /\ observed # obj.observed
    /\ obj' = [obj EXCEPT !.observed = observed]
    /\ Return("OBSERVE", "OK", None)
    /\ UNCHANGED net

(* turbo_flow_parse_string, with the same text, and turbo_flow_reset. *)
Parse ==
    /\ obj.state \notin {"COMPILED", "STARTED"}
    /\ obj' = [obj EXCEPT !.state = "PARSED", !.plan = None]
    /\ net' = PlanCleared
    /\ Return("PARSE", "OK", None)

Reset(keep) ==
    /\ obj.state # "STARTED"
    /\ obj' = [obj EXCEPT !.state = "NEW", !.plan = None, !.bound = IF keep THEN @ ELSE {}]
    /\ net' = LET n == PlanCleared IN
              IF keep THEN n ELSE [n EXCEPT !.pending = {}, !.released = @ \cup n.pending]
    /\ Return("RESET", "OK", None)

Next ==
    /\ work > 0 /\ work' = work - 1
    /\ \/ \E name \in PluginOperations(obj.text) : Bind(name)
       \/ Compile
       \/ Start
       \/ Stop
       \/ \E observed \in BOOLEAN : Observe(observed)
       \/ Parse
       \/ \E keep \in BOOLEAN : Reset(keep)

Spec == Init /\ [][Next]_vars

-----------------------------------------------------------------------------
(* What a walk should find, without a walk: the least set closed under some edges. *)
Closed(p, edges, S) == \A k \in edges : p.edges[k].from \in S => p.edges[k].to \in S
Reach(p, edges, s) ==
    {t \in Stages(p) : \A S \in SUBSET Stages(p) : s \in S /\ Closed(p, edges, S) => t \in S}

Cyclic(p) == \E k \in Edges(p) : p.edges[k].from \in Reach(p, Edges(p), p.edges[k].to)
FromSources(p, edges) ==
    UNION {Reach(p, edges, s) : s \in {i \in Stages(p) : p.stages[i].role = "SOURCE"}}
Orphans(p) == {i \in Stages(p) : Active(p, i) /\ i \notin FromSources(p, Edges(p))}

(* Emitters some message can pass by on its way to a stage they publish into. *)
Bypassed(p) ==
    {i \in Stages(p) :
        /\ Emits(p, i)
        /\ FromSources(p, Edges(p) \ Into(p, i)) \cap (Reach(p, Edges(p), i) \ {i}) # {}}

(* Fan-ins that results without an order come to. *)
Scrambled(p) ==
    LET kept == {k \in Edges(p) : ~p.stages[p.edges[k].to].reorder}
        disordered == UNION {Reach(p, kept, u) : u \in
            {i \in Stages(p) : Unordered(p.stages[i]) /\ ~p.stages[i].reorder}}
    IN {p.edges[k].to : k \in {j \in Edges(p) : FanIn(p, p.edges[j].to) /\ p.edges[j].from \in disordered}}

(* Stages that would write a message another branch of a broadcast is reading. *)
Writers(p) ==
    LET apart == {k \in Edges(p) : ~FanIn(p, p.edges[k].to)}
        branches == UNION {OutOf(p, s) : s \in {i \in Stages(p) : FanOut(p, i)}}
    IN {t \in UNION {Reach(p, apart, p.edges[k].to) : k \in branches} : Mutable(p, t)}

(* The types that meet at a port: those of the stages around the ports it is joined to. *)
Meeting(p, port) ==
    LET live == {k \in Edges(p) : Active(p, p.edges[k].from) /\ Active(p, p.edges[k].to)}
        ports == {k \in live : IsPort(p.stages[p.edges[k].from]) /\ IsPort(p.stages[p.edges[k].to])}
        group == {t \in Stages(p) : \A S \in SUBSET Stages(p) :
                    (port \in S /\ \A k \in ports : (p.edges[k].from \in S) = (p.edges[k].to \in S))
                      => t \in S}
    IN ({Operation(p, p.edges[k].from).out : k \in {j \in live : p.edges[j].to \in group}}
          \cup {Operation(p, p.edges[k].to).in : k \in {j \in live : p.edges[j].from \in group}})
       \ {None}

Untyped(p) ==
    {i \in Stages(p) : IsPort(p.stages[i]) /\ Active(p, i) /\ Cardinality(Meeting(p, i)) # 1}

(* compile_validate_*: a graph that compiles has no cycle and no stage out of reach, every
   port has the one type that meets there, no message overtakes an emitter into what is
   behind it, no unordered results merge, and no branch of a broadcast writes the message. *)
SealedGraphsSound ==
    call.op = "COMPILE" /\ call.rc = "OK" =>
        LET p == Bound(obj.text, obj.bound) IN
        /\ ~Cyclic(p)
        /\ Orphans(p) = {} /\ Untyped(p) = {} /\ Bypassed(p) = {}
        /\ Scrambled(p) = {} /\ Writers(p) = {}

(* The passes refuse only what they are for: the reason they give is there. *)
RefusalsTrue ==
    call.op = "COMPILE" /\ call.rc # "OK" =>
        LET p == Bound(obj.text, obj.bound) IN
        /\ call.at = "CYCLES" => Cyclic(p)
        /\ call.at = "REACHABILITY" => Orphans(p) # {}
        /\ call.at = "PORT_TYPES" => Untyped(p) # {}
        /\ call.at = "EMITTING" =>
              \E i \in Stages(p) : \/ i \in Bypassed(p)
                                   \/ Emits(p, i) /\ ~AsyncEmits(p, i)
                                   \/ Emits(p, i) /\ p.stages[i].exec # "INLINE"
        /\ call.at = "FANIN" => Scrambled(p) # {}
        /\ call.at = "FANOUT" => Writers(p) # {}

(* flow_verify_compiled_plan's "inconsistent" errors are unreachable, but for a template
   that nobody instantiated and that names an adapter nobody registered. *)
PlanNeverInconsistent ==
    call.at = "BUILD" /\ call.rc = "EPROTO" =>
        \E i \in Stages(obj.text) : Inactive(obj.text, i) /\ obj.text.stages[i].adapter.named

(* The sealed plan is the graph: a node's slice of the edge array holds its outgoing
   edges in the order of the text, every executing stage has one executor, and the
   regions are disjoint chains with nothing on them that needs the native runtime. *)
PlanExact ==
    obj.plan # None =>
        LET p == Bound(obj.text, obj.bound)
            plan == obj.plan
            inside(r) == {k \in Edges(p) : p.edges[k].from \in r /\ p.edges[k].to \in r}
        IN /\ \A s \in Stages(p) :
                 SubSeq(plan.edges, plan.nodes[s].begin + 1, plan.nodes[s].begin + plan.nodes[s].out)
                   = SelectSeq(p.edges, LAMBDA e : e.from = s)
           /\ Len(plan.edges) = Len(p.edges)
           /\ Range(plan.executors) = {s \in Stages(p) : Executes(p.stages[s])}
           /\ \A r, q \in plan.regions : r = q \/ r \cap q = {}
           /\ \A r \in plan.regions :
                 /\ Cardinality(inside(r)) = Cardinality(r) - 1
                 /\ \E first \in r : Reach(p, inside(r), first) = r
                 /\ \A i \in r : /\ ~Mutable(p, i) /\ ~Keyed(p, i) /\ ~p.stages[i].adapter.named
                                 /\ ~Unordered(p.stages[i]) /\ ~Rejects(p, i)

(* flow_plan_owned_resource_*: a lease is in one place, and released once at most. *)
LeasesExact ==
    /\ net.pending \cap net.owned = {}
    /\ net.released \cap (net.pending \cup net.owned) = {}
    /\ net.owned # {} => obj.plan # None

(* flow_plan.c, flow_plan_owned_resources_return_to_flow: "The operation registry still
   borrows FunctionDesc/DataDesc/callable code", so the lease of a registered plugin
   operation must not be released while it is registered. *)
LeaseHeld == \A b \in obj.bound : b.lease \notin net.released
=============================================================================
