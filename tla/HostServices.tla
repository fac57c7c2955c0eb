---------------------------- MODULE HostServices ----------------------------
(***************************************************************************)
(* The services around the graph: the plugin host and the owners of the    *)
(* CHTTP plugin, the pools that execute stages, keyed state, the TurboDB   *)
(* outbox, the scheduler, peer discovery, the security realm, a Flow's     *)
(* registries, its compiler and its rule engines.  They share no state, so *)
(* a behaviour is one of them: "mechanism" says which, and the other       *)
(* variables are that module's.                                            *)
(***************************************************************************)
EXTENDS Naturals, FiniteSets, Sequences, Functions

CONSTANTS
    Mechanisms,     \* the services of this instance
    None, MaxFaults, MaxTime, SlotCount,
    Plugins, IdOf, Declared, Offers, Snapshots, RegistryCapacity,   \* PluginHost
    PlanStages, Plans,                                              \* ChttpPlugin
    Tasks, Workers, Pools,                                          \* ExecutionPools
    Messages, Stores, Times, Watermarks,                            \* KeyedState
    Records, BytesOf,                                               \* TurboDbOutbox
    Schedules, DueMinutes, Callbacks,                               \* Schedule
    PeerIds, HistoryMax,                                            \* Discovery
    Policies, Requests, Callers,                                    \* SecurityRealm
    RegistryScenarios,                                              \* FlowRegistry
    GraphTexts, LastGeneration,                                     \* GraphCompile
    RulePrograms, RuleMessages, RuleAuthorities                     \* RuleProcessor

VARIABLES mechanism, obj, work, call, net

vars == <<mechanism, obj, work, call, net>>

Host == INSTANCE PluginHost WITH ModuleCapacity <- 2, MaxReferences <- 2
Owners == INSTANCE ChttpPlugin WITH MaxFaults <- 2
Execution == INSTANCE ExecutionPools WITH Capacity <- 1, Lanes <- 2
Keyed == INSTANCE KeyedState WITH Keys <- {1}, MaxRevision <- 3
Outbox == INSTANCE TurboDbOutbox
          WITH DeadLetters <- BOOLEAN, ByteBudget <- 2, MaxDemand <- 3, MaxTokens <- 3
Timer == INSTANCE Schedule WITH MaxStarts <- 2
Peers == INSTANCE Discovery WITH Endpoints <- {1, 2}, MaxVersion <- 2, MaxFaults <- 2
Realm == INSTANCE SecurityRealm WITH MaxTime <- 2, MaxCalls <- 2
Registry == INSTANCE FlowRegistry WITH Scenarios <- RegistryScenarios, MaxFuel <- 6
Compiler == INSTANCE GraphCompile WITH Texts <- GraphTexts
Rules == INSTANCE RuleProcessor
         WITH Programs <- RulePrograms, Lanes <- {"l1", "l2"}, Messages <- RuleMessages,
              Kinds <- {"DATA", "CONTROL", "CUSTOM", "JSON", "DATABIND"},
              Authorities <- RuleAuthorities

Init ==
    /\ mechanism \in Mechanisms
    /\ \/ mechanism = "PLUGIN_HOST" /\ Host!Init
       \/ mechanism = "CHTTP_OWNERS" /\ Owners!Init
       \/ mechanism = "POOLS" /\ Execution!Init
       \/ mechanism = "KEYED_STATE" /\ Keyed!Init
       \/ mechanism = "OUTBOX" /\ Outbox!Init
       \/ mechanism = "SCHEDULE" /\ Timer!Init
       \/ mechanism = "DISCOVERY" /\ Peers!Init
       \/ mechanism = "REALM" /\ Realm!Init
       \/ mechanism = "REGISTRY" /\ Registry!Init
       \/ mechanism = "COMPILER" /\ Compiler!Init
       \/ mechanism = "RULES" /\ Rules!Init

Next ==
    /\ \/ mechanism = "PLUGIN_HOST" /\ Host!Next
       \/ mechanism = "CHTTP_OWNERS" /\ Owners!Next
       \/ mechanism = "POOLS" /\ Execution!Next
       \/ mechanism = "KEYED_STATE" /\ Keyed!Next
       \/ mechanism = "OUTBOX" /\ Outbox!Next
       \/ mechanism = "SCHEDULE" /\ Timer!Next
       \/ mechanism = "DISCOVERY" /\ Peers!Next
       \/ mechanism = "REALM" /\ Realm!Next
       \/ mechanism = "REGISTRY" /\ Registry!Next
       \/ mechanism = "COMPILER" /\ Compiler!Next
       \/ mechanism = "RULES" /\ Rules!Next
    /\ UNCHANGED mechanism

Spec == Init /\ [][Next]_vars

(* Lifetimes.  The code behind a catalog entry or a plugin's owner stays
   mapped while someone may call it, a flow outlives its traffic, a task and
   the pool's record of it outlive the thread that works on it, a stopped
   schedule is left by its callbacks, nobody reads a freed policy, and an
   adapter's context is shut down once, after its registration succeeded. *)
UsersOutlived ==
    /\ mechanism = "PLUGIN_HOST" => Host!CatalogCodeMapped
    /\ mechanism = "CHTTP_OWNERS" => Owners!OwnersKeepPluginLoaded /\ Owners!FlowOutlivesTraffic
    /\ mechanism = "POOLS" => Execution!TaskLifetimes
    /\ mechanism = "SCHEDULE" => Timer!QuietAfterStop
    /\ mechanism = "REALM" => Realm!SnapshotsHeld
    /\ mechanism = "REGISTRY" => Registry!ContextsOwned

(* Accounts.  Every message of a key is counted once and every window closed
   once, the bytes and entries a store, an outbox or a pool reports are those
   in use, a name of the catalog has one meaning, what a peer change
   reserved in the command history is enough to undo it, a Flow's registries
   hold what the calls that succeeded brought, its plan holds the graph it was
   made from and each plugin lease once, and a rule set's budgets and counters
   add up. *)
AccountsExact ==
    /\ mechanism = "PLUGIN_HOST" => Host!CatalogUnambiguous
    /\ mechanism = "POOLS" => Execution!RecordExact
    /\ mechanism = "KEYED_STATE" =>
          Keyed!CountedOnce /\ Keyed!WindowsCloseOnce /\ Keyed!StoreAccounted
    /\ mechanism = "OUTBOX" => Outbox!ClaimsAccounted
    /\ mechanism = "DISCOVERY" => Peers!ReservationSuffices
    /\ mechanism = "REGISTRY" => Registry!RegistryExact /\ Registry!ReferencesResolve
    /\ mechanism = "COMPILER" =>
          Compiler!PlanNeverInconsistent /\ Compiler!PlanExact /\ Compiler!LeasesExact
    /\ mechanism = "RULES" => Rules!BudgetsExact /\ Rules!CountersExact

(* Outcomes.  What is reported happened: a task's status, the settlement of
   an outbox record, a tick of the schedule, the peers a call committed, a
   decision of the realm, which is the one its rules give, a graph that
   compiled or the reason it was refused, and what a rule set or an engine
   says of a message. *)
OutcomesTruthful ==
    /\ mechanism = "POOLS" => Execution!OutcomeTruthful
    /\ mechanism = "OUTBOX" => Outbox!AckTruthful
    /\ mechanism = "SCHEDULE" => Timer!NeverTooOften /\ Timer!CronTicks
    /\ mechanism = "DISCOVERY" => Peers!OwnersAsCommitted
    /\ mechanism = "REALM" => Realm!DecisionsFollowRules
    /\ mechanism = "COMPILER" => Compiler!SealedGraphsSound /\ Compiler!RefusalsTrue
    /\ mechanism = "RULES" => Rules!DecisionFollowsRules /\ Rules!MatchTruthful

(* Versions.  The peers change only with their version, and a realm never
   returns to an older policy, whatever the order in which refreshes end. *)
VersionsOnlyAdvance ==
    [][/\ mechanism = "DISCOVERY" => Peers!VersionedChange
       /\ mechanism = "REALM" => Realm!PolicyNeverOlder]_vars

(* flow_plan.c: "The operation registry still borrows FunctionDesc/DataDesc/callable
   code", so a plugin's lease outlives the registration of its operation. *)
LeasesHeld == mechanism = "COMPILER" => Compiler!LeaseHeld

(***************************************************************************)
(* The instance that is checked, first the parsed graphs that the compiler *)
(* is given.                                                               *)
(***************************************************************************)

(* What a stage may carry, all of it absent. *)
NoAdapter ==
    [named |-> FALSE, registered |-> FALSE, roles |-> {}, consume |-> FALSE, async |-> "NONE",
     retries |-> FALSE, settles |-> FALSE, starts |-> FALSE, scoped |-> FALSE, binds |-> None,
     bindsResource |-> FALSE]
NoOperation ==
    [named |-> FALSE, name |-> None, registered |-> FALSE, plugin |-> FALSE, module |-> None,
     in |-> None, out |-> None, roles |-> {"STAGE"}, execs |-> {"INLINE", "THREAD", "CORO"},
     concurrency |-> "INLINE_LANE", authority |-> "PURE", management |-> FALSE, scope |-> "NONE",
     resource |-> None,
     reflected |-> FALSE, lowers |-> FALSE, pure |-> FALSE, handoff |-> "DIRECT", capacity |-> 2,
     backpressure |-> "NONE", ordered |-> FALSE, cooperative |-> FALSE, error |-> "PROPAGATE",
     settles |-> {}, deadline |-> FALSE]
NoProvider ==
    [present |-> FALSE, module |-> None, mutable |-> FALSE, decides |-> FALSE, kind |-> "STAGE",
     store |-> None]
Bare(role, path) ==
    [role |-> role, path |-> path, exec |-> "INLINE", pool |-> 0, retry |-> FALSE, reorder |-> FALSE,
     resource |-> None, adapter |-> NoAdapter, op |-> NoOperation, provider |-> NoProvider]
Source == Bare("SOURCE", << >>)
Fn(in, out) ==
    [Bare("STAGE", << >>) EXCEPT
        !.op = [NoOperation EXCEPT !.named = TRUE, !.name = "f", !.registered = TRUE,
                                   !.in = in, !.out = out],
        !.provider.present = TRUE]
Plain == Fn("Message", "Message")

To(from, to) ==
    [from |-> from, to |-> to, kind |-> "UNCONDITIONAL", internal |-> FALSE, name |-> None,
     predicate |-> None]
In(from, to) == [To(from, to) EXCEPT !.internal = TRUE]
Reject(from, to, name) == [To(from, to) EXCEPT !.kind = "REJECT", !.name = name]
When(from, to, predicate) == [To(from, to) EXCEPT !.kind = "CONDITIONAL", !.predicate = predicate]
Text(stages, edges, calls) ==
    [stages |-> stages, edges |-> edges, bindings |-> {"b"}, stale |-> {}, primitives |-> << >>,
     calls |-> calls]

(* Every graph over four stages: branches, merges and a cycle, of stages that run on
   threads with and without reordering, write the message, or emit. *)
Casts ==
    {Plain, [Plain EXCEPT !.exec = "THREAD"], [Plain EXCEPT !.exec = "THREAD", !.reorder = TRUE],
     [Plain EXCEPT !.provider.mutable = TRUE], [Plain EXCEPT !.provider.kind = "EMIT"]}
Lasts == {Plain, [Plain EXCEPT !.provider.mutable = TRUE], [Plain EXCEPT !.exec = "THREAD"]}
Branches == <<To(1, 2), To(1, 3), To(2, 3), To(2, 4), To(3, 4), To(4, 2)>>
Subsequence(s, S) ==
    LET keep == SelectSeq([k \in DOMAIN s |-> k], LAMBDA k : k \in S)
    IN [k \in DOMAIN keep |-> s[keep[k]]]
Topologies ==
    {Text(<<Source, a, b, c>>, Subsequence(Branches, {1} \cup S), 1) :
        a \in Casts, b \in Casts, c \in Lasts, S \in SUBSET (2 .. 6)}

(* A composite around one stage, its ports joined, a template nobody uses, and a port
   inside a port, with the edges turned and reversed. *)
Port(role, path) == Bare(role, path)
Inner(in, out) == [Fn(in, out) EXCEPT !.path = <<"c">>]
Unregistered == [Inner("T", "T") EXCEPT !.adapter.named = TRUE]
Composite(inner, sink) ==
    <<Source, Port("INPUT", <<"c">>), inner, Port("OUTPUT", <<"c">>), sink, Port("INPUT", <<"c", "d">>)>>
Wirings ==
    {<<To(1, 2), In(2, 3), In(3, 4), To(4, 5)>>, <<To(1, 2), In(2, 4), To(4, 5)>>,
     <<To(1, 5), In(2, 3), In(3, 4)>>, <<To(1, 2), To(4, 5)>>, <<To(1, 2), In(4, 3), In(3, 2), To(4, 5)>>,
     <<To(1, 2), In(2, 6), In(6, 3), In(3, 4), To(4, 5)>>, <<To(1, 3), In(3, 4), To(4, 5)>>,
     <<To(1, 2), To(2, 3), To(3, 5)>>, <<To(1, 2), In(1, 3), In(3, 4), To(4, 5)>>}
Orders(edges) ==
    LET n == Len(edges) IN
    UNION {{[k \in 1 .. n |-> edges[1 + ((k + r) % n)]], [k \in 1 .. n |-> edges[1 + ((n + r - k) % n)]]} :
              r \in 0 .. n - 1}
Composites ==
    {Text(IF 6 \in {e.to : e \in Range(edges)} THEN Composite(inner, sink)
          ELSE SubSeq(Composite(inner, sink), 1, 5), edges, 1) :
        inner \in {Inner("Message", "Message"), Inner("Message", "T"), Inner("T", "Message"), Unregistered},
        sink \in {Plain, Fn("T", "T")}, edges \in UNION {Orders(w) : w \in Wirings}}

(* A chain of three, the middle one with every adapter and every way to run it. *)
Adapters ==
    {NoAdapter} \cup
    {[NoAdapter EXCEPT !.named = TRUE, !.registered = registered, !.roles = roles, !.consume = TRUE,
                       !.async = async, !.retries = TRUE] :
        registered \in BOOLEAN, roles \in {{}, {"SOURCE"}, {"SINK"}, {"TRANSFORM"}},
        async \in {"NONE", "TERMINAL", "EMIT"}}
Tails == {<< >>, <<To(2, 3)>>, <<To(2, 3), Reject(2, 3, "r")>>}
Chain(stage, tail) ==
    Text(IF tail = << >> THEN <<Source, stage>> ELSE <<Source, stage, Plain>>, <<To(1, 2)>> \o tail, 1)
Adapted ==
    {Chain([Bare("STAGE", << >>) EXCEPT !.adapter = adapter, !.exec = exec, !.pool = pool,
                                        !.retry = retry, !.reorder = pool = 2], tail) :
        adapter \in Adapters, exec \in {"INLINE", "THREAD"}, pool \in {0, 2}, retry \in BOOLEAN,
        tail \in Tails}

(* The same with an operation and a provider, and every contract the runtime must serve. *)
Contracted ==
    {Chain([Plain EXCEPT !.op.handoff = handoff, !.op.backpressure = pressure, !.op.ordered = ordered,
                         !.pool = pool, !.exec = exec], <<To(2, 3)>>) :
        handoff \in {"DIRECT", "BOUNDED"}, pressure \in {"NONE", "BLOCK", "DROP_OLDEST"},
        ordered \in BOOLEAN, pool \in {0, 2, 3}, exec \in {"INLINE", "THREAD"}}
      \cup
    {Chain([Plain EXCEPT !.op.error = error, !.op.concurrency = concurrency, !.exec = exec,
                         !.op.registered = error # "RETRY",
                         !.op.settles = IF error = "SETTLE" THEN {"RETRY"} ELSE {}], tail) :
        error \in {"PROPAGATE", "REJECT", "RETRY", "SETTLE"},
        concurrency \in {"INLINE_LANE", "POOL", "OWNER_CONTEXT", "LOCK_FREE_SNAPSHOT"},
        exec \in {"INLINE", "THREAD"}, tail \in Tails}

(* Modules, resources and keyed state. *)
Owned ==
    {[Chain([Plain EXCEPT !.op.module = module, !.provider.module = other, !.op.resource = type,
                          !.resource = resource, !.provider.present = provided, !.op.scope = scope,
                          !.adapter = adapter], <<To(2, 3)>>)
        EXCEPT !.primitives = [r |-> [type |-> "R", inRange |-> TRUE], q |-> [type |-> "R", inRange |-> FALSE]]] :
        module \in {None, "m"}, other \in {None, "m"}, type \in {None, "R"},
        resource \in {None, "r", "q", "z"}, provided \in BOOLEAN, scope \in {"NONE", "ADAPTER_OWNER"},
        adapter \in {NoAdapter} \cup
            {[NoAdapter EXCEPT !.named = TRUE, !.registered = TRUE, !.consume = TRUE,
                               !.binds = "m", !.bindsResource = bound] : bound \in BOOLEAN}}
KeyedFn(store, scope, kind) ==
    [Plain EXCEPT !.op.scope = scope, !.op.authority = "DATA_MUTATION", !.provider.kind = kind,
                  !.provider.store = store, !.provider.mutable = kind = "KEYED"]
KeyedTexts ==
    {Text(<<Source, KeyedFn("s", scope, kind), KeyedFn(store, "NODE", "KEYED")>>, <<To(1, 2), To(2, 3)>>, 1) :
        store \in {"s", "t"}, scope \in {"NODE", "NONE"}, kind \in {"KEYED", "KEYED_EMIT", "WINDOW"}}
(* Commands of an owner, which have no place among the payload's stages. *)
Commands ==
    {Chain([Plain EXCEPT !.op.authority = authority, !.op.management = managed], <<To(2, 3)>>) :
        authority \in {"PURE", "OWNER_COMMAND"}, managed \in BOOLEAN}
Buffer(resource) == [Bare("BUFFER", << >>) EXCEPT !.resource = resource]
Buffered ==
    {[Text(<<Source, Buffer(a), Buffer(b)>>, <<To(1, 2), To(1, 3)>>, 2)
        EXCEPT !.stale = stale, !.bindings = {"a", "b"}] :
        a \in {"a", "z"}, b \in {"a", "b"}, stale \in {{}, {"b"}}}

(* Edges of every kind. *)
EdgeTexts ==
    {Text(<<Source, Plain, Plain, Plain>>, <<To(1, 2), a, b>>, 1) :
        a \in {To(2, 3), When(2, 3, "BOOL"), When(2, 3, "MALFORMED"), When(2, 3, "INT"), To(0, 3),
               Reject(2, 3, "r"), Reject(1, 3, "r")},
        b \in {To(2, 4), To(2, 3), Reject(2, 4, "q"), Reject(2, 4, "r"), To(3, 4)}}
      \cup {Text(<<Plain, Plain>>, <<To(1, 2)>>, 1)}

(* Reflected functions, alone or in chains that a region may run, with an observer
   coming and going. *)
Reflected(in, out, pure, provided) ==
    [Fn(in, out) EXCEPT !.op.reflected = TRUE, !.op.lowers = TRUE, !.op.pure = pure,
                        !.provider.present = provided]
Links ==
    {Reflected("T", "T", pure, provided) : pure \in BOOLEAN, provided \in BOOLEAN}
      \cup {Reflected("T", "U", TRUE, TRUE), Reflected("U", "T", TRUE, TRUE), Plain}
Lowered ==
    {Text(<<Source, c, a, b>>, <<To(3, 4), To(4, 2), To(1, 3)>>, 2) :
        a \in Links, b \in Links, c \in Links}

(* A function of a plugin, through recompilations and resets. *)
Leased ==
    {Text(<<Source, [Reflected("T", "T", TRUE, FALSE) EXCEPT !.op.plugin = TRUE, !.op.registered = FALSE]>>,
          <<To(1, 2)>>, 7)}

MCGraphTexts ==
    Topologies \cup Composites \cup Adapted \cup Contracted \cup Owned \cup Commands \cup KeyedTexts \cup Buffered
      \cup EdgeTexts \cup Lowered \cup Leased

MCMechanisms ==
    {"PLUGIN_HOST", "CHTTP_OWNERS", "POOLS", "KEYED_STATE", "OUTBOX", "SCHEDULE", "DISCOVERY",
     "REALM", "REGISTRY", "COMPILER", "RULES"}

(* Plugin host: libraries 1 and 4 announce the same id, 2 brings an operation with
   its schema, 1 a schema it did not declare, 3 two entries of one registry. *)
MCIdOf == [p \in Plugins |-> IF p = 4 THEN 1 ELSE p]

MCDeclared ==
    [p \in Plugins |-> CASE p = 1 -> {"ADAPTER"} [] p = 2 -> {"OPERATION", "SCHEMA"}
                         [] OTHER -> {"TRANSACTIONAL_ADAPTER"}]

Of(registry, name) == [registry |-> registry, name |-> name]

MCOffers ==
    [p \in Plugins |->
        CASE p = 1 -> {Of("ADAPTER", "x"), Of("SCHEMA", "s")}
          [] p = 2 -> {Of("OPERATION", "s"), Of("SCHEMA", "s")}
          [] OTHER -> {Of("TRANSACTIONAL_ADAPTER", "x"), Of("TRANSACTIONAL_ADAPTER", "y")}]

(* CHTTP owners: every assignment of adapters, resources and roles to the stages. *)
MCPlans ==
    [PlanStages -> [adapter : {"CLIENT", "SERVER"}, resource : {"A", "B"}, source : BOOLEAN]]

(* Pools: every backend, the policies only the ring has. *)
MCPools ==
    [backend : {"DISRUPTOR"}, policy : {"BLOCK", "FAIL", "DROP_NEWEST"}, deadline : BOOLEAN]
      \cup [backend : {"THREAD", "CORO"}, policy : {"FAIL"}, deadline : BOOLEAN]

(* Keyed state: a plain store, and one with windows of two and a lateness. *)
MCStores ==
    {[window |-> w, lateness |-> w, entries |-> 2, value |-> 2, bytes |-> 4] : w \in {0, 2}}

MCBytesOf == [r \in Records |-> r]

(* Schedules: intervals without and with a limit, a single shot, cron with and
   without catching up, driven by timers or by the host. *)
Cron(catchUp, manual) ==
    [mode |-> "CRON", delay |-> 0, limit |-> 0, catchUp |-> catchUp, manual |-> manual]

Every(mode, delay, limit) ==
    [mode |-> mode, delay |-> delay, limit |-> limit, catchUp |-> 0, manual |-> FALSE]

MCSchedules ==
    {Every("INTERVAL", 1, limit) : limit \in 0 .. 2}
      \cup {Every("ONE_SHOT", 2, 0), Cron(0, FALSE), Cron(1, FALSE), Cron(1, TRUE)}

(* Realm: three policies; the second needs the protocol's matcher, the third ends. *)
Rule(effect, kind, subject, match, pattern) ==
    [effect |-> effect, kind |-> kind, subject |-> subject, domain |-> "d", actions |-> {"READ"},
     type |-> "TOPIC", match |-> match, pattern |-> pattern]

MCPolicies ==
    <<[rules |-> <<Rule("ALLOW", "ROLE", "r", "PREFIX", <<"a">>),
                   Rule("DENY", "PRINCIPAL", "p", "EXACT", <<"a", "b">>)>>, expires |-> 0],
      [rules |-> <<Rule("ALLOW", "GROUP", "g", "ADAPTER", <<"a", "+">>)>>, expires |-> 0],
      [rules |-> <<Rule("ALLOW", "ANY", None, "PREFIX", <<"a", "b">>),
                   Rule("ALLOW", "PRINCIPAL", "p", "EXACT", <<"a", "b">>)>>, expires |-> 2]>>

Ask(version, scope, expires) ==
    [principal |-> [id |-> "p", roles |-> {"r"}, groups |-> {"g"}, domain |-> "d",
                    scope |-> scope, expires |-> expires, version |-> version],
     domain |-> "d", action |-> "READ", type |-> "TOPIC", resource |-> <<"a", "b">>]

MCRequests == {Ask(1, "SYSTEM", 2), Ask(2, "SELF", 0), Ask(3, "SELF", 0)}

(* Registries: in each scenario several calls bring the same entries or compete for a
   name, an identity or a store. *)
NoCall ==
    [kind |-> None, name |-> None, what |-> None, stages |-> << >>, names |-> << >>,
     bindings |-> << >>, module |-> None, primitives |-> << >>, operations |-> << >>,
     modules |-> << >>, providers |-> << >>, resources |-> << >>, adapters |-> << >>]
Adapter(ctx, name, roles, ops, scoped) ==
    [ctx |-> ctx, name |-> name, roles |-> roles, ops |-> ops \cup {"shutdown"}, extra |-> {},
     scoped |-> scoped, managed |-> FALSE, owner |-> None, index |-> 0, bindings |-> << >>]
Resource(uid, owner, roles) ==
    [uid |-> uid, owner |-> owner,
     boundary |-> IF roles = {} THEN None ELSE [roles |-> roles, capabilities |-> {}]]
Primitive(name, type) == [name |-> name, type |-> type, version |-> 1]
Operation(name, type) ==
    [name |-> name, version |-> 1, flags |-> {"STAGE"}, resource |-> type,
     scope |-> IF type = None THEN "ADAPTER_OWNER" ELSE "RESOURCE_OWNER"]
Provider(operation, resource, kind, store) ==
    [operation |-> operation, resource |-> resource, module |-> None, kind |-> kind, store |-> store,
     eventTime |-> kind = "WINDOW", outputs |-> 1, effects |-> {},
     mutability |-> IF kind = "WINDOW" THEN "READONLY" ELSE "IN_PLACE"]
Module(name, operations, types, needs) ==
    [name |-> name, version |-> 1, operations |-> operations, types |-> types, needs |-> needs]

Engine(kind, name, type, operation, module, resources) ==
    [NoCall EXCEPT !.kind = kind, !.name = name, !.primitives = <<Primitive(name, type)>>,
                   !.operations = <<Operation(operation, type)>>, !.resources = resources,
                   !.modules = <<Module(module, <<operation>>, {type}, {})>>,
                   !.providers = <<Provider(operation, name, "STAGE", None)>>]
RulesCall(name) ==
    Engine("RULES", name, "RuleSet", "rule.apply", "rules", <<Resource("u1", "u1", {})>>)
Keyed1(name, kind) ==
    [NoCall EXCEPT !.kind = "PROVIDER", !.providers = <<Provider("k", name, kind, "store")>>]

(* Two engines want one primitive name, two rule sets one identity, two providers one store. *)
EngineCalls ==
    {RulesCall("r"), RulesCall("q"), Keyed1("a", "KEYED"), Keyed1("b", "WINDOW"),
     Engine("RULEFORGE", "r", "KnowledgeBase", "ruleforge.apply", "ruleforge", << >>)}

(* A contract whose operation may be there already, one that requires it, an adapter
   of the module, and a resource with the adapter's identity. *)
ContractCalls ==
    {[NoCall EXCEPT !.kind = "OPERATION", !.operations = <<Operation("loop", None)>>],
     [NoCall EXCEPT !.kind = "CONTRACT", !.modules = <<Module("m", <<"loop", "other">>, {"T"}, {})>>,
                    !.operations = <<Operation("loop", None), Operation("other", "T")>>],
     [NoCall EXCEPT !.kind = "CONTRACT", !.operations = <<Operation("late", None)>>,
                    !.modules = <<Module("n", <<"late">>, {}, {[name |-> "m", min |-> 1, max |-> 1]})>>],
     [NoCall EXCEPT !.kind = "MODULE_ADAPTER", !.module = "m", !.names = <<"loop", "other">>,
                    !.bindings = <<None, "p">>, !.primitives = <<Primitive("p", "T")>>,
                    !.resources = <<Resource("u", "o", {})>>,
                    !.adapters = <<Adapter("x", "a", {"SINK"}, {"consume"}, FALSE)>>],
     [NoCall EXCEPT !.kind = "RESOURCE", !.resources = <<Resource("u", "z", {})>>]}

(* Two provider adapters with boundaries, a reply capability, and a managed source
   whose owner has the name of the first. *)
ScopedCalls ==
    {[NoCall EXCEPT !.kind = "SCOPED", !.what = "terminal", !.stages = <<"s1">>,
                    !.adapters = <<Adapter("x", "a", {"SINK"}, {}, TRUE)>>,
                    !.resources = <<Resource("ux", "ox", {"SINK"})>>],
     [NoCall EXCEPT !.kind = "SCOPED", !.stages = <<"s2">>,
                    !.adapters = <<Adapter("y", "b", {"SOURCE"}, {"start"}, TRUE)>>,
                    !.resources = <<Resource("uy", "oy", {"SOURCE"})>>],
     [NoCall EXCEPT !.kind = "ATTACH_STAGE", !.name = "s2"],
     [NoCall EXCEPT !.kind = "MANAGED_SOURCE",
                    !.adapters = <<Adapter("z", "b", {"SOURCE"}, {"start"}, FALSE)>>,
                    !.resources = <<Resource("uz", "ox", {"SOURCE"})>>]}

(* An adapter with two resources, one of them a managed sink's, and two adapters of one name. *)
AdapterCalls ==
    {[NoCall EXCEPT !.kind = "ADAPTER", !.adapters = <<Adapter("x", "a", {"SOURCE"}, {"start"}, FALSE)>>,
                    !.resources = <<Resource("u1", "o", {}), Resource("u2", "o", {})>>],
     [NoCall EXCEPT !.kind = "MANAGED_TERMINAL", !.adapters = <<Adapter("y", "b", {"SINK"}, {}, FALSE)>>,
                    !.resources = <<Resource("u2", "o", {"SINK"})>>],
     [NoCall EXCEPT !.kind = "ASYNC", !.what = "emit",
                    !.adapters = <<Adapter("z", "b", {"TRANSFORM"}, {}, FALSE)>>],
     [NoCall EXCEPT !.kind = "ATTACH", !.name = "a", !.what = "reply"],
     [NoCall EXCEPT !.kind = "ATTACH", !.name = "b", !.what = "settlement"]}

MCRegistryScenarios ==
    {[calls |-> calls, contexts |-> {"x", "y", "z"},
      stages |-> IF calls = ScopedCalls THEN [s1 |-> "a", s2 |-> "b"] ELSE << >>]
        : calls \in {EngineCalls, ContractCalls, ScopedCalls, AdapterCalls}}

(* Rules: programs that overwrite bits, decide twice, exceed a budget in turn. *)
Action(kind, field, key, value, mask, status) ==
    [kind |-> kind, field |-> field, key |-> key, value |-> value, mask |-> mask, status |-> status,
     generation |-> 0, command |-> None, target |-> None]
Typed(value, mask) == Action("MUTATE", "TYPE", None, value, mask, "OK")
Route(key) == Action("ROUTE", None, key, {}, {}, "OK")
Drop == Action("DROP", None, None, {}, {}, "OK")
Propose(generation, target) ==
    [Action("COMMAND", None, None, {}, {}, "OK") EXCEPT
        !.generation = generation, !.command = "QUIESCE", !.target = target]
Program(domain, mode, actions, schema, limits) ==
    [domain |-> domain, mode |-> mode, schema |-> schema,
     rules |-> [i \in DOMAIN actions |->
                  [action |-> actions[i], boolean |-> TRUE, instructions |-> 1, memory |-> 1]],
     limits |-> [instructions |-> limits[1], memory |-> limits[2], actions |-> limits[3],
                 bytes |-> limits[4]]]

MCRulePrograms ==
    {Program("DATA", "ALL_MATCHES",
             <<Typed({"a"}, {"a", "b"}), Typed({"b"}, {"b"}),
               Action("MUTATE", "FLAGS", None, {"a"}, {"a"}, "OK")>>, <<2>>, <<10, 20, 3, 6>>),
     Program("DATA", "ALL_MATCHES",
             <<Route("x"), Drop, Action("DEAD_LETTER", None, None, {}, {}, "EIO")>>, << >>,
             <<10, 20, 3, 6>>),
     Program("DATA", "ALL_MATCHES", <<Route("x"), Route("y")>>, << >>, <<2, 5, 1, 6>>),
     Program("DATA", "FIRST_MATCH", <<Route("x"), Route("y")>>, << >>, <<2, 5, 1, 2>>),
     Program("DATA", "ALL_MATCHES", <<Route("x"), Route("y")>>, <<2, 3>>, <<2, 7, 2, 2>>),
     Program("DATA", "ALL_MATCHES", <<Drop>>, << >>, <<1, 1, 1, 1>>),
     Program("DATA", "ALL_MATCHES", <<Typed({"a"}, {"a", "high"}), Route("x")>>, << >>, <<2, 5, 2, 4>>),
     Program("CONTROL", "ALL_MATCHES", <<Propose(1, "u"), Propose(2, "v")>>, << >>, <<10, 20, 3, 6>>)}

(* A message that an earlier stage routed and flagged. *)
MCRuleMessages ==
    {[type |-> {"b"}, flags |-> {"matched"}, status |-> "OK",
      decision |-> [route |-> "old", batch |-> None, retry |-> None, dropped |-> FALSE, dead |-> None,
                    evaluation |-> "NOT_EVALUATED", count |-> 0]]}

MCRuleAuthorities ==
    {[allowed |-> {"QUIESCE"}, generation |-> 1, target |-> None],
     [allowed |-> {"QUIESCE"}, generation |-> 2, target |-> "u"]}
=============================================================================
