---------------------------- MODULE FlowRegistry ----------------------------
(***************************************************************************)
(* The registries of a Flow: primitives, operations, modules, operation    *)
(* providers, resources and adapters, and the calls that fill several of   *)
(* them at once and take everything back when a step is refused or memory  *)
(* runs out (turbo_flow/src/flow_core.c, flow_domain.c, and the rule       *)
(* engines' registrations in flow_policy.c and flow_rulesforge.c).         *)
(*                                                                         *)
(* A call under way is a transaction: the registries so far, the status    *)
(* and the number of allocations that still succeed.  Calls are made by    *)
(* one thread.  The scenario fixes which calls a host makes and the stages *)
(* its text declares; a context is handed to at most one live adapter.     *)
(***************************************************************************)
EXTENDS Naturals, FiniteSets, Sequences, SequencesExt

CONSTANTS Scenarios, None, MaxFuel

VARIABLES obj, work, call, net
vars == <<obj, work, call, net>>

Tables == {"primitives", "operations", "modules", "providers", "resources", "adapters"}

\* turbo_flow_create; work keeps the calls that succeeded and still stand, and ever.
Init ==
    /\ work \in {[scenario |-> s, done |-> {}, ever |-> {}] : s \in Scenarios}
    /\ obj = [state |-> "NEW", tables |-> [t \in Tables |-> << >>], stages |-> << >>, bound |-> {},
              retryable |-> FALSE, shut |-> [x \in work.scenario.contexts |-> 0]]
    /\ call = None
    /\ net = None

Frozen(reg) == reg.state \in {"COMPILED", "STARTED"}
Sealed(reg) == reg.state \in {"COMPILED", "STARTED", "STOPPED", "FAILED"}

(* ------------------------------ Transactions --------------------------- *)

Attempts == {[reg |-> obj, rc |-> "OK", fuel |-> f, soft |-> s] : f \in 0 .. MaxFuel, s \in BOOLEAN}

Fail(t, rc) == [t EXCEPT !.rc = rc]
Require(t, holds, rc) == IF t.rc = "OK" /\ ~holds THEN Fail(t, rc) ELSE t

\* flow_set_error: a failed allocation fails the Flow, except in the resource
\* registry and (soft) in the copy of an adapter's schema.
OutOfMemory(t, table) ==
    [t EXCEPT !.rc = "ENOMEM",
              !.reg.state = IF table = "resources" \/ (table = "adapters" /\ t.soft)
                            THEN @ ELSE "FAILED"]

\* flow_registration_commit_ready and the other allocations of a call.
Spend(t, table) ==
    IF t.rc # "OK" THEN t
    ELSE IF t.fuel = 0 THEN OutOfMemory(t, table) ELSE [t EXCEPT !.fuel = @ - 1]

Push(t, table, entry) ==
    IF t.rc # "OK" THEN t ELSE [t EXCEPT !.reg.tables[table] = Append(@, entry)]

Insert(t, refusal, table, entry) ==
    IF t.rc # "OK" THEN t
    ELSE IF refusal # "OK" THEN Fail(t, refusal)
    ELSE Push(Spend(t, table), table, entry)

\* flow_adapter_registration_destroy, flow_operation_provider_registration_destroy:
\* an adapter's shutdown is called with its context, a keyed store is unbound.
Released(reg, table, gone) ==
    [reg EXCEPT !.shut = [x \in DOMAIN @ |->
                             @[x] + Cardinality({i \in DOMAIN gone : /\ table = "adapters"
                                                                     /\ gone[i].ctx = x
                                                                     /\ "shutdown" \in gone[i].ops})],
                !.bound = IF table = "providers" THEN @ \ {gone[i].store : i \in DOMAIN gone} ELSE @]

Truncated(reg, before, table) ==
    LET keep == Len(before.tables[table])
        old == reg.tables[table]
    IN [Released(reg, table, SubSeq(old, keep + 1, Len(old)))
          EXCEPT !.tables[table] = SubSeq(old, 1, keep)]

\* flow_resource_registrations_rollback and the like: back to the sizes before the
\* call, one registry after the other.
Rollback(t, before, tables) ==
    IF t.rc = "OK" THEN t
    ELSE [t EXCEPT !.reg = FoldLeft(LAMBDA reg, table : Truncated(reg, before, table), @, tables)]

(* ------------------- Primitives, operations and modules ---------------- *)

Named(table, name) == \E i \in DOMAIN table : table[i].name = name
Entry(table, name) == table[CHOOSE i \in DOMAIN table : table[i].name = name]

\* turbo_flow_register_primitive
RegisterPrimitive(t, p) ==
    Insert(t, IF Frozen(t.reg) THEN "EBUSY"
              ELSE IF Named(t.reg.tables.primitives, p.name) THEN "EALREADY" ELSE "OK",
           "primitives", p)

\* flow_operation_descriptor_valid; the ranges of its enumerations are left out.
OperationValid(o) ==
    /\ o.flags \cap {"SOURCE", "STAGE"} # {}
    /\ o.scope \in {"RESOURCE_OWNER", "SESSION"} => o.resource # None

\* turbo_flow_register_operation
RegisterOperation(t, o) ==
    Insert(t, IF ~OperationValid(o) THEN "EINVAL"
              ELSE IF Frozen(t.reg) THEN "EBUSY"
              ELSE IF Named(t.reg.tables.operations, o.name) THEN "EALREADY" ELSE "OK",
           "operations", o)

\* flow_find_operation_export_module
Exporters(reg, name) ==
    {i \in DOMAIN reg.tables.modules : name \in ToSet(reg.tables.modules[i].operations)}

\* A requirement of turbo_flow_register_module on a module registered before.
Satisfied(reg, need) ==
    /\ need.min <= Entry(reg.tables.modules, need.name).version
    /\ need.max = 0 \/ Entry(reg.tables.modules, need.name).version <= need.max

\* turbo_flow_register_module
RegisterModule(t, m) ==
    LET reg == t.reg
        exports == ToSet(m.operations)
    IN Insert(t,
              IF Frozen(reg) THEN "EBUSY"
              ELSE IF Named(reg.tables.modules, m.name) THEN "EALREADY"
              ELSE IF \E o \in exports : ~Named(reg.tables.operations, o) THEN "ENOENT"
              ELSE IF \E o \in exports : Exporters(reg, o) # {} THEN "EALREADY"
              ELSE IF \E n \in m.needs : ~Named(reg.tables.modules, n.name) THEN "ENOENT"
              ELSE IF \E n \in m.needs : ~Satisfied(reg, n) THEN "EPROTO" ELSE "OK",
              "modules", m)

\* turbo_flow_register_module_contract: a contract registered before is shared when
\* it is the same; otherwise its missing operations come with the module or not at all.
RegisterModuleContract(t, m, ops) ==
    LET reg == t.reg
        known(o) == Named(reg.tables.operations, o.name)
        missing == SelectSeq(ops, LAMBDA o : ~known(o))
        checked == Require(t, \A o \in ToSet(ops) :
                                 known(o) => Entry(reg.tables.operations, o.name) = o, "EPROTO")
        added == RegisterModule(FoldLeft(RegisterOperation, checked, missing), m)
    IN IF Named(reg.tables.modules, m.name)
       THEN Require(checked, Entry(reg.tables.modules, m.name) = m, "EPROTO")
       ELSE IF \E o \in ToSet(ops) : Exporters(reg, o.name) # {}
       THEN Require(checked, FALSE, "EBUSY")
       ELSE Rollback(added, reg, <<"operations">>)

(* --------------------------- Operation providers ----------------------- *)

Emits(kind) == kind \in {"EMITTING", "KEYED_EMITTING", "WINDOW"}
Keyed(kind) == kind \in {"KEYED", "KEYED_EMITTING", "WINDOW"}

\* The five turbo_flow_register_*_provider entry points check their options.
ProviderValid(p) ==
    /\ p.effects \subseteq (IF p.kind = "EMITTING" THEN {} ELSE {"DYNAMIC_DECISION"})
    /\ Emits(p.kind) => p.outputs > 0 /\ p.mutability = "READONLY"
    /\ p.kind = "KEYED" => p.mutability = "IN_PLACE"
    /\ Keyed(p.kind) = (p.store # None)
    /\ Keyed(p.kind) => (p.kind = "WINDOW") = p.eventTime

Providing(reg, operation, resource) ==
    {i \in DOMAIN reg.tables.providers : /\ reg.tables.providers[i].operation = operation
                                         /\ reg.tables.providers[i].resource = resource}

\* flow_register_operation_provider_impl: a keyed store has one provider; a failed
\* allocation unbinds it.
RegisterOperationProvider(t, p) ==
    LET effects == p.effects \cup (IF Emits(p.kind) THEN {"EMITS"} ELSE {})
        u == Insert(t, IF ~ProviderValid(p) THEN "EINVAL"
                       ELSE IF Frozen(t.reg) THEN "EBUSY"
                       ELSE IF Providing(t.reg, p.operation, p.resource) # {} THEN "EALREADY"
                       ELSE IF p.store \in t.reg.bound THEN "EALREADY" ELSE "OK",
                    "providers", [p EXCEPT !.effects = effects])
    IN IF u.rc = "OK" THEN [u EXCEPT !.reg.bound = @ \cup ({p.store} \ {None})] ELSE u

\* turbo_flow_bind_operation_provider_module
BindProviderModule(t, module, operation, resource) ==
    LET tables == t.reg.tables
        m == Entry(tables.modules, module)
        i == CHOOSE j \in Providing(t.reg, operation, resource) : TRUE
        refusal ==
            IF Frozen(t.reg) THEN "EBUSY"
            ELSE IF ~Named(tables.modules, module) THEN "ENOENT"
            ELSE IF operation \notin ToSet(m.operations) THEN "EPROTO"
            ELSE IF Providing(t.reg, operation, resource) = {} THEN "ENOENT"
            ELSE IF tables.providers[i].module # None THEN "EBUSY"
            ELSE IF resource = None THEN "OK"
            ELSE IF ~Named(tables.primitives, resource) THEN "ENOENT"
            ELSE IF Entry(tables.primitives, resource).type \notin m.types THEN "EPROTO" ELSE "OK"
        u == IF t.rc # "OK" THEN t
             ELSE Spend(Require(t, refusal = "OK", refusal), "providers")
    IN IF u.rc = "OK" THEN [u EXCEPT !.reg.tables.providers[i].module = module] ELSE u

(* ------------------------------- Resources ----------------------------- *)

\* flow_managed_boundary_descriptor_valid
BoundaryValid(b) ==
    /\ b.roles # {}
    /\ b.capabilities \cap {"DEMAND_AWARE", "REPLAYABLE"} # {} => "SOURCE" \in b.roles
    /\ "DURABLE_SETTLEMENT" \in b.capabilities => "SINK" \in b.roles

\* flow_register_resource_provider_impl: owners answer for their metadata, and an
\* identity is registered once.
RegisterResource(t, r) ==
    Insert(t, IF Frozen(t.reg) THEN "EBUSY"
              ELSE IF \E i \in DOMAIN t.reg.tables.resources : t.reg.tables.resources[i].uid = r.uid
              THEN "EALREADY"
              ELSE IF r.boundary # None /\ ~BoundaryValid(r.boundary) THEN "EPROTO" ELSE "OK",
           "resources", r)

(* -------------------------------- Adapters ----------------------------- *)

\* flow_find_adapter: adapters bound to stages are not found by name.
Global(reg, name) ==
    {i \in DOMAIN reg.tables.adapters : /\ ~reg.tables.adapters[i].scoped
                                        /\ reg.tables.adapters[i].name = name}

\* flow_register_adapter_impl
RegisterAdapter(t, a) ==
    Insert(t, IF Frozen(t.reg) THEN "EBUSY"
              ELSE IF ~a.scoped /\ Global(t.reg, a.name) # {} THEN "EALREADY" ELSE "OK",
           "adapters", a)

\* flow_transport_reply_attach: the capability only a source has.
ReplyRefusal(a) ==
    IF "SOURCE" \notin a.roles THEN "EINVAL" ELSE IF "reply" \in a.extra THEN "EALREADY" ELSE "OK"

\* turbo_flow_register_adapter_async_terminal, _async_emit, _settlement.
ExtraRefusal(a, what) ==
    IF what = "reply" THEN ReplyRefusal(a)
    ELSE IF what = "settlement" THEN (IF what \in a.extra THEN "EALREADY" ELSE "OK")
    ELSE IF a.extra \cap {"terminal", "emit"} # {} THEN "EALREADY"
    ELSE IF "consume" \in a.ops THEN "EINVAL" ELSE "OK"

Attach(t, i, what) ==
    LET refusal == ExtraRefusal(t.reg.tables.adapters[i], what)
        u == Require(t, refusal = "OK", refusal)
    IN IF u.rc = "OK" THEN [u EXCEPT !.reg.tables.adapters[i].extra = @ \cup {what}] ELSE u

\* The same by name; turbo_flow_register_adapter_transport_reply closes earlier.
AttachNamed(t, name, what) ==
    LET closed == IF what = "reply" THEN Sealed(t.reg) ELSE Frozen(t.reg)
        u == Require(Require(t, ~closed, "EBUSY"), Global(t.reg, name) # {}, "ENOENT")
    IN IF u.rc = "OK" THEN Attach(u, CHOOSE i \in Global(t.reg, name) : TRUE, what) ELSE u

\* turbo_flow_provider_adapter_transport_reply_register
AttachStage(t, stage) ==
    LET u == Require(Require(t, ~Sealed(t.reg), "EBUSY"),
                     stage \in DOMAIN t.reg.stages /\ t.reg.stages[stage].bound # 0, "ENOENT")
    IN IF u.rc = "OK" THEN Attach(u, t.reg.stages[stage].bound, "reply") ELSE u

\* turbo_flow_register_async_terminal_adapter_ex, turbo_flow_register_async_emit_adapter_ex
RegisterAsyncAdapter(t, a, what) ==
    LET first == Require(t, what = "emit" => "TRANSFORM" \in a.roles, "EINVAL")
        added == RegisterAdapter(first, a)
        ready == IF what = "terminal" THEN Spend(added, "resources") ELSE added
    IN Rollback(IF ready.rc = "OK" THEN AttachNamed(ready, a.name, what) ELSE ready,
                t.reg, <<"adapters">>)

\* turbo_flow_register_adapter_with_resources
RegisterAdapterWithResources(t, a, resources) ==
    Rollback(FoldLeft(RegisterResource, RegisterAdapter(t, a), resources), t.reg,
             <<"resources", "adapters">>)

Staged(a) == [a EXCEPT !.ops = @ \ {"shutdown"}]

\* turbo_flow_register_managed_async_terminal_adapter: the shutdown hook is set last,
\* so that a rollback leaves the context with the caller.
RegisterManagedTerminal(t, a, r) ==
    LET first == Require(Require(t, ~Frozen(t.reg), "EBUSY"), Global(t.reg, a.name) = {}, "EALREADY")
        added == RegisterResource(RegisterAsyncAdapter(first, Staged(a), "terminal"), r)
        done == Rollback(Require(added, r.boundary # None /\ "SINK" \in r.boundary.roles, "EPROTO"),
                         t.reg, <<"resources", "adapters">>)
    IN IF done.rc = "OK"
       THEN [done EXCEPT !.reg.tables.adapters[Len(done.reg.tables.adapters)].ops = a.ops]
       ELSE done

\* turbo_flow_register_managed_source_adapter
RegisterManagedSource(t, a, r) ==
    LET first == Require(Require(t, ~Sealed(t.reg), "EBUSY"), Global(t.reg, a.name) = {}, "EALREADY")
        added == RegisterResource(RegisterAdapter(first, Staged(a)), r)
        done == Rollback(Require(added, r.boundary # None /\ "SOURCE" \in r.boundary.roles, "EPROTO"),
                         t.reg, <<"resources", "adapters">>)
    IN IF done.rc = "OK"
       THEN [done EXCEPT !.reg.tables.adapters[Len(done.reg.tables.adapters)].ops = a.ops,
                         !.reg.tables.adapters[Len(done.reg.tables.adapters)].managed = TRUE]
       ELSE done

\* The stages a provider's adapter is bound to: declared, its own, and still free.
StagesRefusal(reg, a, stages) ==
    IF \E s \in ToSet(stages) : s \notin DOMAIN reg.stages THEN "ENOENT"
    ELSE IF ~IsInjective(stages) THEN "EALREADY"
    ELSE IF \E s \in ToSet(stages) : reg.stages[s].adapter # a.name THEN "EPROTO"
    ELSE IF \E s \in ToSet(stages) : reg.stages[s].bound # 0 THEN "EALREADY" ELSE "OK"

\* turbo_flow_provider_adapter_register; c.resources holds the managed boundary, if any.
RegisterProviderAdapter(t, c) ==
    LET a == c.adapters[1]
        managed == c.resources # << >>
        roles == a.roles \cap {"SOURCE", "SINK"}
        hooks == IF managed \/ c.what = "terminal" THEN Staged(a) ELSE a
        open == Require(t, ~Sealed(t.reg), "EBUSY")
        first == IF open.rc = "OK"
                 THEN Require(open, StagesRefusal(t.reg, a, c.stages) = "OK",
                              StagesRefusal(t.reg, a, c.stages)) ELSE open
        added == RegisterAdapter(first, [hooks EXCEPT !.extra = {c.what} \ {None}])
        bound == IF c.what = "terminal" THEN Spend(added, "resources") ELSE added
        owned == IF managed THEN RegisterResource(Spend(bound, "resources"), c.resources[1])
                 ELSE bound
        done == Rollback(Require(owned, managed => roles \subseteq c.resources[1].boundary.roles,
                                 "EPROTO"), t.reg, <<"resources", "adapters">>)
        index == Len(t.reg.tables.adapters) + 1
    IN IF done.rc # "OK" THEN done
       ELSE [done EXCEPT
               !.reg.tables.adapters[index] =
                   [@ EXCEPT !.ops = a.ops,
                             !.owner = IF managed THEN c.resources[1].owner ELSE None,
                             !.index = IF managed THEN Len(t.reg.tables.resources) + 1 ELSE 0],
               !.reg.stages = [s \in DOMAIN @ |->
                                  IF s \in ToSet(c.stages) THEN [@[s] EXCEPT !.bound = index]
                                  ELSE @[s]]]

\* flow_module_adapter_operation_valid
ExecutableBy(a, o) ==
    /\ o.scope \in {"ADAPTER_OWNER", "RESOURCE_OWNER", "SESSION"}
    /\ \/ "SOURCE" \in o.flags /\ "SOURCE" \in a.roles /\ "start" \in a.ops
       \/ "STAGE" \in o.flags /\ a.roles \cap {"SINK", "TRANSFORM"} # {} /\ "consume" \in a.ops

\* flow_module_adapter_primitive_compatible, on what is registered or comes with the call.
ResourceFits(reg, c, o, name) ==
    LET registered == reg.tables.primitives
        pending == IF Named(registered, name) THEN registered ELSE c.primitives
    IN Named(pending, name) /\ Entry(pending, name).type = o.resource

ModuleAdapterRefusal(reg, c) ==
    LET m == Entry(reg.tables.modules, c.module)
        op(i) == Entry(reg.tables.operations, c.names[i])
        all == DOMAIN c.names
    IN IF ~Named(reg.tables.modules, c.module) THEN "ENOENT"
       ELSE IF \E i \in all : \/ ~Named(reg.tables.operations, c.names[i])
                              \/ Exporters(reg, c.names[i]) = {} THEN "ENOENT"
       ELSE IF \E i \in all : \/ c.names[i] \notin ToSet(m.operations)
                              \/ ~ExecutableBy(c.adapters[1], op(i))
                              \/ op(i).scope = "ADAPTER_OWNER" /\ op(i).resource # None
                              \/ (op(i).resource = None) # (c.bindings[i] = None)
                              \/ op(i).resource # None
                                   /\ \/ op(i).resource \notin m.types
                                      \/ ~ResourceFits(reg, c, op(i), c.bindings[i])
       THEN "EPROTO"
       ELSE IF \E p \in ToSet(c.primitives) : /\ Named(reg.tables.primitives, p.name)
                                              /\ Entry(reg.tables.primitives, p.name) # p
       THEN "EPROTO" ELSE "OK"

\* turbo_flow_register_module_adapter: the adapter comes last, nothing can fail after it.
RegisterModuleAdapter(t, c) ==
    LET refusal == ModuleAdapterRefusal(t.reg, c)
        first == Spend(Require(t, refusal = "OK", refusal), "operations")
        missing == SelectSeq(c.primitives, LAMBDA p : ~Named(t.reg.tables.primitives, p.name))
        owned == FoldLeft(RegisterResource, FoldLeft(RegisterPrimitive, first, missing), c.resources)
        done == Rollback(RegisterAdapter(owned, c.adapters[1]), t.reg, <<"resources", "primitives">>)
    IN IF done.rc = "OK"
       THEN [done EXCEPT !.reg.tables.adapters[Len(done.reg.tables.adapters)].bindings = c.names]
       ELSE done

(* ------------------------- The rule engines' operations ---------------- *)

RuleOperation(name, type) ==
    [name |-> name, version |-> 1, flags |-> {"STAGE"}, scope |-> "RESOURCE_OWNER", resource |-> type]
RuleModule(name, type, operation) ==
    [name |-> name, version |-> 1, operations |-> <<operation>>, types |-> {type}, needs |-> {}]

\* What a registered entry must equal to be shared, or is registered.
Shared(t, table, entry, added) ==
    IF t.rc # "OK" THEN t
    ELSE IF Named(t.reg.tables[table], entry.name)
    THEN Require(t, Entry(t.reg.tables[table], entry.name) = entry, "EPROTO")
    ELSE added

EngineContract(t, resource, operation, module) ==
    LET primitive == Shared(t, "primitives", resource, RegisterPrimitive(t, resource))
        operator == Shared(primitive, "operations", operation, RegisterOperation(primitive, operation))
    IN Shared(operator, "modules", module, RegisterModule(operator, module))

RuleProvider(operation, name, mutability) ==
    [operation |-> operation, resource |-> name, module |-> None, kind |-> "STAGE", store |-> None,
     eventTime |-> FALSE, outputs |-> 0, mutability |-> mutability, effects |-> {"DYNAMIC_DECISION"}]

\* flow_rule_register_apply_contract and flow_rule_register_module_contract
RuleContract(t, name) ==
    EngineContract(t, [name |-> name, type |-> "RuleSet", version |-> 1],
                   RuleOperation("rule.apply", "RuleSet"), RuleModule("rules", "RuleSet", "rule.apply"))

\* turbo_flow_rule_register_data_operation
RegisterRules(t, c) ==
    LET owned == RegisterResource(RuleContract(t, c.name), c.resources[1])
        provided == RegisterOperationProvider(owned, RuleProvider("rule.apply", c.name, "PRIVATE"))
    IN Rollback(BindProviderModule(provided, "rules", "rule.apply", c.name), t.reg,
                <<"providers", "resources", "modules", "primitives", "operations">>)

\* flow_rulesforge_register_apply_contract and flow_rulesforge_register_module_contract
RulesforgeContract(t, name) ==
    EngineContract(t, [name |-> name, type |-> "KnowledgeBase", version |-> 1],
                   RuleOperation("ruleforge.apply", "KnowledgeBase"),
                   RuleModule("ruleforge", "KnowledgeBase", "ruleforge.apply"))

\* flow_rulesforge_register_provider
RegisterRulesforge(t, c) ==
    LET provided == RegisterOperationProvider(RulesforgeContract(t, c.name),
                                              RuleProvider("ruleforge.apply", c.name, "IN_PLACE"))
    IN Rollback(BindProviderModule(provided, "ruleforge", "ruleforge.apply", c.name), t.reg,
                <<"providers", "modules", "primitives", "operations">>)

(* --------------------------------- Actions ----------------------------- *)

\* A host hands a context over once.
Made(kind) ==
    {c \in work.scenario.calls :
        /\ c.kind = kind
        /\ c.adapters # << >> => c \notin work.done /\ obj.shut[c.adapters[1].ctx] = 0}

Finish(c, t) ==
    /\ obj' = t.reg
    /\ work' = IF t.rc = "OK" THEN [work EXCEPT !.done = @ \cup {c}, !.ever = @ \cup {c}] ELSE work
    /\ UNCHANGED <<call, net>>

CallRegisterOperation == \E c \in Made("OPERATION"), t \in Attempts :
    Finish(c, FoldLeft(RegisterOperation, t, c.operations))
CallRegisterContract == \E c \in Made("CONTRACT"), t \in Attempts :
    Finish(c, RegisterModuleContract(t, c.modules[1], c.operations))
CallRegisterProvider == \E c \in Made("PROVIDER"), t \in Attempts :
    Finish(c, RegisterOperationProvider(t, c.providers[1]))
CallRegisterResource == \E c \in Made("RESOURCE"), t \in Attempts :
    Finish(c, RegisterResource(t, c.resources[1]))
CallRegisterAdapter == \E c \in Made("ADAPTER"), t \in Attempts :
    Finish(c, RegisterAdapterWithResources(t, c.adapters[1], c.resources))
CallRegisterAsync == \E c \in Made("ASYNC"), t \in Attempts :
    Finish(c, RegisterAsyncAdapter(t, c.adapters[1], c.what))
CallRegisterManagedTerminal == \E c \in Made("MANAGED_TERMINAL"), t \in Attempts :
    Finish(c, RegisterManagedTerminal(t, c.adapters[1], c.resources[1]))
CallRegisterManagedSource == \E c \in Made("MANAGED_SOURCE"), t \in Attempts :
    Finish(c, RegisterManagedSource(t, c.adapters[1], c.resources[1]))
CallRegisterScoped == \E c \in Made("SCOPED"), t \in Attempts :
    Finish(c, RegisterProviderAdapter(t, c))
CallRegisterModuleAdapter == \E c \in Made("MODULE_ADAPTER"), t \in Attempts :
    Finish(c, RegisterModuleAdapter(t, c))
CallAttach == \E c \in Made("ATTACH"), t \in Attempts :
    Finish(c, AttachNamed(t, c.name, c.what))
CallAttachStage == \E c \in Made("ATTACH_STAGE"), t \in Attempts :
    Finish(c, AttachStage(t, c.name))
CallRegisterRules == \E c \in Made("RULES"), t \in Attempts : Finish(c, RegisterRules(t, c))
CallRegisterRulesforge == \E c \in Made("RULEFORGE"), t \in Attempts :
    Finish(c, RegisterRulesforge(t, c))

\* turbo_flow_parse_string: the stages are new, the provider adapters of the old stay.
Parse(ok) ==
    /\ ~obj.retryable /\ ~Frozen(obj)
    /\ obj' = [obj EXCEPT !.state = IF ok THEN "PARSED" ELSE "FAILED",
                          !.stages = IF ok THEN [s \in DOMAIN work.scenario.stages |->
                                                    [adapter |-> work.scenario.stages[s], bound |-> 0]]
                                     ELSE << >>]
    /\ UNCHANGED <<work, call, net>>

\* turbo_flow_compile: a plan is compiled from PARSED or STOPPED, anything else fails.
Compile(ok) ==
    /\ obj' = [obj EXCEPT !.state = IF ok /\ @ \in {"PARSED", "STOPPED"} THEN "COMPILED" ELSE "FAILED"]
    /\ UNCHANGED <<work, call, net>>

\* turbo_flow_start and turbo_flow_stop, of which the registries see only the state: a
\* start that fails leaves it, unless an adapter does not stop either; an adapter that
\* does not stop leaves FAILED, from where only another stop leads on.
Start(ok) ==
    /\ obj.state \in {"COMPILED", "STOPPED"}
    /\ obj' = [obj EXCEPT !.state = IF ok THEN "STARTED" ELSE "FAILED", !.retryable = ~ok]
    /\ UNCHANGED <<work, call, net>>

Stop(ok) ==
    /\ obj.state = "STARTED" \/ (obj.state = "FAILED" /\ obj.retryable)
    /\ obj' = [obj EXCEPT !.state = IF ok THEN "STOPPED" ELSE "FAILED", !.retryable = ~ok]
    /\ UNCHANGED <<work, call, net>>

\* One adapter of flow_clear_provider_scoped_registrations.
RemoveScoped(reg, i) ==
    LET a == reg.tables.adapters[i]
        owns == /\ a.index \in DOMAIN reg.tables.resources
                /\ reg.tables.resources[a.index].owner = a.owner
    IN IF ~a.scoped THEN reg
       ELSE [Released(reg, "adapters", <<a>>) EXCEPT
               !.tables.adapters = RemoveAt(@, i),
               !.tables.resources = IF owns THEN RemoveAt(@, a.index) ELSE @]

\* flow_clear_provider_scoped_registrations: from the last adapter to the first, so
\* that the indices still to be used stay valid.
ClearScoped(reg) ==
    LET n == Len(reg.tables.adapters)
    IN FoldLeft(RemoveScoped, reg, [j \in 1 .. n |-> n + 1 - j])

\* flow_clear_registry
ClearRegistry(reg) ==
    [Released(reg, "adapters", reg.tables.adapters)
       EXCEPT !.tables = [t \in Tables |-> << >>], !.bound = {}]

\* turbo_flow_reset
Reset(keep) ==
    /\ ~obj.retryable /\ obj.state # "STARTED"
    /\ obj' = [(IF keep THEN ClearScoped(obj) ELSE ClearRegistry(obj))
                 EXCEPT !.state = "NEW", !.stages = << >>]
    /\ work' = [work EXCEPT !.done = IF keep THEN {c \in @ : c.kind \notin {"SCOPED", "ATTACH_STAGE"}}
                                     ELSE {}]
    /\ UNCHANGED <<call, net>>

Next ==
    \/ CallRegisterOperation \/ CallRegisterContract \/ CallRegisterProvider
    \/ CallRegisterResource \/ CallRegisterAdapter \/ CallRegisterAsync
    \/ CallRegisterManagedTerminal \/ CallRegisterManagedSource \/ CallRegisterScoped
    \/ CallRegisterModuleAdapter \/ CallAttach \/ CallAttachStage
    \/ CallRegisterRules \/ CallRegisterRulesforge
    \/ \E ok \in BOOLEAN : Parse(ok) \/ Compile(ok) \/ Reset(ok) \/ Start(ok) \/ Stop(ok)

Spec == Init /\ [][Next]_vars

(* -------------------------------- Properties --------------------------- *)

Key(table, e) ==
    CASE table = "providers" -> <<e.operation, e.resource>>
      [] table = "resources" -> e.uid
      [] table = "adapters" -> e.ctx
      [] OTHER -> e.name

\* A registration that fails leaves nothing behind and takes nothing of another call's
\* away: each registry holds, once, exactly what the calls that succeeded brought
\* (a contract that two calls share included), and a reset that keeps the registry
\* removes exactly the provider adapters and the boundaries they own.
RegistryExact ==
    \A table \in Tables :
       LET held == obj.tables[table]
           promised == UNION {{Key(table, e) : e \in ToSet(c[table])} : c \in work.done}
       IN /\ {Key(table, e) : e \in ToSet(held)} = promised
          /\ Cardinality(promised) = Len(held)

\* Indices and names between the registries lead where the registration meant: a bound
\* provider's module exports its operation and the type of its resource, a provider
\* adapter's boundary is the one it registered, a stage is bound to an adapter of the
\* identity its text names, and a keyed store is bound exactly while a provider has it.
ReferencesResolve ==
    LET tables == obj.tables IN
    /\ \A p \in ToSet(tables.providers) : p.module # None =>
          /\ p.operation \in ToSet(Entry(tables.modules, p.module).operations)
          /\ Entry(tables.primitives, p.resource).type \in Entry(tables.modules, p.module).types
    /\ \A a \in ToSet(tables.adapters) : a.index # 0 =>
          \E c \in work.done : /\ c.kind = "SCOPED" /\ c.adapters[1].ctx = a.ctx
                               /\ tables.resources[a.index].uid = c.resources[1].uid
    /\ \A s \in DOMAIN obj.stages : obj.stages[s].bound # 0 =>
          /\ tables.adapters[obj.stages[s].bound].scoped
          /\ tables.adapters[obj.stages[s].bound].name = obj.stages[s].adapter
    /\ obj.bound = {p.store : p \in ToSet(tables.providers)} \ {None}

\* A context is shut down at most once and never while its adapter is registered; the
\* calls that promise to leave it with the caller on failure (module adapters, managed
\* terminals and sources, provider adapters) shut it down only after they succeeded.
ContextsOwned ==
    /\ \A x \in DOMAIN obj.shut :
          obj.shut[x] + Cardinality({i \in DOMAIN obj.tables.adapters :
                                       obj.tables.adapters[i].ctx = x}) <= 1
    /\ \A c \in work.scenario.calls \ work.ever :
          c.kind \in {"MODULE_ADAPTER", "MANAGED_TERMINAL", "MANAGED_SOURCE", "SCOPED"} =>
             obj.shut[c.adapters[1].ctx] = 0
=============================================================================
