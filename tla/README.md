# TurboFlow in TLA+

A verification development kept beside the TurboFlow sources. It models the
parts of the system whose correctness depends on the order in which threads,
callbacks, providers and processes act, checks them with TLC on small instances,
and proves the central results for every instance with TLAPS.

Paths below are relative to the repository. `PROJECT.json` lists, under `map`,
the definitions that have source lines of their own and the lines they stand
for; a definition that only names a part of a mapped one's lines is covered by
that entry.

## 1. The system

TurboFlow compiles a `.flow` Graph into a plan and executes it. Messages enter
through Sources (network, HTTP, protocol codecs, the host's `publish`), cross
stages that run inline or on worker pools, and leave through Sinks. A *durable
buffer* cuts a Graph in two: the upstream half ends when the message is admitted
into an *Inbox*, and the downstream half is run again and again on claimed
records until each is settled. The Inbox is a provider interface with one
implementation in memory and one in a database (TurboDB).

| Part | State it owns | Operations | Interacts with |
| --- | --- | --- | --- |
| Memory Inbox (`flow_inbox.c`) | slots with records, reservations, counters | admit, claim, complete, fail, retry, discard, forget, scan, close, destroy | callers on any thread |
| TurboDB Inbox (`turbo_flow_turbodb_inbox.c`) | a meta row and record rows; per process a generation, connections, leases, flags | the same, as transactions; open with or without takeover | other processes through the database |
| Inbox driver (`flow_inbox_driver.c`) | one claim, one Graph run, the outcome to settle | request, poll, cancel, retry_settlement, reconcile | Inbox, run |
| Durable buffer (`flow_durable_buffer.c`) | a binding, its workers' drivers, the drain configuration | bind, admit_stage, progress, drain, configure, pause, unbind | drivers, Inbox, lifecycle |
| Flow lifecycle (`flow_runtime.c`, `flow_adapter.c`) | state, gate, number of publications inside, adapters | start, pause, resume, drain, resize, stop, reset | every publisher |
| Runs (`flow_run.c`) | run state, pending values, registry, deadline | open, request, cancel, close, finish | CFlow, lifecycle |
| Message path (`flow_async_*.c`, `flow_reorder.c`, `flow_completion.c`) | byte budget, claims, tickets, edges to settle | publish, offer, complete, pass, release | stages, adapters |
| Executors (`flow_disruptor.c`, `flow_executor.c`, `flow_pool.c`) | rings, lanes, tasks | submit, wait, cancel, stop | publishers |
| Plugins (`flow_plugin*.c`, `flow_provider*.c`) | libraries, generations, owners, leases | load, materialize, poll, retire | everything that holds a lease |
| Adapters (`io/`, `ingress/`) | connections, sessions, requests, replies | open, request, poll, reply, stop | network libraries |
| Control plane (`flow_compile.c`, `flow_plan.c`, `flow_core.c`, `flow_policy.c`, `flow_security.c`, `flow_discovery.c`, `flow_schedule.c`) | registries, plans, rules, policies, peers, timers | compile, register, evaluate, refresh, reconcile | host |

What makes these parts hard:

- `admit` of the memory Inbox works in two critical sections with an unlocked
  copy in between, so a second admission, a close or a failure falls into the gap;
- a settlement may be recorded although its answer is an error, and the driver
  has to find out later, when operators may have moved the record on;
- a process may die between any two statements and another may take the database
  over while the old one still has transactions open;
- resizes, stops and retirements are many steps, fail half-way, are retried, and
  must never pull anything away from a thread that is still inside;
- several threads may be the last to hold a publication, a reply or a task;
- limits are everywhere: records, bytes, claims, connections, 64-bit counters.

The hazards, each at the line where it bites and with the properties that would
catch it, are listed in `PROJECT.json` under `hazards`.

## 2. How the modules fit together

```
            InboxContract   what every Inbox provider promises
           /      |      \
   Inbox  TurboDbInbox   InboxDriver, DurableBuffer
   implement it          are built on it

            FlowAdmission   the gate every publication passes
           /      |      \
  FlowLifecycle FlowRuns AsyncIngress

  GraphExecution    AsyncIngress, AsyncPublication, Reorder, Traversal,
                    FlowRuns, DurableBuffer
  NetworkAdapters   CNetStreamSink, CNetDatagramSink, CNetPacketSink,
                    CNetStreamSource, CNetListenerSource, CNetPacketSource,
                    ChttpClient, ChttpServer, ChttpWebsocket,
                    TypedConfig, ProtocolIntake
  HostServices      PluginHost, ChttpPlugin, ExecutionPools, KeyedState,
                    TurboDbOutbox, Schedule, Discovery, SecurityRealm,
                    FlowRegistry, GraphCompile, RuleProcessor
  PluginGeneration  a generation with the owners of the CNet plugin
```

`InboxContract` is a ledger that says of every record id how far its record has
come. `Inbox` and `TurboDbInbox` are shown to implement it by a refinement
mapping, so what is checked on top of the contract holds for both providers.
`InboxDriver` takes the contract's actions as its provider calls and models one
claim in detail (lost answers, fencing, two-scan reconciliation);
`DurableBuffer` uses drivers whose settlement is one step, and looks at the
scheduler above them.

`FlowAdmission` has the state and the critical sections of the Flow's gate and no
behaviour of its own. The three modules above it each add actors that compete
for the gate: lifecycle commands, runs, asynchronous publishers. Stop is in all
three, each time with the waits that concern the module.

The last four names are specifications that TLC runs. `GraphExecution`,
`NetworkAdapters` and `HostServices` put components side by side that share no
state: the variable `mechanism` says which one a behaviour is about, and the
others stay off. A property of such a module says what it demands of each
component. They, and the modules that are run directly, end with the definitions
of the checked instance (`MC...`).

## 3. The modules

### Inbox: the in-memory provider

State: `phase`, `recordId`, `offer`, `claimToken`, `failure`, `terminal` per slot,
`reserved` slots, the counters of `flow_inbox_memory_t` under their own names, and
per caller the `window` it is in between the two sections of `admit`. Each
operation is one action, since one mutex protects it; `admit` is `AdmitReturn`
(replays and refusals), `AdmitReserve` (first section), `AdmitCopyFails`,
`AdmitLoses` and `AdmitPublish` (second section). A record is what the provider
compares: the identity `adm`, the partition `key`, the `body`, and the size in
bytes. `U64Max` stands for `UINT64_MAX` and is 3 in the run, so that ids, tokens
and tallies do run out.

Properties: stored identities are unique (`OneRecordPerAdmission`), a receipt
names the record with the caller's content (`ReceiptsHold`), counters and bytes
agree with the slots (`CountersAgree`, `BytesAgree`), claims follow admission order
within a partition (`PartitionFifo`), and the slots implement the ledger
(`ImplementsContract`: among other things, a stale claim settles nothing, nothing
is admitted after close, and no id returns).

### TurboDbInbox: the database provider

The meta row and the record rows survive a process; `process` holds each
process's generation and flags, `active` its leases and `thread` the operation
each thread is in. Transactions are SERIALIZABLE in the code and therefore one
step at commit, with the generation check of each statement as part of it;
taking a connection, reserving a lease and reading `accepting` are steps of their
own. `Crash` may fall between any two steps, and any statement or commit may fail; a
commit that reports a failure is taken not to have happened, an assumption about the
database driver. A settlement that fails reads the generation once more, to see whether
its owner was replaced. `Does` says which operations a thread calls.

Properties: the consistency scan of the next open succeeds in every reachable
database (`PreflightPasses`), a replaced owner commits nothing
(`OnlyCurrentOwnerWrites`), the leases of the open owner agree with the CLAIMED rows
up to operations in flight (`LeasesAreClaims`), and the provider implements the same
contract, with the oldest record of a partition claimed first and a claimed record
settled only by the caller that holds its claim (`ImplementsContract`). A settlement is
guarded three times over, by the lease table, by the generation of the meta row and by
generation and token of the claim; the model shows that the token alone could be left
out without a stale caller getting through.

### InboxDriver: one claim from request to settlement

Drivers belong to an owner process (`HostOf`); the provider answers to the current
`owner`. A settlement is a step of its own with five outcomes: recorded, recorded
but reported as an error, not recorded, no longer current (EALREADY), fenced
(ECANCELED). Reconciliation is two scans with anything in between. The history
variables `outcome` and `report` remember what the provider made of a claim and
what the driver said about it.

Properties: nothing of a run executes once its claim is settled
(`NoRunAfterSettlement`), a driver never reports a settlement that did not happen
(`ReportsTrue`), every claim of the current owner is held by a driver that can still
settle it (`ClaimsAreHeld`), and every claim is settled in the end (`ClaimsSettle`).

### FlowLifecycle: start, pause, resume, drain, resize, stop, reset

The host's thread issues the configuration commands one after the other; further
threads pause, resume, drain and stop at any time. `pc` is the step a thread's
command is in: what the code does under `runtime_mutex` is one step, and waits,
adapter callbacks and the building of pools are steps in between that may fail.

Properties: no pool is torn down under a publisher (`PublishersKeepTheirPools`), the
gate is open or paused as last commanded, also across the unlocked part of a resize,
except that a resize whose drain times out leaves the flow paused until somebody
resumes it (`GateAsCommanded`), every adapter that is on can be reached by a
later stop (`AdaptersAccounted`), and a command that was begun returns once the gate
is closed (`CommandsReturn`; a drain or resize waits, as documented, while a managed
source keeps its run open).

### GraphExecution: what happens to a message

- `AsyncIngress`: `turbo_flow_publish_async` from the gate through the byte budget, the
  pool, the queue and the worker to the completion; stop takes the pool away between
  any two steps (`BudgetExact`).
- `AsyncPublication`: one message whose stages adapters complete later, on any thread,
  also before submit has returned, with outputs that run the graph again
  (`PublicationEndsOnce`: freed once and by its last holder, answered with its first
  error).
- `Reorder`: the tickets runs take, use and give back at reorder boundaries, while stop
  closes one boundary after the other under runs that wait or arrive (`TicketsInOrder`).
- `Traversal`: one call of `flow_run_message_from_stage` on every small graph and with
  every outcome of every stage (`TraversalExact`: a stage runs when all that lead to it
  are through, and a run that returns SALTS_OK has executed exactly the selected ones).
- `FlowRuns`: subscriptions and everything that ends them. CFlow, which delivers, is
  external: cancel asks a subscription to stop, close waits for the value being
  delivered. A run is opened through the gate, or, for the record a buffer's drain has
  claimed, also while the gate is paused (`OpenDrains`). A managed value passes the gate
  (`ValueEnters`) and is counted (`ValueTracked`) in two steps. `SubscribeFailsWhen` says
  when CFlow may refuse a subscription: before the run has ended ("NO"), after ("DONE"),
  or while stop has the run in its hands ("PICKED"). Properties: `active_publishes` is exactly what
  runs owe (`ActiveExact`), stop goes on only when no value is in the graph
  (`StopWaitsForValues`), a retirement that reports quiet left no managed value in the
  graph (`RetireQuiet`).
- `DurableBuffer`: one host thread makes the calls, as the header requires; a pass is one
  step per provider call, and admissions and ends of runs fall in between. A publisher
  chooses the key of its record in one step (`EncodeRecord`) and offers the record in
  another; configure_drain looks at the backlog in one and assigns in another, and nothing
  orders the two pairs. No two workers hold records of one partition
  (`PartitionExclusive`), a drain that says OK on a closed Inbox left nothing
  (`DrainOkIsFinal`), and a reconfiguration never leaves a stored record with a key of the
  other policy, except one whose admission overlapped it (`OneKeyPolicy`). A drain's look at
  its workers and its snapshot of the Inbox are one step, since only the host's thread moves
  a driver; the two fields a publisher reads of the drain configuration are read as one.

### NetworkAdapters: io/cnet, io/chttp, ingress/protocol

The three CNet sinks differ in what is with the network at once (one connection, many
requests, tagged slots), the three sources in who holds back (one connection, a round
over accepted ones, a bounded queue). `ChttpClient` has request slots, retries and
deadlines, `ChttpServer` and `ChttpWebsocket` slots that are reused while threads still
know them. The WebSocket server's
admission is switched by several threads at once, and its sessions are drained by each.
`ProtocolIntake` is the owner that polls a source, feeds a codec, admits frames to a
durable buffer and sends replies, and includes the protocol source; a reply that cannot
be sent now waits, one that is refused otherwise is dropped, and stop takes the sink's own
ECANCELED for no error.
`TypedConfig` computes the checks a plugin makes of a configuration and those its
adapter makes when it opens, for both plugins.

Properties: every claim a sink took is settled exactly once and a stop never frees an
actor under a graph thread (`SinkClaimsSettle`); messages reach the graph in order, none
is lost while the source runs, demand never sleeps, slots are accounted for, frames are
admitted once (`SourceDelivers`); every accepted reply has one terminal, its own
(`RepliesEndOnce`); what preflight accepts opens, but for two gaps named in section 6
(`PreflightPredictsOpen`).

Two facts about CHTTP come from its own documents: it serializes handlers on its owner
thread (`io/chttp/ADR_CHTTP_DEFERRED_SERVER.md:84`), and control calls are serialized by
the caller (`io/chttp/ADR_WEBSOCKET_ADMISSION.md:21`).

### PluginGeneration: creation and retryable retirement

Owners are the sources and sinks of the CNet plugin and one of another provider whose
callbacks fail. Create takes leases, preflights, materializes and starts, and undoes what
it did when a step fails; retirement quiesces, stops the Graph, drains, shuts down,
destroys and releases, one callback per step, and is tried again after a failure.

Properties: nothing that still runs loses its plugin, lease or domain (`OwnersPinned`),
the order of retirement holds over all attempts (`RetiredInOrder`), and a host that keeps
retrying gets the generation freed (`RetireCompletes`).

### HostServices: the services around the graph

`PluginHost` loads libraries as one transaction over ten registries; `ChttpPlugin` counts
its owners; `ExecutionPools` runs tasks that live on the stack of a waiting publisher;
`KeyedState` commits callbacks that worked on a copy; `TurboDbOutbox` fetches, runs and
settles; `Schedule` publishes ticks; `Discovery` changes peers all or none;
`SecurityRealm` decides from an index over immutable snapshots; `FlowRegistry` fills
several registries or none; `GraphCompile` runs the compiler's checks and rewrites in
their order on some thousand parsed graphs; `RuleProcessor` evaluates rules on several
lanes. Four properties, by theme: `UsersOutlived` (lifetimes), `AccountsExact`
(counts, sizes, registries and plans are what the calls made them), `OutcomesTruthful`
(what is reported happened; a realm's decision is the one its rules give read one by
one; a refused graph has the defect it was refused for), and `VersionsOnlyAdvance`.
The definitions they are made of are named and commented in the components' modules.

What these definitions allow, because the code does:

- pools: the status of a callback that returned is decided before it is published, so a
  task may answer OK although its publisher noticed the deadline in between;
- schedule: the order of cron ticks rests on one thread advancing a manual clock, and an
  advance that a stop and a start overtake belongs to neither run;
- discovery: a failed create that could not resume an owner leaves it paused; a command
  whose metadata does not fit fails without taking a place in the history;
- registry: a start whose rollback fails, or a stop that fails, leaves a FAILED flow that
  only stop takes further;
- rules: a value that does not fit a message field is refused (ERANGE); a DataBind
  program whose firing answers a negative count ends with EINVAL and the message
  untouched, while a JSON program counts it as none;
- realm: it starts without a policy or with one that passed validation.

## 4. Runs, bounds and fairness

`PROJECT.json` lists the runs with what each shows; each `.cfg` gives the constants.
Every property of a passing run has a mutant there: a change of one mapped
definition, such as a slip in that code would make, that breaks it.

| Run | Instance | Why it is enough |
| --- | --- | --- |
| `inbox` | two interchangeable callers, three offers of two identities, two slots, three bytes, one claim, 64-bit limits at 3 | every pair of admissions around the unlocked copy, a conflicting replay, slot reuse out of admission order, and every limit is hit |
| `inbox_driver` | one record, two tokens, two drivers of the first owner and one of the second, two failing calls | a claim can be lost, retried and claimed again while the first driver still holds it; a second fault falls into the recovery from the first |
| `turbodb_inbox` | a worker and a producer, who is also the operator, in one process, a successor in another, one connection each, two records of one partition, counters at 3, a database opened and closed once before | one record waits behind another in every phase; crash, takeover and a fenced writer with a transaction open; the pool runs out; ids and tokens reach their limit |
| `flow_lifecycle` | two publishers, the host and two operators, a managed source and a sink, generation up to 4, three failures | a stop meets a resize that is rolling back while another stop retries an adapter; 4 leaves room for a compile, a resize, its rollback and the refusal |
| `graph_execution` | ingress: three messages of two sizes against two configurations, one stop; publication: two emitting and one terminal claim; reorder: four runs, one nested, three boundaries, a stop; traversal: all graphs of four stages with at most two special ones; runs: a caller's, opened through the gate or by a drain, and a managed one with a deadline, one value each; buffer: two records of interchangeable identities and devices, two tokens, two workers, a publisher, one fault | the budget holds the big message or two small ones; an output's run offers a claim while another is completed; tickets are refused; diamonds, chains and double edges occur; every ending of a run meets every command |
| `network_adapters` | three messages or connections, two slots, two starts, one fault per adapter; the intake over each transport with one or two claims, with and without replies | slots and generations are reused under threads that still know them; a stop fails and is repeated |
| `plugin_generation` | a listener with replies and a sink; a source and an owner whose callbacks fail; one call, lease, reply and fault | any single callback, allocation or release fails at any point of creation or of any retirement attempt |
| `host_services` | each service with two or three actors and one or two faults (`HostServices.cfg`); the compiler on every graph of four stages in five casts and on hand-made texts for each of its checks | two threads race, one step fails, limits (history 10, registries 2, two slots) are reached |

Deadlock is not checked: a closed and emptied Inbox, exhausted ids, a stopped flow, a
destroyed adapter or an unloaded plugin has no next operation. The liveness properties
cover what must not stop.

Fairness is assumed of what the code or its documented caller keeps doing, and of
nothing else:

- `InboxDriver`: Graph runs and asynchronous values end, a provider call returns, and the
  host keeps calling poll, retry and reconcile, which the header asks of it. Operators,
  faults and takeovers are not fair. When an operator retries or forgets the record
  between a lost answer and the reconciliation, the two scans find nothing that matches
  and the driver keeps its claim; the record itself has then left CLAIMED.
- `FlowLifecycle`: publications end, adapter callbacks return and a command that was begun
  continues. Drain returns without its timeout ever firing.
- `PluginGeneration`: create and retirement continue, operation calls return, the host
  retries, and users give leases back and take the terminals of replies (strong
  fairness, since retirement attempts come in between).
- `PollingSpec` (run `intake_replies`): the host polls, each step of a poll continues, a
  send that is repeatedly possible ends, and storage has room again and again.

Four runs are expected to find a violation, each of a sentence in the repository that
`PROJECT.json` quotes under `findings`:

- `flow_runs_subscribe`: a stop that ends a run, or is about to, between its registration and a
  refused subscription makes the run give its publication back twice.
- `plugin_generation_resize`: a resize that loses the rebuild and the rollback but stops
  every adapter leaves a FAILED flow that stop refuses, so retirement never completes.
- `intake_replies`: a reply that met a busy connection stays queued, because polling the
  intake no longer polls the source that would free it.
- `plan_recompile`: compiling a stopped flow again releases the plugin leases whose code
  the registry and the new plan still call.

The passing runs leave out what these need: `graph_execution` has CFlow refuse a
subscription only before the run has ended or a stop has found it (`SubscribeFailsWhen`), and
`plugin_generation` has a lost resize also fail to stop an adapter
(`CleanResizeFailures`). `graph_execution` also leaves out graphs in which a way leads
around a buffer (section 6).

## 5. Proofs

The theorems hold for every value of the constants that satisfies the named
assumptions, which TLC evaluates on the instances. Each is proved from an inductive
invariant, because none of the properties is inductive alone; the invariants were
checked with TLC before they were proved.

**Memory Inbox** (`ConfigValid`: what `flow_inbox_memory_config_valid` accepts;
`OffersValid`: records of positive size).

- `InboxProofs` has the base, in three layers: `TypeInv` (types, and that occupied slots
  and windows hold proper records; a caller publishes later what it reserved earlier),
  `ResInv` (a window's slot is reserved, empty and no one else's) and `IdInv` (ids in
  slots and windows are below `nextRecordId`, and distinct). `TypeCorrect` follows, and
  `CountersCorrect`: every operation moves one slot between two phases, and a lemma says
  what that does to the sizes of the two sets.
- `InboxAdmissionProofs`: `AdmissionUnique`, `ReceiptsKept`, `IdsFresh` (a record id is
  issued once) and `ClaimsInOrder`. As far as records and windows are concerned a step is
  one of five kinds (`StepKinds`). Uniqueness rests on the re-check in the second
  section of `admit`: what it finds there is exactly what was stored since the first
  section looked.
- `InboxRefinementProofs`: `Implementation`, the refinement of `InboxContract`. Every
  provider step is a contract step or a stutter; needed are that an id names at most one
  slot, that the counters are exact (close reads off them that nobody is inside
  `admit`), and what slots hold of terminal kinds and failures (`ViewInv`).

**Inbox drivers** (`InboxDriverProofs`, under `DriverAssumption`): `SettledIsQuiet`,
`ReportsAreTrue`, `NoClaimAbandoned`. `IInv` says that a token has one driver (`TokenInv`),
what a driver knows in each phase (`PhaseInv`), that driver and ledger agree on a claim
while it is current, and that from then on the driver's phase tells how it was decided,
unless another owner took the store over (`ClaimInv`), and that a driver settles only when
nothing of its run executes (`RunInv`). The proof goes by what a step does to the ledger,
to the Graph runs and to one driver, and not action by action.

**Lifecycle** (`FlowLifecycleProofs`, under `LifecycleAssumption`): `PoolsOutlivePublishers`,
`GateObeys`, `AdaptersKept`. There is no lock around a teardown: the state of the flow and
the position of the gate say who may begin one. The invariant makes this precise: at most
one thread tears down (`OneTears`), what a thread has reached on its way is not undone by
the others (`ThreadInv`, `TearInv`), and the flow's fields agree with where its threads are
(`FlowInv`).

**Asynchronous publications** (`PublicationProofs`, under `PublicationAssumption`):
`EndsOnce`. `pending` is the number of claims that are out; a graph run that may offer more
keeps the publication from ending, by its own claim or because the owner has not left, so
whoever brings the count to zero after that is alone (`EndsLast`). `FirstError` and `Told`
give the truth of the report.

**Runs** (`FlowRunProofs` for the component, `GraphExecutionProofs` for the specification
that is run, under `RunsAssumption`): `ActiveCount`, `StopIsLast`, `RetireIsQuiet`. Every
step changes one run, and `active_publishes` by the difference of what that run holds
(`SoundStep`); what a run holds follows from its record (`RecordInv`). The commands add
what they have seen: stop has passed every run (`StopInv`), a retirement has found only
idle ones (`RetireInv`). The three theorems assume that neither
`"DONE"` nor `"PICKED"` is in `SubscribeFailsWhen`; run
`flow_runs_subscribe` shows that they fail without it.

Only model-checked, and why:

- liveness (`ClaimsSettle`, `CommandsReturn`, `RetireCompletes`) and the counterexample
  under `PollingSpec`: the prover handles neither fairness nor ENABLED;
- `BytesAgree` and `BudgetExact`: a sum over a set of any size, whose laws need induction
  over data;
- what the recursive searches of `GraphCompile` compute: there is no induction over data;
- the properties of `TurboDbInbox`, `NetworkAdapters`, `PluginGeneration` and
  `HostServices`, and `TicketsInOrder`, `TraversalExact`, `PartitionExclusive`,
  `DrainOkIsFinal` and `OneKeyPolicy` of `GraphExecution`: no inductive invariant has been
  worked out for them.

## 6. Behaviours of the code without a run of their own

Met while the models were made, and either excluded from an instance or not the subject
of a property. They are descriptions of what the code does.

Inbox and durable buffer:

- `inbox_close` of the database provider clears `accepting` before it knows whether it can
  close (`turbo_flow_turbodb_inbox.c:1395`), so an admission may be told ESHUTDOWN by an
  Inbox that stays open.
- With two workers two settlements may be pending at once, and then every operation that
  could resolve them refuses to choose (`flow_durable_buffer.c:961`).

Lifecycle, runs, ingress:

- When a resize and its rollback fail and an adapter's stop reports an error, the reactive
  scheduler is left behind; the retried stop releases nothing, and the next start answers
  EALREADY (`flow_runtime.c:452`).
- A deadline gives a run's publication back while its value is still in the graph, so drain
  may answer OK early (`flow_run.c:406`); stop does not, it waits for the scheduler.
- A good value may complete a run between the moment another value failed and the moment
  that failure becomes the run's ending (`flow_run.c:223`).
- Stop destroys the ingress pool before it waits for publishers that hold it, or that go on
  to create another (`flow_async_ingress.c:248`, `:110`).

Reorder and traversal:

- A refused reservation is canceled under the publication's global number, which is or will
  be another run's ticket (`flow_runtime.c:694`, `:848`).
- An emitted message's run takes its ticket late, while its parent holds an early one
  elsewhere; the two and a third run may wait for each other until one times out
  (`flow_runtime.c:814`).
- A stage fed by a buffer and by a way around it waits for an edge that the buffer never
  settles (`flow_completion.c:188`).

CNet, CHTTP and intake:

- The stream source drops a ready message when the remote side closes; a CNet source cannot
  be started again after a stop.
- The CHTTP client's preflight accepts the method OPTIONS, which open refuses
  (`turbo_flow_chttp.c:86`); the server's preflight and open reserve 12 and 16 bytes for a
  content type (`turbo_flow_chttp_typed_config.c:770`, `turbo_flow_chttp_server.c:133`).
- A server slot stays in use when a reply and the cancel meant to replace it both fail. The
  WebSocket server ignores the result of its 1011 close, and leaves a session unclosed when a
  publication fails with ESHUTDOWN while it drains.
- A CHTTP owner that is FAILED blocks retirement until the Flow is stopped again; a TLS
  context whose destruction fails keeps its owner for good.
- The intake pins the catalog for an owner that cannot retire; an error other than capacity
  is not terminal although the design's section 12.1(7) says so; an overflow (ENOBUFS)
  leaves the session open with a gap.

Plugins:

- An owner contract that is malformed leaves its entry PREPARED with a live owner that the
  release does not visit. The model's contracts are well formed.

Services:

- Keyed stores keep tombstones; a coroutine lane whose reset runs out of memory stays
  unusable; the worker pool relies on publishers being gone when it stops.
- The outbox delays acknowledgements while it is WAITING to be woken (`turbo_flow_turbodb_outbox.c:518`);
  a cron minute whose publication failed is lost.
- A registration with resources, or of an asynchronous stage, that fails after its adapter
  was added shuts the caller's context down; a second parse keeps provider adapters of the
  first until a reset.
- Compiler: a composite template that nobody uses but that names an unregistered adapter is
  refused (`flow_plan.c:557`, against the comment at 419); compiling a STARTED flow sets it
  FAILED, which stop then refuses; a COMPILED flow cannot be compiled again although start's
  message says "recompile before start"; a lowerable reflected chain whose type changes is
  ENOTSUP; an emitting provider on such a stage is bypassed by its region; refusals of a
  durable binding or backend keep the state where the header says FAILED.

## 7. Not modelled

Byte formats of protocols, SQL text, logging, error messages and allocation other than its
failure; generated lexers and parsers; codecs; expressions and their JIT back end;
third-party code. Of modelled components: the broadcast plane of the worker rings
(`flow_disruptor.c:557-684`), replay of discovery commands by idempotency key,
authentication, secrets, status and statistics of the security realm, the reading of rule
texts, descriptors of reflected operations, DataBind channels and services, required
backends, type traits, and allocation failures inside compile. Statistics saturate and feed
nothing back; status documents read counters one by one and promise no consistency between
them. `PROJECT.json` lists every component with its status and the reason.
