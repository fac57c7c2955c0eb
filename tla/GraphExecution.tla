--------------------------- MODULE GraphExecution ---------------------------
(***************************************************************************)
(* What a message meets on its way through a started flow: the reactive    *)
(* run that pulls it, the bounded ingress, the asynchronous publication    *)
(* that outlives the call, the reorder boundaries, the traversal of the    *)
(* graph and a durable buffer's scheduler.                                 *)
(*                                                                         *)
(* Each has its own lock and state, and none reads another's; the runs and *)
(* the ingress use the same gate but not each other's entries.  A          *)
(* behaviour of this module therefore follows one of them, chosen in Init  *)
(* among Mechanisms; the variables of the others keep the value Off.       *)
(***************************************************************************)
EXTENDS Integers, Sequences, FiniteSets
LOCAL INSTANCE TLC

CONSTANTS Mechanisms,                                                \* those to follow
          Messages, Size, Configs, HasAsyncStage, Pools, MaxStops,   \* AsyncIngress
          Terminals, Emitters, Failures,                             \* AsyncPublication
          Boundaries, Capacity, Runs, Nested, Reach, Path, TimesOut, \* Reorder
          Stages, Plans,                                             \* Traversal
          FlowRunSet, Kind, Timed, SubscribeFailsWhen, RunCapacity,  \* FlowRuns
          Values,
          Offers, NoOffer, Ids, Tokens, DrainErrors, MaxWorkers,     \* DurableBuffer
          DrainConfigs, MaxFaults,
          Identities, Devices                    \* of the records MCOffers consists of

\* A value of turbo_flow_publish has no deadline.
ASSUME RunsAssumption ==
    /\ IsFiniteSet(FlowRunSet) /\ Values \in Nat
    /\ Kind \in [FlowRunSet -> {"CALLER", "MANAGED", "FACADE"}]
    /\ \A r \in Timed \cap FlowRunSet : Kind[r] # "FACADE"

ASSUME PublicationAssumption ==
    /\ IsFiniteSet(Terminals) /\ IsFiniteSet(Emitters)
    /\ {"owner", "none"} \cap (Terminals \cup Emitters) = {}
    /\ "OK" \notin Failures

VARIABLES mechanism,
          state, admission, active, config, pool, inflight, pools, msg, stopper, taken, stops,
          pending, status, owner, claim, call, graph, due, finished, failures,
          sequence, issued, next, canceled, inside, stopping, run,
          plan, origin, phase, worklist, reachable, remaining, activated, done, queue, skipped,
          current, rc, dispatched, admitted, followed,
          stopRun, operator,
          ledger, content, lease, failure, lastToken, accepting, drainConfig, worker, held, token,
          graphStatus, graphRun, flow, graphAdmission, drainPaused, host, answer, faults, encoded

Ingress == INSTANCE AsyncIngress
Publication == INSTANCE AsyncPublication
Boundary == INSTANCE Reorder
Graph == INSTANCE Traversal
Reactive ==
    INSTANCE FlowRuns WITH Runs <- FlowRunSet, Capacity <- RunCapacity, HasAsync <- HasAsyncStage
Buffer ==
    INSTANCE DurableBuffer WITH Configs <- DrainConfigs, Errors <- DrainErrors, config <- drainConfig,
                                issued <- lastToken, run <- graphRun, admission <- graphAdmission

\* The gate of the flow and the thread that stops it: of the ingress, or of the runs.
gateVars == <<state, admission, active, stopper>>

ingressVars == <<config, pool, inflight, pools, msg, taken, stops>>

publicationVars == <<pending, status, owner, claim, call, graph, due, finished, failures>>

\* "run" is also the record of the reactive runs.
boundaryVars == <<sequence, issued, next, canceled, inside, stopping>>

runVars == <<stopRun, operator>>

graphVars == <<plan, origin, phase, worklist, reachable, remaining, activated, done, queue, skipped,
               current, rc, dispatched, admitted, followed>>

bufferVars == <<ledger, content, lease, failure, lastToken, accepting, drainConfig, worker, held, token,
                graphStatus, graphRun, flow, graphAdmission, drainPaused, host, answer, faults, encoded>>

vars == <<mechanism, gateVars, ingressVars, publicationVars, boundaryVars, run, graphVars, runVars,
          bufferVars>>

Off == "off"

IngressOff ==
    /\ config = Off /\ pool = Off /\ inflight = Off /\ pools = Off /\ msg = Off /\ taken = Off
    /\ stops = Off

GateOff == state = Off /\ admission = Off /\ active = Off /\ stopper = Off

PublicationOff ==
    /\ pending = Off /\ status = Off /\ owner = Off /\ claim = Off /\ call = Off /\ graph = Off
    /\ due = Off /\ finished = Off /\ failures = Off

BoundaryOff ==
    /\ sequence = Off /\ issued = Off /\ next = Off /\ canceled = Off /\ inside = Off
    /\ stopping = Off

GraphOff ==
    /\ plan = Off /\ origin = Off /\ phase = Off /\ worklist = Off /\ reachable = Off /\ remaining = Off
    /\ activated = Off /\ done = Off /\ queue = Off /\ skipped = Off /\ current = Off /\ rc = Off
    /\ dispatched = Off /\ admitted = Off /\ followed = Off

RunsOff == stopRun = Off /\ operator = Off

BufferOff ==
    /\ ledger = Off /\ content = Off /\ lease = Off /\ failure = Off /\ lastToken = Off
    /\ accepting = Off /\ drainConfig = Off /\ worker = Off /\ held = Off /\ token = Off
    /\ graphStatus = Off /\ graphRun = Off /\ flow = Off /\ graphAdmission = Off
    /\ drainPaused = Off /\ host = Off /\ answer = Off /\ faults = Off /\ encoded = Off

Init ==
    /\ mechanism \in Mechanisms
    /\ IF mechanism = "INGRESS" THEN Ingress!Init ELSE IngressOff
    /\ IF mechanism = "PUBLICATION" THEN Publication!Init ELSE PublicationOff
    /\ IF mechanism = "REORDER" THEN Boundary!Init ELSE BoundaryOff
    /\ IF mechanism = "TRAVERSAL" THEN Graph!Init ELSE GraphOff
    /\ IF mechanism = "RUNS" THEN Reactive!Init ELSE RunsOff
    /\ IF mechanism = "BUFFER" THEN Buffer!Init ELSE BufferOff
    /\ mechanism \notin {"INGRESS", "RUNS"} => GateOff
    /\ mechanism \notin {"REORDER", "RUNS"} => run = Off

IngressStep ==
    /\ mechanism = "INGRESS" /\ Ingress!Next
    /\ UNCHANGED <<mechanism, publicationVars, boundaryVars, run, graphVars, runVars, bufferVars>>

PublicationStep ==
    /\ mechanism = "PUBLICATION" /\ Publication!Next
    /\ UNCHANGED <<mechanism, gateVars, ingressVars, boundaryVars, run, graphVars, runVars, bufferVars>>

BoundaryStep ==
    /\ mechanism = "REORDER" /\ Boundary!Next
    /\ UNCHANGED <<mechanism, gateVars, ingressVars, publicationVars, graphVars, runVars, bufferVars>>

GraphStep ==
    /\ mechanism = "TRAVERSAL" /\ Graph!Next
    /\ UNCHANGED <<mechanism, gateVars, ingressVars, publicationVars, boundaryVars, run, runVars, bufferVars>>

ReactiveStep ==
    /\ mechanism = "RUNS" /\ Reactive!Next
    /\ UNCHANGED <<mechanism, ingressVars, publicationVars, boundaryVars, graphVars, bufferVars>>

BufferStep ==
    /\ mechanism = "BUFFER" /\ Buffer!Next
    /\ UNCHANGED <<mechanism, gateVars, ingressVars, publicationVars, boundaryVars, run, graphVars, runVars>>

Next == IngressStep \/ PublicationStep \/ BoundaryStep \/ GraphStep \/ ReactiveStep \/ BufferStep

Spec == Init /\ [][Next]_vars

-----------------------------------------------------------------------------
(* async_ingress_inflight_bytes is exactly what the messages under way have reserved:
   a leak would in the end refuse every message, a double release admit too many. *)
BudgetExact == mechanism = "INGRESS" => Ingress!BudgetExact

(* One thread at most decides to finish and free an asynchronous publication, and
   then nobody holds it any more; the status handed to its finish callback is a
   failure that happened, and OK only when none did. *)
PublicationEndsOnce ==
    mechanism = "PUBLICATION" => Publication!FreedOnceUnheld /\ Publication!ReportTruthful

(* A reorder boundary lets one run through at a time, the one whose ticket is next,
   and once every run has ended no ticket is left that a later run would wait for. *)
TicketsInOrder == mechanism = "REORDER" => Boundary!OneInside /\ Boundary!NoTicketLeft

(* A stage is queued, executed or fed to its buffer only when all the stages of
   this run that lead to it are through, and a run that returns SALTS_OK has
   executed, or fed, exactly the stages that an active edge leads to. *)
TraversalExact == mechanism = "TRAVERSAL" => Graph!FanInWaits /\ Graph!SelectedRan

(* active_publishes counts exactly what is under way: runs being opened, run
   lifetimes, managed values in the graph and asynchronous publications. *)
ActiveExact == mechanism = "RUNS" => Reactive!ActiveExact

(* Stop releases pools and executors only when no value is in the graph, not even
   one whose run ended by its deadline while it was being processed. *)
StopWaitsForValues == mechanism = "RUNS" => Reactive!StopWaitsForValues

(* When the wait before a retirement reports quiet, no managed source has a value
   in the graph or settling, though its idle subscriptions still count. *)
RetireQuiet == mechanism = "RUNS" => Reactive!RetireQuiet

(* No two workers of a durable buffer hold records of one partition, also when the
   claims of a pass follow settlements and admissions that fell into it. *)
PartitionExclusive == mechanism = "BUFFER" => Buffer!PartitionExclusive

(* Once a drain has answered OK on a closed Inbox, no record is left to process and no
   worker holds one, however the last runs and admissions fell around its snapshot. *)
DrainOkIsFinal == mechanism = "BUFFER" => Buffer!DrainOkIsFinal

(* All records still to be processed carry the partition key of the policy that the
   scheduler works by, through every reconfiguration, but for those whose admission
   overlapped it. *)
OneKeyPolicy == [][mechanism = "BUFFER" => Buffer!OneKeyPolicy]_vars

(***************************************************************************)
(* The instance that is checked.                                           *)
(***************************************************************************)

(* Ingress: messages of two sizes, and configurations that hold the big one or
   two small ones. *)
MCSize == [m \in Messages |-> IF m = "big" THEN 2 ELSE 1]

Conf(w, c, inflightMax) == [workers |-> w, capacity |-> c, maxMessage |-> 2, maxInflight |-> inflightMax]

MCConfigs == {Conf(1, 1, 3), Conf(2, 2, 2)}

(* Reorder: a source feeds an emitting stage, over a conditional edge, with boundary
   1 below it, and boundary 2 directly.  p takes the conditional edge and emits o; q does not; u comes from another
   source that does not lead to the emitting stage.  Where there is a boundary 3, it
   lies behind boundary 2. *)
MCBehind == IF 3 \in Boundaries THEN <<[pass |-> 2], [pass |-> 3]>> ELSE <<[pass |-> 2]>>

MCPath ==
    [r \in Runs |-> CASE r = "p" -> <<[emit |-> "o"]>> \o MCBehind
                      [] r = "o" -> <<[pass |-> 1]>>
                      [] OTHER -> MCBehind]

MCReach ==
    [r \in Runs |-> CASE r = "o" -> {1} [] r = "u" -> Boundaries \ {1} [] OTHER -> Boundaries]

MCCapacity == [b \in Boundaries |-> IF b = 1 THEN 2 ELSE 1]

(* Traversal: graphs of four stages. *)
MCStages == 1 .. 4

MCEdge(s, t, kinds) == {[from |-> s, to |-> t, kind |-> k] : k \in kinds}

MCSourceKinds == {{}, {"CONDITIONAL"}}

MCInnerKinds == {{}, {"UNCONDITIONAL"}, {"CONDITIONAL", "REJECT"}}

MCGraphs ==
    {UNION {MCEdge(1, 2, k[1]), MCEdge(1, 3, k[2]), MCEdge(1, 4, k[3]),
            MCEdge(2, 3, k[4]), MCEdge(2, 4, k[5]), MCEdge(3, 4, k[6])} :
       k \in MCSourceKinds \X MCSourceKinds \X MCSourceKinds
            \X MCInnerKinds \X MCInnerKinds \X MCInnerKinds}

MCRoles == {"PLAIN", "BUFFER", "PORT", "EMITTING", "ASYNC", "PURE"}

(* At most two of the stages are more than plain ones. *)
MCCasts ==
    {c \in [2 .. 4 -> MCRoles] : Cardinality({s \in 2 .. 4 : c[s] # "PLAIN"}) <= 2}

MCPlan(edges, c) ==
    LET having(r) == {s \in 2 .. 4 : c[s] = r}
    IN  [edges |-> edges, buffers |-> having("BUFFER"), ports |-> having("PORT"),
         emitting |-> having("EMITTING"), async |-> having("ASYNC"), pure |-> having("PURE")]

MCBelow(p) ==
    LET below[s \in Stages] == UNION {{e.to} \cup below[e.to] : e \in {e \in p.edges : e.from = s}}
    IN  below

(* No way leads around a buffer to what lies behind it. *)
MCNoBypass(p) ==
    \A b \in p.buffers, e \in p.edges :
        e.to \in MCBelow(p)[b] => e.from \in {b} \cup MCBelow(p)[b]

MCAllPlans == {MCPlan(edges, c) : edges \in MCGraphs, c \in MCCasts}

MCPlans == {p \in MCAllPlans : MCNoBypass(p)}

(* Runs: one opened by a caller, one by a managed source. *)
MCKind == [r \in FlowRunSet |-> IF r = "m" THEN "MANAGED" ELSE "CALLER"]

(* Durable buffer: global order, a partitioning by another key, and a configuration
   the code refuses; records of the devices behind one source.  Neither identities nor
   devices differ in anything but their names. *)
MCDrain(ordering, by, batch) ==
    [ordering |-> ordering, partition_by |-> by, workers |-> 2, max_in_flight |-> 2,
     batch_claim |-> batch]

MCDrainConfigs ==
    {MCDrain("GLOBAL", "SOURCE_ID", 2), MCDrain("PARTITION", "DEVICE_ID", 2),
     MCDrain("GLOBAL", "SOURCE_ID", 3)}

MCOffers ==
    {[adm |-> a, by |-> "SOURCE_ID", key |-> "s1"] : a \in Identities}
    \cup {[adm |-> a, by |-> "DEVICE_ID", key |-> d] : a \in Identities, d \in Devices}

MCSymmetry == Permutations(Identities) \cup Permutations(Devices)
=============================================================================
