--------------------------- MODULE DurableBuffer ---------------------------
(***************************************************************************)
(* One durable buffer binding of turbo_flow/src/flow_durable_buffer.c: the *)
(* scheduler that claims records of an Inbox for a bounded set of workers, *)
(* each of which runs the Graph on one record, and the operations of the   *)
(* host on it (progress, drain, settlement recovery, reconfiguration,      *)
(* start, stop, unbind).                                                   *)
(*                                                                         *)
(* The header has the host serialise these operations, so one host thread  *)
(* makes them all.  A progress pass is not atomic: admissions and the ends *)
(* of Graph runs fall between its provider calls.  The Inbox is the one of *)
(* InboxContract with this binding as its only consumer; a worker's driver *)
(* is the one of InboxDriver, with a settlement as one step.  Statistics   *)
(* (rejections, partition_blocked, worker_saturated, rates) are left out.  *)
(***************************************************************************)
EXTENDS InboxContract, FiniteSets, FiniteSetsExt

CONSTANTS
    MaxWorkers,   \* TURBO_FLOW_DURABLE_BUFFER_MAX_WORKERS
    Configs,      \* drain configurations the host chooses from
    MaxFaults     \* bound: provider calls that fail

Workers == 1 .. MaxWorkers

(* flow_durable_buffer_drain_config_valid *)
ConfigOK(c) ==
    /\ c.workers \in Workers
    /\ c.workers <= c.max_in_flight
    /\ c.batch_claim \in 1 .. c.max_in_flight

VARIABLES
    config,      \* drain_config
    worker,      \* worker -> state its driver reports, "NONE" before ensure_driver
    held,        \* worker -> record id of its claim, or 0
    token,       \* worker -> token of its claim, or 0
    graphStatus, \* worker -> status its claim is to be settled with
    run,         \* worker -> "NONE", "ACTIVE", or the status its Graph run ended with
    flow,        \* "STARTED", "STOPPED"; "UNBOUND" once the binding is removed
    admission,   \* the Flow's admission: "OPEN" or "PAUSED"
    drainPaused, \* "PAUSED" or "RUNNING"
    host,        \* the call the host is in and its local variables
    answer,      \* what is remembered of the last answer, see Answered
    faults,      \* failed provider calls so far
    encoded      \* key policy of the record a publisher has encoded and not yet offered

workers == <<worker, held, token, graphStatus, run>>
control == <<config, flow, admission, drainPaused>>
vars == <<ledgerVars, workers, control, host, answer, faults, encoded>>

NoCall == [call |-> "NONE", at |-> "NONE", i |-> 0, active |-> 0, live |-> FALSE,
           excluded |-> {}, budget |-> 0, next |-> {}, seen |-> {}]

(* flow_durable_buffer_effective_workers *)
Effective == IF config.ordering = "GLOBAL" THEN 1 ELSE config.workers

(* The component of the identity that is persisted as partition key. *)
KeyPolicy(c) == IF c.ordering = "PARTITION" THEN c.partition_by ELSE "SOURCE_ID"

(* Mutant: only a change between two partition keys is noticed. *)
ChangesSelector(c) ==
    c.ordering = "PARTITION" /\ config.ordering = "PARTITION" /\ c.partition_by # config.partition_by

RekeysBacklog(c) == KeyPolicy(c) # KeyPolicy(config)

Init ==
    /\ InitLedger /\ accepting = "OPEN"
    /\ config \in {c \in Configs : ConfigOK(c) /\ c.ordering = "GLOBAL"}
    /\ worker = [w \in Workers |-> "NONE"]
    /\ held = [w \in Workers |-> 0]
    /\ token = [w \in Workers |-> 0]
    /\ graphStatus = [w \in Workers |-> "OK"]
    /\ run = [w \in Workers |-> "NONE"]
    /\ flow = "STARTED"
    /\ admission = "OPEN"
    /\ drainPaused = "RUNNING"
    /\ host = NoCall
    /\ answer = "NONE"
    /\ faults = 0
    /\ encoded = "NONE"

-----------------------------------------------------------------------------
(* Beside the host: publishers crossing the buffer stage and Graph runs. *)

(* flow_durable_buffer_admit_stage: a record is encoded with the key of the policy,
   which is read without a lock, ...  Ids bounds the publishers that come. *)
EncodeRecord ==
    /\ flow = "STARTED" /\ encoded = "NONE" /\ StoredIn({"UNUSED"}) # {}
    /\ encoded' = KeyPolicy(config)
    /\ UNCHANGED <<ledgerVars, workers, control, host, answer, faults>>

(* ... and offered to the provider, which takes it under the next id, ... *)
AdmitStage(i, o) ==
    /\ o.by = encoded
    /\ \A j \in StoredIn({"UNUSED"}) : i <= j
    /\ AdmitRecord(i, o)
    /\ encoded' = "NONE"
    /\ UNCHANGED <<workers, control, host, answer, faults>>

(* ... or answers with the receipt of an earlier one, or with an error. *)
AdmitNothing ==
    /\ encoded # "NONE"
    /\ encoded' = "NONE"
    /\ UNCHANGED <<ledgerVars, workers, control, host, answer, faults>>

RunEnds(w, status) ==
    /\ run[w] = "ACTIVE"
    /\ run' = [run EXCEPT ![w] = status]
    /\ UNCHANGED <<ledgerVars, worker, held, token, graphStatus, control, host,
                   answer, faults, encoded>>

-----------------------------------------------------------------------------
(* A worker's driver. *)

Empty(w) == worker[w] \in {"NONE", "EMPTY"}
Unsettled(w) == worker[w] \in {"SETTLEMENT_PENDING", "SETTLEMENT_UNKNOWN"}

SetWorker(w, state, id, t, status, r) ==
    /\ worker' = [worker EXCEPT ![w] = state]
    /\ held' = [held EXCEPT ![w] = id]
    /\ token' = [token EXCEPT ![w] = t]
    /\ graphStatus' = [graphStatus EXCEPT ![w] = status]
    /\ run' = [run EXCEPT ![w] = r]

ReleaseWorker(w) == SetWorker(w, "EMPTY", 0, 0, "OK", "NONE")

Settled(id, t, status) ==
    IF status = "OK" THEN CompleteRecord(id, t) ELSE FailRecord(id, t, status)

(* flow_inbox_source_settle of claim t of record id.  The provider may fail
   before or after it has recorded the settlement. *)
SettleOk(w, id, t, status) ==
    /\ Settled(id, t, status)
    /\ ReleaseWorker(w)
    /\ UNCHANGED faults

SettleFails(w, id, t, status) ==
    /\ faults < MaxFaults
    /\ faults' = faults + 1
    /\ Settled(id, t, status) \/ UNCHANGED ledgerVars
    /\ SetWorker(w, "SETTLEMENT_PENDING", id, t, status, "NONE")

(* EALREADY *)
SettleStale(w, id, t, status) ==
    /\ lease[id] # t
    /\ SetWorker(w, "SETTLEMENT_UNKNOWN", id, t, status, "NONE")
    /\ UNCHANGED <<ledgerVars, faults>>

-----------------------------------------------------------------------------
(* flow_durable_buffer_progress_internal, one step per provider call. *)

(* Of the answers only one matters later: a drain that ended on a closed Inbox. *)
Answered(rc) ==
    IF host.call = "DRAIN" /\ rc = "OK" /\ accepting = "CLOSED" THEN "DRAINED"
    ELSE "NONE"

Return(rc) ==
    /\ host' = NoCall
    /\ answer' = Answered(rc)

(* A pass is over: progress returns, drain looks again. *)
PassEnds == IF host.call = "DRAIN"
            THEN host' = [NoCall EXCEPT !.call = "DRAIN", !.at = "AGAIN"] /\ UNCHANGED answer
            ELSE Return("OK")

Progress ==
    /\ host = NoCall /\ flow # "UNBOUND"
    /\ host' = [NoCall EXCEPT !.call = "PROGRESS", !.at = "POLL", !.i = 1]
    /\ UNCHANGED <<ledgerVars, workers, control, answer, faults, encoded>>

Polling(w) == host.at = "POLL" /\ host.i = w /\ w <= Effective

PollEmpty(w) ==
    /\ Polling(w)
    /\ Empty(w)
    /\ host' = [host EXCEPT !.i = w + 1]
    /\ UNCHANGED <<ledgerVars, workers, control, answer, faults, encoded>>

(* An unsettled claim stops the pass: nothing is retried implicitly. *)
PollUnsettled(w) ==
    /\ Polling(w)
    /\ Unsettled(w)
    /\ Return("SETTLEMENT")
    /\ UNCHANGED <<ledgerVars, workers, control, faults, encoded>>

PollRunning(w) ==
    /\ Polling(w)
    /\ worker[w] = "GRAPH_ACTIVE" /\ run[w] = "ACTIVE"
    /\ host' = [host EXCEPT !.i = w + 1, !.active = @ + 1, !.live = TRUE,
                            !.excluded = IF config.ordering = "PARTITION"
                                         THEN @ \cup {content[held[w]].key} ELSE @]
    /\ UNCHANGED <<ledgerVars, workers, control, answer, faults, encoded>>

(* The run has ended and its claim, which is still current, is settled.  A failed
   run, recorded as such, still ends the pass with its status. *)
PollEnded(w) ==
    /\ Polling(w)
    /\ worker[w] = "GRAPH_ACTIVE" /\ run[w] \notin {"NONE", "ACTIVE"}
    /\ \/ /\ SettleOk(w, held[w], token[w], run[w])
          /\ IF run[w] = "OK"
             THEN host' = [host EXCEPT !.i = w + 1, !.live = TRUE] /\ UNCHANGED answer
             ELSE Return("GRAPH")
       \/ /\ SettleFails(w, held[w], token[w], run[w])
          /\ Return("SETTLEMENT")
    /\ UNCHANGED <<control, encoded>>

Claims == StoredIn({"CLAIMED"})

ClaimBudget(active) ==
    Min({config.batch_claim, Effective - active, config.max_in_flight - Cardinality(Claims)})

(* Every worker was polled: the checks before claiming, and the budget. *)
PollsDone ==
    /\ host.at = "POLL" /\ host.i > Effective
    /\ IF config.ordering = "GLOBAL" /\ host.live
       THEN PassEnds
       ELSE IF flow # "STARTED"
       THEN Return("ESHUTDOWN")
       ELSE IF host.call = "PROGRESS" /\ drainPaused = "PAUSED"
       THEN PassEnds
       ELSE IF host.active > config.max_in_flight \/ Cardinality(Claims) > config.max_in_flight
       THEN Return("EPROTO")
       ELSE /\ host' = [host EXCEPT !.at = "CLAIM", !.i = 1, !.budget = ClaimBudget(host.active)]
            /\ UNCHANGED answer
    /\ UNCHANGED <<ledgerVars, workers, control, faults, encoded>>

Claiming(w) == host.at = "CLAIM" /\ host.i = w /\ w <= Effective /\ host.budget > 0

SkipBusy(w) ==
    /\ Claiming(w)
    /\ ~Empty(w)
    /\ host' = [host EXCEPT !.i = w + 1]
    /\ UNCHANGED <<ledgerVars, workers, control, answer, faults, encoded>>

(* The driver refuses unless ordinary admission is open; a drain may also claim
   while it is paused. *)
MayClaim(w) ==
    /\ Claiming(w) /\ Empty(w)
    /\ admission = "OPEN" \/ (host.call = "DRAIN" /\ admission = "PAUSED")

ClaimRefused(w) ==
    /\ Claiming(w) /\ Empty(w)
    /\ ~MayClaim(w)
    /\ Return("ESHUTDOWN")
    /\ worker' = [worker EXCEPT ![w] = "EMPTY"]
    /\ UNCHANGED <<ledgerVars, held, token, graphStatus, run, control, faults, encoded>>

(* ENOENT ends the claims of this pass; ERANGE when the tokens run out. *)
NothingToClaim(w) ==
    /\ MayClaim(w)
    /\ \/ Eligible(host.excluded) = {} /\ PassEnds
       \/ Eligible(host.excluded) # {} /\ issued + 1 \notin Tokens /\ Return("ERANGE")
    /\ worker' = [worker EXCEPT ![w] = "EMPTY"]
    /\ UNCHANGED <<ledgerVars, held, token, graphStatus, run, control, faults, encoded>>

(* Mutant: a partition claimed in this pass may be claimed again in it. *)
ForgetPartition(excluded, key) == excluded

Exclude(excluded, key) ==
    IF config.ordering = "PARTITION" THEN excluded \cup {key} ELSE excluded

ClaimNext(w) ==
    /\ MayClaim(w)
    /\ \E i \in Ids :
          /\ ClaimRecord(i, host.excluded)
          /\ SetWorker(w, "GRAPH_ACTIVE", i, issued', "OK", "ACTIVE")
          /\ host' = [host EXCEPT !.i = w + 1, !.budget = @ - 1,
                                  !.excluded = Exclude(@, content[i].key)]
    /\ UNCHANGED <<control, answer, faults, encoded>>

(* The claimed record's message or run cannot be built: flow_inbox_source_fail_claim
   settles it as failed at once, or leaves that settlement pending. *)
ClaimFails(w, e) ==
    /\ MayClaim(w)
    /\ issued + 1 \in Tokens
    /\ \E i \in Eligible(host.excluded) :
          /\ \A j \in Eligible(host.excluded) : i <= j
          /\ issued' = issued + 1
          /\ \/ /\ ledger' = [ledger EXCEPT ![i] = "FAILED"]
                /\ failure' = [failure EXCEPT ![i] = e]
                /\ worker' = [worker EXCEPT ![w] = "EMPTY"]
                /\ Return("GRAPH")
                /\ UNCHANGED <<lease, held, token, graphStatus, run, faults>>
             \/ /\ faults < MaxFaults
                /\ faults' = faults + 1
                /\ ledger' = [ledger EXCEPT ![i] = "CLAIMED"]
                /\ lease' = [lease EXCEPT ![i] = issued']
                /\ SetWorker(w, "SETTLEMENT_PENDING", i, issued', e, "NONE")
                /\ Return("SETTLEMENT")
                /\ UNCHANGED failure
    /\ UNCHANGED <<content, accepting, control, encoded>>

ClaimsDone ==
    /\ host.at = "CLAIM" /\ (host.i > Effective \/ host.budget = 0)
    /\ PassEnds
    /\ UNCHANGED <<ledgerVars, workers, control, faults, encoded>>

-----------------------------------------------------------------------------
(* turbo_flow_durable_buffer_drain *)

Drain ==
    /\ host = NoCall /\ flow # "UNBOUND"
    /\ host' = [NoCall EXCEPT !.call = "DRAIN", !.at = "CHECK"]
    /\ UNCHANGED <<ledgerVars, workers, control, answer, faults, encoded>>

AllEmpty == \A w \in Workers : Empty(w)

(* Mutant: records that are only claimed count as drained. *)
NothingPending == StoredIn({"PENDING"}) = {}

Drained == Live = {} /\ Claims = {} /\ AllEmpty

(* The statuses of the workers and then a snapshot of the Inbox decide. They
   are one step: between them only publishers and ends of runs can move, and
   neither touches a driver, which only the host's own thread polls. The
   OK is as of the snapshot. *)
DrainStatus ==
    IF \E w \in Workers : Unsettled(w) THEN "SETTLEMENT"
    ELSE IF StoredIn({"FAILED", "LOST"}) # {} THEN "FAILED"
    ELSE IF Drained THEN "OK"
    ELSE "BUSY"

DrainCheck ==
    /\ host.at = "CHECK"
    /\ IF DrainStatus # "BUSY"
       THEN Return(DrainStatus)
       ELSE IF flow # "STARTED" /\ AllEmpty
       THEN Return("EBUSY")
       ELSE host' = [host EXCEPT !.at = "POLL", !.i = 1] /\ UNCHANGED answer
    /\ UNCHANGED <<ledgerVars, workers, control, faults, encoded>>

DrainAgain ==
    /\ host.at = "AGAIN"
    /\ host' = [host EXCEPT !.at = "CHECK"]
    /\ UNCHANGED <<ledgerVars, workers, control, answer, faults, encoded>>

DrainTimesOut ==
    /\ host.at = "AGAIN"
    /\ Return(IF DrainStatus = "BUSY" THEN "ETIMEDOUT" ELSE DrainStatus)
    /\ UNCHANGED <<ledgerVars, workers, control, faults, encoded>>

-----------------------------------------------------------------------------
(* The host's other operations. *)

HostIdle == host = NoCall /\ flow # "UNBOUND"

(* turbo_flow_durable_buffer_quiesce: closes the Inbox. *)
Quiesce ==
    /\ HostIdle
    /\ CloseLedger
    /\ UNCHANGED <<workers, control, host, answer, faults, encoded>>

(* turbo_flow_durable_buffer_retry_settlement: with two unsettled workers it
   answers EBUSY and touches neither. *)
RetrySettlement(w) ==
    /\ HostIdle
    /\ {u \in Workers : Unsettled(u)} = {w}
    /\ worker[w] = "SETTLEMENT_PENDING"
    /\ \/ SettleOk(w, held[w], token[w], graphStatus[w])
       \/ SettleFails(w, held[w], token[w], graphStatus[w])
       \/ SettleStale(w, held[w], token[w], graphStatus[w])
    /\ UNCHANGED <<control, host, answer, encoded>>

(* What flow_inbox_driver_reconcile_settlement takes for a confirmation. *)
Confirmed(w) ==
    IF graphStatus[w] = "OK"
    THEN ledger[held[w]] = "COMPLETED"
    ELSE \/ ledger[held[w]] = "DISCARDED"
         \/ ledger[held[w]] = "FAILED" /\ failure[held[w]] = graphStatus[w]

ReconcileSettlement(w) ==
    /\ HostIdle
    /\ {u \in Workers : worker[u] = "SETTLEMENT_UNKNOWN"} = {w}
    /\ Confirmed(w)
    /\ ReleaseWorker(w)
    /\ UNCHANGED <<ledgerVars, control, host, answer, faults, encoded>>

Operate(i) ==
    /\ HostIdle
    /\ RetryRecord(i) \/ DiscardRecord(i) \/ ForgetRecord(i)
    /\ UNCHANGED <<workers, control, host, answer, faults, encoded>>

(* flow_durable_buffer_destroy_drivers: every slot is free again. *)
DestroyDrivers == worker' = [w \in Workers |-> "NONE"]

DriversIdle == AllEmpty

(* turbo_flow_durable_buffer_configure_drain looks at the backlog when the policy
   changes, ... *)
ConfigureKeys(c) ==
    /\ ConfigOK(c)
    /\ HostIdle
    /\ DriversIdle
    /\ RekeysBacklog(c)
    /\ Live = {} /\ Claims = {}
    /\ host' = [NoCall EXCEPT !.call = "CONFIGURE", !.next = {c}, !.seen = Live]
    /\ UNCHANGED <<ledgerVars, workers, control, answer, faults, encoded>>

(* ... and assigns without looking again: a publisher may be in between. *)
ConfigureDrain(c) ==
    /\ \/ ConfigOK(c) /\ HostIdle /\ DriversIdle /\ ~RekeysBacklog(c)
       \/ c \in host.next
    /\ config' = c
    /\ DestroyDrivers
    /\ host' = NoCall
    /\ UNCHANGED <<ledgerVars, held, token, graphStatus, run, flow, admission, drainPaused,
                   answer, faults, encoded>>

PauseDrain(p) ==
    /\ HostIdle
    /\ drainPaused' = p
    /\ UNCHANGED <<ledgerVars, workers, config, flow, admission, host, answer, faults, encoded>>

SetAdmission(a) ==
    /\ HostIdle /\ flow = "STARTED"
    /\ admission' = a
    /\ UNCHANGED <<ledgerVars, workers, config, flow, drainPaused, host, answer, faults, encoded>>

(* turbo_flow_stop cancels the active runs and waits for the publishers; the claims
   stay with their workers. *)
StopFlow ==
    /\ HostIdle /\ flow = "STARTED" /\ encoded = "NONE"
    /\ flow' = "STOPPED"
    /\ run' = [w \in Workers |-> IF run[w] = "ACTIVE" THEN "ECANCELED" ELSE run[w]]
    /\ UNCHANGED <<ledgerVars, worker, held, token, graphStatus, config, admission, drainPaused,
                   host, answer, faults, encoded>>

(* turbo_flow_start resolves the bindings again, for which all must be idle. *)
StartFlow ==
    /\ HostIdle /\ flow = "STOPPED"
    /\ DriversIdle
    /\ flow' = "STARTED"
    /\ admission' = "OPEN"
    /\ DestroyDrivers
    /\ UNCHANGED <<ledgerVars, held, token, graphStatus, run, config, drainPaused, host, answer,
                   faults, encoded>>

Unbind ==
    /\ HostIdle /\ flow = "STOPPED"
    /\ DriversIdle
    /\ flow' = "UNBOUND"
    /\ DestroyDrivers
    /\ UNCHANGED <<ledgerVars, held, token, graphStatus, run, config, admission, drainPaused, host,
                   answer, faults, encoded>>

Poll(w) == PollEmpty(w) \/ PollUnsettled(w) \/ PollRunning(w) \/ PollEnded(w)
Claim(w) == \/ SkipBusy(w) \/ ClaimRefused(w) \/ NothingToClaim(w) \/ ClaimNext(w)
            \/ \E e \in Errors : ClaimFails(w, e)

(* The steps of a call that has begun. *)
Continue ==
    \/ \E w \in Workers : Poll(w) \/ Claim(w)
    \/ PollsDone \/ ClaimsDone \/ DrainCheck \/ DrainAgain \/ DrainTimesOut

Next ==
    \/ EncodeRecord \/ AdmitNothing
    \/ \E i \in Ids, o \in Offers : AdmitStage(i, o)
    \/ \E w \in Workers, status \in Errors \cup {"OK"} : RunEnds(w, status)
    \/ Progress \/ Drain \/ Continue
    \/ Quiesce
    \/ \E w \in Workers : RetrySettlement(w) \/ ReconcileSettlement(w)
    \/ \E i \in Ids : Operate(i)
    \/ \E c \in Configs : ConfigureKeys(c) \/ ConfigureDrain(c)
    \/ \E p \in {"PAUSED", "RUNNING"} : PauseDrain(p)
    \/ \E a \in {"OPEN", "PAUSED"} : SetAdmission(a)
    \/ StopFlow \/ StartFlow \/ Unbind

Spec == Init /\ [][Next]_vars

-----------------------------------------------------------------------------
(* Properties. *)

Holding == {w \in Workers : held[w] # 0}

(***************************************************************************)
(* No two workers run or hold records of the same partition, also when the *)
(* claims of one pass follow settlements and admissions that fell into it: *)
(* records of a partition are processed one at a time.  In GLOBAL order at *)
(* most one record is held at all.                                         *)
(***************************************************************************)
PartitionExclusive ==
    \A u, w \in Holding :
        u # w => /\ config.ordering = "PARTITION"
                 /\ {held[u], held[w]} \subseteq Stored
                        => content[held[u]].key # content[held[w]].key

(***************************************************************************)
(* Once drain has answered OK on a closed Inbox, no record is left to      *)
(* process and no worker holds one, however the last runs and admissions   *)
(* fell around the snapshot it looked at.                                  *)
(***************************************************************************)
DrainOkIsFinal ==
    answer = "DRAINED" => Live = {} /\ Holding = {}

(***************************************************************************)
(* The records still to be processed carry the partition key of the policy *)
(* the scheduler works by, through every reconfiguration.  Nothing orders  *)
(* configure_drain with publishers, so a record may carry a key of the old *)
(* policy after all, but only one whose own admission overlapped the       *)
(* change: it was offered after configure_drain had looked at the backlog, *)
(* or encoded before the assignment and offered after it.                  *)
(***************************************************************************)
Misfits == {i \in Live : content[i].by # KeyPolicy(config)}
OneKeyPolicy ==
    \A i \in Misfits' \ Misfits :
        \/ i \notin Live /\ encoded # KeyPolicy(config)
        \/ i \in Live \ host.seen /\ host.call = "CONFIGURE"
=============================================================================
