---------------------------- MODULE InboxDriver ----------------------------
(***************************************************************************)
(* The drivers of turbo_flow/src/flow_inbox_driver.c on top of an Inbox:   *)
(* each claims one record, runs the Graph on it and settles the claim.     *)
(*                                                                         *)
(* The Inbox is the provider of InboxContract.  Its owner process may be   *)
(* replaced (TakeOver); drivers belong to an owner, and those of an        *)
(* earlier owner are fenced.  A settlement is a provider call of its own,  *)
(* which may fail without effect, take effect and still report an error,   *)
(* or find the claim no longer current, so everything else may happen      *)
(* before it and between the two scans of a reconciliation.                *)
(*                                                                         *)
(* A Graph run belongs to one claim and is named by the claim's token.     *)
(***************************************************************************)
EXTENDS InboxContract

CONSTANTS
    Drivers,
    HostOf,        \* driver -> the number of the owner process it runs in
    MaxOwners,     \* bound: takeovers stop at this owner
    MaxFaults      \* bound: provider calls that fail

(* Claim tokens and the numbers of owners are positive, and no error is OK. *)
ASSUME DriverAssumption ==
    /\ Tokens \subseteq Nat \ {0}
    /\ HostOf \in [Drivers -> Nat \ {0}]
    /\ "OK" \notin Errors

Statuses == Errors \cup {"OK"}
Ended == {"COMPLETED", "FAILED", "CANCELED"}

VARIABLES
    phase,          \* driver -> flow_inbox_source_phase_t
    record,         \* driver -> source->record_id, 0 when idle
    token,          \* driver -> source->claim.claim_token, 0 when idle
    graphStatus,    \* driver -> source->graph_status
    requestFailure, \* driver -> source->request_failure_status
    call,           \* driver -> the provider call its thread is in, or "NONE"
    scanned,        \* driver -> what scan_failed told a running reconciliation
    admission,      \* the Flow's admission: "OPEN", "PAUSED" or "CLOSED" (stopped)
    run,            \* claim token -> state of the Graph run of that claim
    pending,        \* claim tokens whose run has an asynchronous value outstanding
    owner,          \* the owner process the provider answers to
    faults,         \* failed provider calls so far
    outcome,        \* history: claim token -> what the provider made of the claim
    report          \* history: claim token -> what the driver told its caller

driver == <<phase, record, token, graphStatus, requestFailure, call, scanned>>
graph == <<run, pending>>
history == <<outcome, report>>

vars == <<ledgerVars, driver, admission, graph, owner, faults, history>>

Init ==
    /\ InitLedger /\ accepting = "OPEN"
    /\ phase = [d \in Drivers |-> "IDLE"]
    /\ record = [d \in Drivers |-> 0]
    /\ token = [d \in Drivers |-> 0]
    /\ graphStatus = [d \in Drivers |-> "OK"]
    /\ requestFailure = [d \in Drivers |-> "OK"]
    /\ call = [d \in Drivers |-> "NONE"]
    /\ scanned = [d \in Drivers |-> "NONE"]
    /\ admission = "OPEN"
    /\ run = [t \in Tokens |-> "NONE"]
    /\ pending = {}
    /\ owner = 1
    /\ faults = 0
    /\ outcome = [t \in Tokens |-> "NONE"]
    /\ report = [t \in Tokens |-> "NONE"]

Fenced(d) == HostOf[d] # owner

-----------------------------------------------------------------------------
(* Claiming a record and starting its Graph run. *)

(* flow_inbox_driver_request_internal up to the claim: a drain request is also
   let through while the Flow is paused. *)
MayRequest(d, draining) ==
    /\ phase[d] = "IDLE"
    /\ ~Fenced(d)
    /\ admission = "OPEN" \/ (draining /\ admission = "PAUSED")

(* The claim succeeds and the Graph run is requested. *)
Request(d, draining, excluded) ==
    /\ MayRequest(d, draining)
    /\ \E i \in Ids : ClaimRecord(i, excluded) /\ record' = [record EXCEPT ![d] = i]
    /\ token' = [token EXCEPT ![d] = issued']
    /\ phase' = [phase EXCEPT ![d] = "GRAPH_RUNNING"]
    /\ run' = [run EXCEPT ![issued'] = "ACTIVE"]
    /\ UNCHANGED <<graphStatus, requestFailure, call, scanned, admission, pending, owner,
                   faults, history>>

(* The claim succeeds but the message cannot be built or the run cannot be
   opened: flow_inbox_source_fail_claim goes on to record the failure. *)
RequestFails(d, draining, excluded, e) ==
    /\ MayRequest(d, draining)
    /\ \E i \in Ids : ClaimRecord(i, excluded) /\ record' = [record EXCEPT ![d] = i]
    /\ token' = [token EXCEPT ![d] = issued']
    /\ phase' = [phase EXCEPT ![d] = "SETTLE_FAIL"]
    /\ graphStatus' = [graphStatus EXCEPT ![d] = e]
    /\ call' = [call EXCEPT ![d] = "SETTLE"]
    /\ UNCHANGED <<requestFailure, scanned, admission, graph, owner, faults, history>>

-----------------------------------------------------------------------------
(* The Graph run, as the driver sees it through turbo_flow_run_snapshot and
   flow_run_has_pending_values. *)

ValueBegins(t) ==
    /\ run[t] = "ACTIVE"
    /\ pending' = pending \cup {t}
    /\ UNCHANGED <<ledgerVars, driver, admission, run, owner, faults, history>>

ValueEnds(t) ==
    /\ pending' = pending \ {t}
    /\ t \in pending
    /\ UNCHANGED <<ledgerVars, driver, admission, run, owner, faults, history>>

(* flow_run_finish with COMPLETED waits for outstanding values; a failure does
   not. *)
RunEnds(t, state) ==
    /\ run[t] = "ACTIVE"
    /\ state = "COMPLETED" => t \notin pending
    /\ run' = [run EXCEPT ![t] = state]
    /\ UNCHANGED <<ledgerVars, driver, admission, pending, owner, faults, history>>

(* The Flow is paused, resumed or stopped; stop cancels the active runs. *)
SetAdmission(a) ==
    /\ admission # "CLOSED"
    /\ admission' = a
    /\ run' = IF a = "CLOSED"
              THEN [t \in Tokens |-> IF run[t] = "ACTIVE" THEN "CANCELED" ELSE run[t]]
              ELSE run
    /\ UNCHANGED <<ledgerVars, driver, pending, owner, faults, history>>

(* snapshot.status of a run that ended; the failure of a stage is some error. *)
RunStatus(state) ==
    CASE state = "COMPLETED" -> "OK" [] state = "CANCELED" -> "ECANCELED" [] OTHER -> "EIO"

-----------------------------------------------------------------------------
(* flow_inbox_driver_poll *)

(* Mutant: asynchronous values still outstanding are not waited for. *)
ConcludedEarly(state, t) == state \in Ended

(* The run has ended and every asynchronous value has left it. *)
Concluded(state, t) == state \in Ended /\ t \notin pending

(* The status the claim is settled with; only COMPLETED runs have the status
   OK, so the EPROTO of an ended run without an error is never needed. *)
GraphOutcome(state, failed) ==
    IF state = "CANCELED" /\ failed # "OK" THEN failed ELSE RunStatus(state)

(* poll once the run's state and the request's failure are known: it either
   stays GRAPH_ACTIVE or goes on to settle. *)
PollRun(d, state, failed) ==
    IF Concluded(state, token[d])
    THEN /\ graphStatus' = [graphStatus EXCEPT ![d] = GraphOutcome(state, failed)]
         /\ phase' = [phase EXCEPT ![d] = IF GraphOutcome(state, failed) = "OK"
                                          THEN "SETTLE_COMPLETE" ELSE "SETTLE_FAIL"]
         /\ call' = [call EXCEPT ![d] = "SETTLE"]
    ELSE UNCHANGED <<graphStatus, phase, call>>

Poll(d) ==
    /\ phase[d] = "GRAPH_RUNNING"
    /\ PollRun(d, run[token[d]], requestFailure[d])
    /\ UNCHANGED <<ledgerVars, record, token, requestFailure, scanned, admission, graph, owner,
                   faults, history>>

(* flow_inbox_driver_cancel, and the failed request that cancels its own run
   with status e.  The run may end on its own before the cancellation takes
   hold; turbo_flow_run_cancel answers OK all the same. *)
Cancel(d, e, state) ==
    /\ phase[d] = "GRAPH_RUNNING"
    /\ run[token[d]] = "ACTIVE"
    /\ state = "COMPLETED" => token[d] \notin pending
    /\ run' = [run EXCEPT ![token[d]] = state]
    /\ requestFailure' = [requestFailure EXCEPT ![d] = e]
    /\ PollRun(d, state, e)
    /\ UNCHANGED <<ledgerVars, record, token, scanned, admission, pending, owner, faults,
                   history>>

-----------------------------------------------------------------------------
(* flow_inbox_source_settle: the provider call and what the driver makes of
   its answer. *)

(* flow_inbox_source_release, with the state reported to the caller. *)
Release(d, state) ==
    /\ phase' = [phase EXCEPT ![d] = "IDLE"]
    /\ record' = [record EXCEPT ![d] = 0]
    /\ token' = [token EXCEPT ![d] = 0]
    /\ graphStatus' = [graphStatus EXCEPT ![d] = "OK"]
    /\ requestFailure' = [requestFailure EXCEPT ![d] = "OK"]
    /\ call' = [call EXCEPT ![d] = "NONE"]
    /\ scanned' = [scanned EXCEPT ![d] = "NONE"]
    /\ report' = [report EXCEPT ![token[d]] = state]

(* The driver keeps the claim; its thread returns to the caller. *)
Retain(d, p) ==
    /\ phase' = [phase EXCEPT ![d] = p]
    /\ call' = [call EXCEPT ![d] = "NONE"]
    /\ scanned' = [scanned EXCEPT ![d] = "NONE"]
    /\ UNCHANGED <<record, token, graphStatus, requestFailure, report>>

SettledAs(d) == IF phase[d] = "SETTLE_COMPLETE" THEN "COMPLETED" ELSE "FAILED"

(* The provider carries the settlement out. *)
CommitSettlement(d) ==
    /\ call[d] = "SETTLE"
    /\ ~Fenced(d)
    /\ \/ phase[d] = "SETTLE_COMPLETE" /\ CompleteRecord(record[d], token[d])
       \/ phase[d] = "SETTLE_FAIL" /\ FailRecord(record[d], token[d], graphStatus[d])
    /\ outcome' = [outcome EXCEPT ![token[d]] = SettledAs(d)]

SettleOk(d) ==
    /\ CommitSettlement(d)
    /\ Release(d, SettledAs(d))
    /\ UNCHANGED <<admission, graph, owner, faults>>

(* The provider settled the claim but answers with an error, or with EALREADY. *)
SettleUnheard(d) ==
    /\ CommitSettlement(d)
    /\ faults < MaxFaults
    /\ faults' = faults + 1
    /\ Retain(d, phase[d]) \/ Retain(d, "SETTLE_UNKNOWN")
    /\ UNCHANGED <<admission, graph, owner>>

(* Mutant: the claim is dropped although nothing was recorded. *)
SettleErrorReleases(d) ==
    /\ call[d] = "SETTLE"
    /\ faults < MaxFaults
    /\ faults' = faults + 1
    /\ Release(d, "NONE")
    /\ UNCHANGED <<ledgerVars, admission, graph, owner, outcome>>

(* The provider could not be reached: SETTLEMENT_PENDING. *)
SettleError(d) ==
    /\ call[d] = "SETTLE"
    /\ faults < MaxFaults
    /\ faults' = faults + 1
    /\ Retain(d, phase[d])
    /\ UNCHANGED <<ledgerVars, admission, graph, owner, outcome>>

(* EALREADY: the claim is no longer current. *)
SettleStale(d) ==
    /\ call[d] = "SETTLE"
    /\ ~Fenced(d)
    /\ lease[record[d]] # token[d]
    /\ Retain(d, "SETTLE_UNKNOWN")
    /\ UNCHANGED <<ledgerVars, admission, graph, owner, faults, outcome>>

(* Mutant: an answer from a lost owner is taken for success. *)
SettleFencedAsDone(d) ==
    /\ call[d] = "SETTLE"
    /\ Fenced(d)
    /\ Release(d, SettledAs(d))
    /\ UNCHANGED <<ledgerVars, admission, graph, owner, faults, outcome>>

(* ECANCELED: another owner has taken the store over. *)
SettleFenced(d) ==
    /\ call[d] = "SETTLE"
    /\ Fenced(d)
    /\ Release(d, "OWNER_LOST")
    /\ UNCHANGED <<ledgerVars, admission, graph, owner, faults, outcome>>

(* Mutant: only completions are retried. *)
RetryCompletion(d) ==
    /\ phase[d] = "SETTLE_COMPLETE"
    /\ call[d] = "NONE"
    /\ call' = [call EXCEPT ![d] = "SETTLE"]
    /\ UNCHANGED <<ledgerVars, phase, record, token, graphStatus, requestFailure, scanned,
                   admission, graph, owner, faults, history>>

(* flow_inbox_driver_retry_settlement *)
RetrySettlement(d) ==
    /\ phase[d] \in {"SETTLE_COMPLETE", "SETTLE_FAIL"}
    /\ call[d] = "NONE"
    /\ call' = [call EXCEPT ![d] = "SETTLE"]
    /\ UNCHANGED <<ledgerVars, phase, record, token, graphStatus, requestFailure, scanned,
                   admission, graph, owner, faults, history>>

-----------------------------------------------------------------------------
(* flow_inbox_driver_reconcile_settlement *)

(* Its first provider call, scan_failed. *)
ReconcileScanFailed(d) ==
    /\ phase[d] = "SETTLE_UNKNOWN"
    /\ call[d] = "NONE"
    /\ call' = [call EXCEPT ![d] = "SCAN_HISTORY"]
    /\ scanned' = [scanned EXCEPT ![d] =
          CASE ledger[record[d]] = "FAILED" -> failure[record[d]]
            [] ledger[record[d]] = "LOST" -> "LOST"
            [] OTHER -> "ABSENT"]
    /\ UNCHANGED <<ledgerVars, phase, record, token, graphStatus, requestFailure, admission,
                   graph, owner, faults, history>>

(* The scans show the settlement the driver had asked for. *)
Confirmed(d) ==
    IF graphStatus[d] = "OK"
    THEN ledger[record[d]] = "COMPLETED"
    ELSE scanned[d] = graphStatus[d] \/ ledger[record[d]] = "DISCARDED"

(* Its second provider call, scan_history, and the decision. *)
ReconcileScanHistory(d) ==
    LET failedMatch == scanned[d] # "ABSENT"
        historyMatch == ledger[record[d]] \in {"COMPLETED", "DISCARDED"}
    IN  /\ call[d] = "SCAN_HISTORY"
        /\ \/ /\ failedMatch = historyMatch
              /\ Retain(d, "SETTLE_UNKNOWN")
           \/ /\ failedMatch # historyMatch
              /\ scanned[d] = "LOST"
              /\ Release(d, "OWNER_LOST")
           \/ /\ failedMatch # historyMatch
              /\ scanned[d] # "LOST"
              /\ IF Confirmed(d)
                 THEN Release(d, IF graphStatus[d] = "OK" THEN "COMPLETED" ELSE "FAILED")
                 ELSE Retain(d, "SETTLE_UNKNOWN")
        /\ UNCHANGED <<ledgerVars, admission, graph, owner, faults, outcome>>

(* One of the two scans fails; the first leaves no trace. *)
ReconcileError(d) ==
    /\ call[d] = "SCAN_HISTORY"
    /\ faults < MaxFaults
    /\ faults' = faults + 1
    /\ Retain(d, "SETTLE_UNKNOWN")
    /\ UNCHANGED <<ledgerVars, admission, graph, owner, outcome>>

-----------------------------------------------------------------------------
(* The rest of the system around the drivers. *)

Admit(i, o) ==
    /\ AdmitRecord(i, o)
    /\ UNCHANGED <<driver, admission, graph, owner, faults, history>>

Operator(i) ==
    /\ RetryRecord(i) \/ DiscardRecord(i) \/ ForgetRecord(i)
    /\ UNCHANGED <<driver, admission, graph, owner, faults, history>>

TakeOver ==
    /\ owner < MaxOwners
    /\ owner' = owner + 1
    /\ TakeOverLedger
    /\ outcome' = [t \in Tokens |->
          IF \E i \in Ids : lease[i] = t /\ ledger[i] = "CLAIMED" THEN "LOST" ELSE outcome[t]]
    /\ UNCHANGED <<driver, admission, graph, faults, report>>

Settle(d) == SettleOk(d) \/ SettleStale(d) \/ SettleFenced(d)

Next ==
    \/ \E i \in Ids, o \in Offers : Admit(i, o)
    \/ \E i \in Ids : Operator(i)
    \/ TakeOver
    \/ \E a \in {"OPEN", "PAUSED", "CLOSED"} : SetAdmission(a)
    \/ \E t \in Tokens : ValueBegins(t) \/ ValueEnds(t)
    \/ \E t \in Tokens, state \in {"COMPLETED", "FAILED"} : RunEnds(t, state)
    \/ \E d \in Drivers, draining \in BOOLEAN, excluded \in SUBSET {o.key : o \in Offers} :
          \/ Request(d, draining, excluded)
          \/ \E e \in Errors : RequestFails(d, draining, excluded, e)
    \/ \E d \in Drivers, e \in Errors, state \in Ended : Cancel(d, e, state)
    \/ \E d \in Drivers :
          \/ Poll(d)
          \/ Settle(d) \/ SettleUnheard(d) \/ SettleError(d) \/ RetrySettlement(d)
          \/ ReconcileScanFailed(d) \/ ReconcileScanHistory(d) \/ ReconcileError(d)

(***************************************************************************)
(* Fairness.  Graph runs and their asynchronous values end.  The host      *)
(* keeps calling poll, retry_settlement and reconcile_settlement on a      *)
(* driver that is not idle, and a provider call returns.                   *)
(***************************************************************************)
Fairness ==
    /\ \A t \in Tokens :
          WF_vars(ValueEnds(t)) /\ WF_vars(\E state \in {"COMPLETED", "FAILED"} : RunEnds(t, state))
    /\ \A d \in Drivers :
          /\ WF_vars(Poll(d))
          /\ WF_vars(Settle(d) \/ SettleUnheard(d) \/ SettleError(d))
          /\ WF_vars(RetrySettlement(d))
          /\ WF_vars(ReconcileScanFailed(d))
          /\ WF_vars(ReconcileScanHistory(d) \/ ReconcileError(d))

Spec == Init /\ [][Next]_vars /\ Fairness

-----------------------------------------------------------------------------
(* Properties. *)

Executing(t) == run[t] = "ACTIVE" \/ t \in pending

(***************************************************************************)
(* While a claim is current or its driver still holds it, its Graph run is *)
(* the only one of that record: nothing executes for a claim that was      *)
(* settled, so a retried record never runs beside its earlier run.  Only a *)
(* lost claim may still be executing, in the owner that was replaced.      *)
(***************************************************************************)
NoRunAfterSettlement ==
    \A t \in Tokens : Executing(t) => outcome[t] \in {"NONE", "LOST"}

(***************************************************************************)
(* What a driver reports is what the provider did with that very claim,    *)
(* whatever became of the record in the meantime: COMPLETED and FAILED are *)
(* confirmed, and owner loss is only reported of a claim that is gone.     *)
(***************************************************************************)
ReportsTrue ==
    \A t \in Tokens :
        /\ report[t] \in {"COMPLETED", "FAILED"} => outcome[t] = report[t]
        /\ report[t] = "OWNER_LOST" => outcome[t] # "NONE"

(***************************************************************************)
(* No claim is abandoned: every claimed record is held by a driver of the  *)
(* current owner that is running its Graph or has its settlement pending.  *)
(***************************************************************************)
ClaimsAreHeld ==
    \A i \in StoredIn({"CLAIMED"}) :
        \E d \in Drivers :
            /\ ~Fenced(d) /\ record[d] = i /\ token[d] = lease[i]
            /\ phase[d] \in {"GRAPH_RUNNING", "SETTLE_COMPLETE", "SETTLE_FAIL"}

(* A claimed record is settled in the end: pending settlements are retried and
   none is forgotten. *)
ClaimsSettle == \A i \in Ids : ledger[i] = "CLAIMED" ~> ledger[i] # "CLAIMED"

(***************************************************************************)
(* The instance that is checked: two drivers of the first owner and one of *)
(* the second, on one record.                                              *)
(***************************************************************************)
MCOffers == {[adm |-> "a", key |-> "k1"]}
MCHostOf == [d \in Drivers |-> IF d = "d3" THEN 2 ELSE 1]
=============================================================================
