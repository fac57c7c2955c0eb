---------------------------- MODULE TurboDbInbox ----------------------------
(***************************************************************************)
(* The Inbox provider that keeps its records in a database                 *)
(* (io/turbodb/src/turbo_flow_turbodb_inbox.c).                            *)
(*                                                                         *)
(* The database outlives the processes that open it.  Each process has a   *)
(* generation, a pool of connections, a table of leases and the flag       *)
(* accepting; its threads run one operation each.  A transaction is        *)
(* SERIALIZABLE and therefore one step; the locked sections around it      *)
(* (take a connection, reserve a lease, read the flag) are steps of their  *)
(* own, and so is a crash between any two of them.                         *)
(***************************************************************************)
EXTENDS Integers, FiniteSets, FiniteSetsExt, Functions

CONSTANTS
    Processes,       \* processes that may open the database
    Threads,         \* threads that call the provider
    ProcessOf,       \* thread -> its process
    Does,            \* thread -> the operations it calls
    Offers,          \* the records producers offer: identity adm, partition key, size
    NoOffer,
    Errors,          \* the statuses a claim may fail with
    Connections,     \* connection_count
    MaxRecords, MaxTotalBytes, MaxRecordBytes, MaxClaims,
    I64Max,          \* INT64_MAX: ids, tokens, generations and tallies stop there
    FirstGeneration  \* how often the database was opened, and closed empty, before

ASSUME ConfigValid ==
    /\ \A n \in {Connections, MaxRecords, MaxTotalBytes, MaxRecordBytes, MaxClaims, I64Max} :
           n \in Nat \ {0}
    /\ MaxRecordBytes <= MaxTotalBytes
    /\ ProcessOf \in [Threads -> Processes]
    /\ FirstGeneration \in 0 .. I64Max

VARIABLES
    meta,        \* the single row of <namespace>_inbox_meta_v3
    rows,        \* <namespace>_inbox_records_v3: record id -> row
    process,     \* process -> the inbox_owner_t it holds, or Down
    active,      \* process -> its leases in state ACTIVE
    thread,      \* thread -> the operation it is in
    writer       \* history: the generation of the last owner that committed

vars == <<meta, rows, process, active, thread, writer>>

Ids == 1 .. I64Max - 1
Down == [state |-> "DOWN", generation |-> 0, accepting |-> FALSE, closing |-> FALSE]
Idle == [op |-> "NONE", at |-> "IDLE", id |-> 0, token |-> 0, offer |-> NoOffer]

(* A migrated, empty database that nobody has open. *)
Init ==
    /\ meta = [generation |-> FirstGeneration, owner_state |-> "CLOSED", next_record_id |-> 1,
               next_claim_token |-> 1, records |-> 0, history_records |-> 0,
               pending_records |-> 0, failed_records |-> 0, in_flight_claims |-> 0,
               retained_bytes |-> 0, admitted |-> 0, completed |-> 0, failed |-> 0,
               retried |-> 0, discarded |-> 0]
    /\ rows = [i \in {} |-> Idle]
    /\ process = [p \in Processes |-> Down]
    /\ active = [p \in Processes |-> {}]
    /\ thread = [t \in Threads |-> Idle]
    /\ writer = FirstGeneration

-----------------------------------------------------------------------------
(* Connections and leases *)

ThreadsOf(p) == {t \in Threads : ProcessOf[t] = p}
Live(p) == process[p].state = "LIVE"

(* busy connections: one per thread inside a transaction *)
Busy(p) == {t \in ThreadsOf(p) : thread[t].at \in {"CONNECTED", "CHECKED", "REREAD"}}
FreeConnection(p) == Cardinality(Busy(p)) < Connections

(* leases that are RESERVED or SETTLING belong to the thread that made them so *)
Leasing(p) == {t \in ThreadsOf(p) : thread[t].op \in {"CLAIM", "COMPLETE", "FAIL"}}
LeaseCount(p) == Cardinality(active[p]) + Cardinality(Leasing(p))

Enter(t, op, at, id, token, offer) ==
    /\ Live(ProcessOf[t]) /\ thread[t] = Idle /\ op \in Does[t]
    /\ thread' = [thread EXCEPT ![t] = [op |-> op, at |-> at, id |-> id, token |-> token,
                                        offer |-> offer]]

MoveTo(t, at) == thread' = [thread EXCEPT ![t].at = at]
Return(t) == thread' = [thread EXCEPT ![t] = Idle]

(* The lease of a settlement goes back to ACTIVE. *)
Restore(t) ==
    active' = [active EXCEPT ![ProcessOf[t]] =
                   @ \cup {[id |-> thread[t].id, token |-> thread[t].token]}]

(* Mutant: a transaction that does not look at the generation. *)
CommitUnfenced(t, m, r) ==
    /\ meta' = m /\ rows' = r
    /\ writer' = process[ProcessOf[t]].generation

(* Every UPDATE of the meta row carries AND generation=?, and affects one row
   or the transaction rolls back. *)
Commit(t, m, r) ==
    /\ meta.generation = process[ProcessOf[t]].generation
    /\ meta' = m /\ rows' = r
    /\ writer' = process[ProcessOf[t]].generation

database == <<meta, rows, writer>>

-----------------------------------------------------------------------------
(* admit *)

StoredAs(o) == {i \in DOMAIN rows : rows[i].offer.adm = o.adm}

AdmitBegin(t, o) ==
    /\ FreeConnection(ProcessOf[t])
    /\ Enter(t, "ADMIT", "CONNECTED", 0, 0, o)
    /\ UNCHANGED <<database, process, active>>

(* A replay is answered from the row, also after close. *)
AdmitReplay(t) ==
    /\ thread[t].op = "ADMIT" /\ thread[t].at = "CONNECTED"
    /\ meta.generation = process[ProcessOf[t]].generation
    /\ StoredAs(thread[t].offer) # {}
    /\ Return(t)
    /\ UNCHANGED <<database, process, active>>

(* inbox_is_accepting is read inside the transaction, under the owner's lock. *)
AdmitCheck(t) ==
    /\ thread[t].op = "ADMIT" /\ thread[t].at = "CONNECTED"
    /\ meta.generation = process[ProcessOf[t]].generation
    /\ StoredAs(thread[t].offer) = {}
    /\ process[ProcessOf[t]].accepting
    /\ MoveTo(t, "CHECKED")
    /\ UNCHANGED <<database, process, active>>

(* ESHUTDOWN: the identity is new and the owner is not accepting. *)
AdmitRefused(t) ==
    /\ thread[t].op = "ADMIT" /\ thread[t].at = "CONNECTED"
    /\ meta.generation = process[ProcessOf[t]].generation
    /\ StoredAs(thread[t].offer) = {}
    /\ ~process[ProcessOf[t]].accepting
    /\ MoveTo(t, "REFUSED")
    /\ UNCHANGED <<database, process, active>>

AdmitCommit(t) ==
    LET o == thread[t].offer
    IN  /\ thread[t].op = "ADMIT" /\ thread[t].at = "CHECKED"
        /\ StoredAs(o) = {}
        /\ o.size <= MaxRecordBytes
        /\ meta.records + meta.history_records < MaxRecords
        /\ o.size <= MaxTotalBytes - meta.retained_bytes
        /\ meta.next_record_id # I64Max /\ meta.admitted # I64Max
        /\ Commit(t,
               [meta EXCEPT !.next_record_id = @ + 1, !.records = @ + 1,
                            !.pending_records = @ + 1, !.retained_bytes = @ + o.size,
                            !.admitted = @ + 1],
               [i \in DOMAIN rows \cup {meta.next_record_id} |->
                    IF i \in DOMAIN rows THEN rows[i]
                    ELSE [phase |-> "PENDING", claim_generation |-> 0, claim_token |-> 0,
                          failure_status |-> "OK", failure_kind |-> "PROCESSING",
                          terminal_kind |-> "NONE", offer |-> o]])
        /\ Return(t)
        /\ UNCHANGED <<process, active>>

-----------------------------------------------------------------------------
(* claim, claim_ex *)

ClaimReserve(t) ==
    /\ LeaseCount(ProcessOf[t]) < MaxClaims
    /\ Enter(t, "CLAIM", "LEASED", 0, 0, NoOffer)
    /\ UNCHANGED <<database, process, active>>

(* The lease is taken before the connection, for a claim and a settlement alike. *)
Connect(t) ==
    /\ thread[t].at = "LEASED"
    /\ FreeConnection(ProcessOf[t])
    /\ MoveTo(t, "CONNECTED")
    /\ UNCHANGED <<database, process, active>>

(* EBUSY: a reserved lease is freed, a settling one restored. *)
ConnectFails(t) ==
    /\ thread[t].at = "LEASED"
    /\ ~FreeConnection(ProcessOf[t])
    /\ Return(t)
    /\ IF thread[t].op = "CLAIM" THEN UNCHANGED active ELSE Restore(t)
    /\ UNCHANGED <<database, process>>

Eligible(excluded) == {i \in DOMAIN rows : rows[i].phase = "PENDING" /\ rows[i].offer.key \notin excluded}

(* Mutant: the newest record is claimed. *)
ClaimNewest(t, excluded) ==
    /\ thread[t].op = "CLAIM" /\ thread[t].at = "CONNECTED"
    /\ Eligible(excluded) # {}
    /\ meta.in_flight_claims < MaxClaims
    /\ meta.next_claim_token # I64Max
    /\ LET i == Max(Eligible(excluded))
       IN  /\ Commit(t,
                  [meta EXCEPT !.next_claim_token = @ + 1, !.pending_records = @ - 1,
                               !.in_flight_claims = @ + 1],
                  [rows EXCEPT ![i].phase = "CLAIMED",
                               ![i].claim_generation = process[ProcessOf[t]].generation,
                               ![i].claim_token = meta.next_claim_token])
           /\ thread' = [thread EXCEPT ![t].at = "COMMITTED", ![t].id = i,
                                       ![t].token = meta.next_claim_token]
    /\ UNCHANGED <<process, active>>

ClaimCommit(t, excluded) ==
    /\ thread[t].op = "CLAIM" /\ thread[t].at = "CONNECTED"
    /\ Eligible(excluded) # {}
    /\ meta.in_flight_claims < MaxClaims
    /\ meta.next_claim_token # I64Max
    /\ LET i == Min(Eligible(excluded))
       IN  /\ Commit(t,
                  [meta EXCEPT !.next_claim_token = @ + 1, !.pending_records = @ - 1,
                               !.in_flight_claims = @ + 1],
                  [rows EXCEPT ![i].phase = "CLAIMED",
                               ![i].claim_generation = process[ProcessOf[t]].generation,
                               ![i].claim_token = meta.next_claim_token])
           /\ thread' = [thread EXCEPT ![t].at = "COMMITTED", ![t].id = i,
                                       ![t].token = meta.next_claim_token]
    /\ UNCHANGED <<process, active>>

(* The transaction is committed and its connection released; only now does the
   lease become ACTIVE and the claim visible to the caller. *)
ClaimActivate(t) ==
    /\ thread[t].op = "CLAIM" /\ thread[t].at = "COMMITTED"
    /\ Restore(t)
    /\ Return(t)
    /\ UNCHANGED <<database, process>>

-----------------------------------------------------------------------------
(* complete, fail *)

(* ACTIVE -> SETTLING; without such a lease the call returns EALREADY. *)
SettleBegin(t, lease, op) ==
    /\ lease \in active[ProcessOf[t]]
    /\ Enter(t, op, "LEASED", lease.id, lease.token, NoOffer)
    /\ active' = [active EXCEPT ![ProcessOf[t]] = @ \ {lease}]
    /\ UNCHANGED <<database, process>>

Claimed(t) ==
    /\ thread[t].id \in DOMAIN rows
    /\ rows[thread[t].id].phase = "CLAIMED"
    /\ rows[thread[t].id].claim_token = thread[t].token
    /\ rows[thread[t].id].claim_generation = process[ProcessOf[t]].generation

(* Mutant: completing leaves the record among the live ones. *)
CompleteUncounted(t) ==
    /\ thread[t].op = "COMPLETE" /\ thread[t].at = "CONNECTED"
    /\ Claimed(t)
    /\ meta.completed # I64Max
    /\ Commit(t,
           [meta EXCEPT !.in_flight_claims = @ - 1, !.completed = @ + 1,
                        !.history_records = @ + 1],
           [rows EXCEPT ![thread[t].id].phase = "TOMBSTONE",
                        ![thread[t].id].terminal_kind = "COMPLETED"])
    /\ Return(t)
    /\ UNCHANGED <<process, active>>

CompleteCommit(t) ==
    /\ thread[t].op = "COMPLETE" /\ thread[t].at = "CONNECTED"
    /\ Claimed(t)
    /\ meta.completed # I64Max
    /\ Commit(t,
           [meta EXCEPT !.records = @ - 1, !.history_records = @ + 1,
                        !.in_flight_claims = @ - 1, !.completed = @ + 1],
           [rows EXCEPT ![thread[t].id].phase = "TOMBSTONE",
                        ![thread[t].id].terminal_kind = "COMPLETED"])
    /\ Return(t)
    /\ UNCHANGED <<process, active>>

FailCommit(t, status) ==
    /\ thread[t].op = "FAIL" /\ thread[t].at = "CONNECTED"
    /\ Claimed(t)
    /\ meta.failed # I64Max
    /\ Commit(t,
           [meta EXCEPT !.in_flight_claims = @ - 1, !.failed_records = @ + 1,
                        !.failed = @ + 1],
           [rows EXCEPT ![thread[t].id].phase = "FAILED",
                        ![thread[t].id].failure_status = status,
                        ![thread[t].id].failure_kind = "PROCESSING",
                        ![thread[t].id].terminal_kind = "NONE"])
    /\ Return(t)
    /\ UNCHANGED <<process, active>>

(* Mutant: an error frees the lease whatever the generation. *)
RereadFrees(t) ==
    /\ thread[t].at = "REREAD"
    /\ Return(t)
    /\ UNCHANGED <<database, process, active>>

(* After an error the generation is read once more, outside the transaction:
   a fenced owner's lease is freed (ECANCELED), any other is restored. *)
Reread(t) ==
    /\ thread[t].at = "REREAD"
    /\ Return(t)
    /\ \/ meta.generation # process[ProcessOf[t]].generation /\ UNCHANGED active
       \/ Restore(t)     \* the same generation, or the read fails too
    /\ UNCHANGED <<database, process>>

-----------------------------------------------------------------------------
(* retry, discard, forget *)

OperatorBegin(t, op, id) ==
    /\ FreeConnection(ProcessOf[t])
    /\ Enter(t, op, "CONNECTED", id, 0, NoOffer)
    /\ UNCHANGED <<database, process, active>>

InPhase(t, phase) == thread[t].id \in DOMAIN rows /\ rows[thread[t].id].phase = phase

RetryCommit(t) ==
    /\ thread[t].op = "RETRY" /\ thread[t].at = "CONNECTED"
    /\ InPhase(t, "FAILED")
    /\ meta.retried # I64Max
    /\ Commit(t,
           [meta EXCEPT !.failed_records = @ - 1, !.pending_records = @ + 1,
                        !.retried = @ + 1],
           [rows EXCEPT ![thread[t].id] = [@ EXCEPT !.phase = "PENDING",
                !.claim_generation = 0, !.claim_token = 0, !.failure_status = "OK",
                !.failure_kind = "PROCESSING", !.terminal_kind = "NONE"]])
    /\ Return(t)
    /\ UNCHANGED <<process, active>>

DiscardCommit(t) ==
    /\ thread[t].op = "DISCARD" /\ thread[t].at = "CONNECTED"
    /\ InPhase(t, "FAILED")
    /\ meta.discarded # I64Max
    /\ Commit(t,
           [meta EXCEPT !.records = @ - 1, !.history_records = @ + 1,
                        !.failed_records = @ - 1, !.discarded = @ + 1],
           [rows EXCEPT ![thread[t].id].phase = "TOMBSTONE",
                        ![thread[t].id].terminal_kind = "DISCARDED"])
    /\ Return(t)
    /\ UNCHANGED <<process, active>>

ForgetCommit(t) ==
    /\ thread[t].op = "FORGET" /\ thread[t].at = "CONNECTED"
    /\ InPhase(t, "TOMBSTONE")
    /\ Commit(t,
           [meta EXCEPT !.history_records = @ - 1,
                        !.retained_bytes = @ - rows[thread[t].id].offer.size],
           Restrict(rows, DOMAIN rows \ {thread[t].id}))
    /\ Return(t)
    /\ UNCHANGED <<process, active>>

-----------------------------------------------------------------------------
(* A transaction that does not commit: a condition above does not hold, the
   database is busy, or the commit fails.  Nothing is written.  The connection
   is released, except by a settlement, which first reads the generation again. *)
RollBack(t) ==
    /\ thread[t].at \in {"CONNECTED", "CHECKED"} /\ thread[t].op # "CLOSE"
    /\ IF thread[t].op \in {"COMPLETE", "FAIL"} THEN MoveTo(t, "REREAD") ELSE Return(t)
    /\ UNCHANGED <<database, process, active>>

(* The refused caller gets ESHUTDOWN. *)
RefusalReturns(t) ==
    /\ thread[t].at = "REFUSED"
    /\ Return(t)
    /\ UNCHANGED <<database, process, active>>

-----------------------------------------------------------------------------
(* close *)

(* accepting is switched off first; with another connection busy it is switched
   on again in the same critical section and close returns EBUSY. *)
CloseBegin(t) ==
    /\ FreeConnection(ProcessOf[t])
    /\ process[ProcessOf[t]].accepting
    /\ Busy(ProcessOf[t]) = {}
    /\ Enter(t, "CLOSE", "CONNECTED", 0, 0, NoOffer)
    /\ process' = [process EXCEPT ![ProcessOf[t]].accepting = FALSE,
                                  ![ProcessOf[t]].closing = TRUE]
    /\ UNCHANGED <<database, active>>

(* The no-op UPDATE commits if this owner is still the current one. *)
CloseCommit(t) ==
    /\ thread[t].op = "CLOSE" /\ thread[t].at = "CONNECTED"
    /\ Commit(t, meta, rows)
    /\ MoveTo(t, "COMMITTED")
    /\ UNCHANGED <<process, active>>

CloseRollBack(t) ==
    /\ thread[t].op = "CLOSE" /\ thread[t].at = "CONNECTED"
    /\ MoveTo(t, "ABORTED")
    /\ UNCHANGED <<database, process, active>>

(* The connection is released before the lock is taken again for the flags. *)
CloseEnd(t) ==
    /\ thread[t].op = "CLOSE" /\ thread[t].at \in {"COMMITTED", "ABORTED"}
    /\ process' = [process EXCEPT ![ProcessOf[t]].closing = FALSE,
                                  ![ProcessOf[t]].accepting = thread[t].at = "ABORTED"]
    /\ Return(t)
    /\ UNCHANGED <<database, active>>

-----------------------------------------------------------------------------
(* Processes *)

PhaseIs(S) == {i \in DOMAIN rows : rows[i].phase \in S}

RowValid(r) ==
    /\ r.phase = "PENDING" => /\ r.claim_generation = 0 /\ r.claim_token = 0
                              /\ r.failure_status = "OK" /\ r.terminal_kind = "NONE"
    /\ r.phase = "CLAIMED" => /\ r.claim_generation > 0
                              /\ r.claim_generation = meta.generation
                              /\ r.claim_token > 0
                              /\ r.failure_status = "OK" /\ r.terminal_kind = "NONE"
    /\ r.phase = "FAILED" => /\ r.failure_status # "OK"
                             /\ r.failure_kind \in {"PROCESSING", "OWNER_LOST"}
                             /\ r.terminal_kind = "NONE"
    /\ r.phase = "TOMBSTONE" => r.terminal_kind \in {"COMPLETED", "DISCARDED"}
    /\ r.offer.size <= MaxRecordBytes

(* inbox_preflight, without the checks of the schema: the meta row is consistent
   with itself, with the rows, and every row with its phase. *)
Preflight ==
    /\ \A f \in DOMAIN meta \ {"owner_state"} : meta[f] >= 0
    /\ meta.next_record_id >= 1 /\ meta.next_claim_token >= 1
    /\ meta.records + meta.history_records <= MaxRecords
    /\ meta.records = meta.pending_records + meta.failed_records + meta.in_flight_claims
    /\ meta.retained_bytes <= MaxTotalBytes
    /\ meta.owner_state = "CLOSED" => meta.records = 0
    /\ meta.records + meta.history_records <= meta.admitted
    /\ meta.completed + meta.discarded <= meta.admitted
    /\ meta.history_records <= meta.completed + meta.discarded
    /\ \A n \in {meta.failed_records, meta.retried, meta.discarded} : n <= meta.failed
    /\ meta.records = Cardinality(PhaseIs({"PENDING", "CLAIMED", "FAILED"}))
    /\ meta.history_records = Cardinality(PhaseIs({"TOMBSTONE"}))
    /\ meta.pending_records = Cardinality(PhaseIs({"PENDING"}))
    /\ meta.failed_records = Cardinality(PhaseIs({"FAILED"}))
    /\ meta.in_flight_claims = Cardinality(PhaseIs({"CLAIMED"}))
    /\ meta.retained_bytes = MapThenSumSet(LAMBDA i : rows[i].offer.size, DOMAIN rows)
    /\ \A i \in DOMAIN rows :
           /\ i < meta.next_record_id
           /\ rows[i].claim_token < meta.next_claim_token
           /\ RowValid(rows[i])

Opened(p) ==
    /\ meta.generation # I64Max
    /\ process' = [process EXCEPT ![p] = [state |-> "LIVE", generation |-> meta.generation + 1,
                                          accepting |-> TRUE, closing |-> FALSE]]
    /\ writer' = meta.generation + 1
    /\ UNCHANGED <<active, thread>>

OpenExclusive(p) ==
    /\ process[p] = Down
    /\ Preflight
    /\ meta.owner_state = "CLOSED"
    /\ meta' = [meta EXCEPT !.generation = @ + 1, !.owner_state = "ACTIVE",
                            !.failed_records = @ + meta.in_flight_claims,
                            !.failed = @ + meta.in_flight_claims,
                            !.in_flight_claims = 0]
    /\ rows' = rows
    /\ Opened(p)

(* The records the predecessor had claimed: it may or may not have run them. *)
OwnerLost == {i \in PhaseIs({"CLAIMED"}) : rows[i].claim_generation = meta.generation}

(* The operator names the generation it takes over; only the current one is
   fenced.  The predecessor may still be running. *)
OpenTakeover(p, expected) ==
    /\ process[p] = Down
    /\ Preflight
    /\ meta.owner_state = "ACTIVE" /\ meta.generation = expected
    /\ meta.in_flight_claims <= I64Max - meta.failed_records
    /\ meta.in_flight_claims <= I64Max - meta.failed
    /\ meta' = [meta EXCEPT !.generation = @ + 1, !.owner_state = "ACTIVE",
                            !.failed_records = @ + meta.in_flight_claims,
                            !.failed = @ + meta.in_flight_claims,
                            !.in_flight_claims = 0]
    /\ Cardinality(OwnerLost) = meta.in_flight_claims
    /\ rows' = [i \in DOMAIN rows |->
                    IF i \in OwnerLost
                    THEN [rows[i] EXCEPT !.phase = "FAILED", !.failure_status = "EBUSY",
                                         !.failure_kind = "OWNER_LOST"]
                    ELSE rows[i]]
    /\ Opened(p)

(* The host calls destroy alone.  A fenced owner may go once its leases are
   settled; the current one must be closed and have no records to process. *)
Destroy(p) ==
    /\ Live(p)
    /\ \A t \in ThreadsOf(p) : thread[t] = Idle
    /\ \/ /\ meta.generation # process[p].generation
          /\ LeaseCount(p) = 0
          /\ UNCHANGED database
       \/ /\ meta.generation = process[p].generation
          /\ ~process[p].accepting
          /\ meta.records = 0 /\ meta.in_flight_claims = 0
          /\ meta' = [meta EXCEPT !.owner_state = "CLOSED"]
          /\ writer' = process[p].generation
          /\ rows' = rows
    /\ process' = [process EXCEPT ![p] = Down]
    /\ active' = [active EXCEPT ![p] = {}]
    /\ UNCHANGED thread

(* The process dies, between any two steps of its threads. *)
Crash(p) ==
    /\ Live(p)
    /\ process' = [process EXCEPT ![p] = Down]
    /\ active' = [active EXCEPT ![p] = {}]
    /\ thread' = [t \in Threads |-> IF t \in ThreadsOf(p) THEN Idle ELSE thread[t]]
    /\ UNCHANGED database

-----------------------------------------------------------------------------

Admitting(t) ==
    \/ \E o \in Offers : AdmitBegin(t, o)
    \/ AdmitReplay(t) \/ AdmitCheck(t) \/ AdmitRefused(t) \/ AdmitCommit(t)
    \/ RefusalReturns(t)

Claiming(t) ==
    \/ ClaimReserve(t)
    \/ \E excluded \in SUBSET {o.key : o \in Offers} : ClaimCommit(t, excluded)
    \/ ClaimActivate(t)

Settling(t) ==
    \/ \E lease \in active[ProcessOf[t]], op \in {"COMPLETE", "FAIL"} : SettleBegin(t, lease, op)
    \/ CompleteCommit(t)
    \/ \E status \in Errors : FailCommit(t, status)
    \/ Reread(t)

Operating(t) ==
    \/ \E op \in {"RETRY", "DISCARD", "FORGET"}, id \in Ids : OperatorBegin(t, op, id)
    \/ RetryCommit(t) \/ DiscardCommit(t) \/ ForgetCommit(t)

Closing(t) == CloseBegin(t) \/ CloseCommit(t) \/ CloseRollBack(t) \/ CloseEnd(t)

Next ==
    \/ \E t \in Threads :
           \/ Admitting(t) \/ Claiming(t) \/ Settling(t) \/ Operating(t) \/ Closing(t)
           \/ Connect(t) \/ ConnectFails(t) \/ RollBack(t)
    \/ \E p \in Processes :
           \/ OpenExclusive(p)
           \/ \E expected \in 0 .. I64Max : OpenTakeover(p, expected)
           \/ Destroy(p)
           \/ Crash(p)

Spec == Init /\ [][Next]_vars

-----------------------------------------------------------------------------
(* Properties *)

(* Whatever the threads of an owner were doing when it died, and however often
   owners fenced each other, the next open finds a database inbox_preflight
   accepts: the counters of the meta row are those of the rows, and no row is
   half way between two phases. *)
PreflightPasses == Preflight

(* Only the current generation writes: a fenced owner that is still running
   commits nothing, neither a settlement nor an operator command. *)
OnlyCurrentOwnerWrites == writer = meta.generation

HeldLeases(p) ==
    active[p] \cup {[id |-> thread[t].id, token |-> thread[t].token] : t \in
                        {u \in Leasing(p) : thread[u].token # 0}}

(* As long as the current owner lives, its leases are exactly the claimed rows:
   an error on the way loses no lease, so that the record stays settleable, and
   leaves none behind that would use up max_claims. *)
LeasesAreClaims ==
    \A p \in Processes :
        (Live(p) /\ process[p].generation = meta.generation)
            => HeldLeases(p) =
                   {[id |-> i, token |-> rows[i].claim_token] : i \in PhaseIs({"CLAIMED"})}

LedgerState(i) ==
    IF i \notin DOMAIN rows
    THEN IF i < meta.next_record_id THEN "FORGOTTEN" ELSE "UNUSED"
    ELSE CASE rows[i].phase = "TOMBSTONE" -> rows[i].terminal_kind
           [] rows[i].phase = "FAILED" /\ rows[i].failure_kind = "OWNER_LOST" -> "LOST"
           [] OTHER -> rows[i].phase

OpenOwner(p) ==
    /\ Live(p) /\ process[p].generation = meta.generation
    /\ process[p].accepting \/ process[p].closing

Contract == INSTANCE InboxContract WITH
    Tokens <- 1 .. I64Max - 1,
    ledger <- [i \in Ids |-> LedgerState(i)],
    content <- [i \in Ids |-> IF i \in DOMAIN rows THEN rows[i].offer ELSE NoOffer],
    lease <- [i \in Ids |-> IF LedgerState(i) = "CLAIMED" THEN rows[i].claim_token ELSE 0],
    failure <- [i \in Ids |-> IF i \in DOMAIN rows THEN rows[i].failure_status ELSE "OK"],
    issued <- meta.next_claim_token - 1,
    accepting <- IF \E p \in Processes : OpenOwner(p) THEN "OPEN" ELSE "CLOSED"

(* A claimed record that is settled is settled by the caller that holds its claim. *)
SettledByItsClaim ==
    \A i \in PhaseIs({"CLAIMED"}) :
        meta'.generation = meta.generation /\ LedgerState(i)' # "CLAIMED"
            => \E t \in Threads :
                   /\ thread[t].op \in {"COMPLETE", "FAIL"} /\ thread'[t] = Idle
                   /\ thread[t].id = i /\ thread[t].token = rows[i].claim_token
                   /\ process[ProcessOf[t]].generation = meta.generation

(* With crashes, takeovers and failing transactions the database provider still
   implements the contract of turbo_flow_inbox.h: an identity is stored once, the
   oldest eligible record is claimed, a record is settled only by its current claim,
   the claims of a lost owner become LOST and nothing else does, and no id or token is
   used twice. *)
ImplementsContract == Contract!LedgerSpec /\ [][SettledByItsClaim]_vars

(***************************************************************************)
(* The instance that is checked: a process with a worker and a producer    *)
(* that is also the operator, and a second process that takes over, works  *)
(* the backlog off, retries and discards; two records of one partition.    *)
(***************************************************************************)
MCProcessOf == [t \in Threads |-> IF t = "successor" THEN "p2" ELSE "p1"]
MCDoes == [t \in Threads |->
    CASE t = "worker" -> {"CLAIM", "COMPLETE", "FAIL", "CLOSE"}
      [] t = "producer" -> {"ADMIT", "RETRY", "DISCARD", "FORGET"}
      [] t = "successor" -> {"CLAIM", "COMPLETE", "FAIL", "RETRY", "DISCARD"}]
MCOffers == {[adm |-> "a", key |-> "k1", size |-> 1], [adm |-> "b", key |-> "k1", size |-> 1]}
=============================================================================
