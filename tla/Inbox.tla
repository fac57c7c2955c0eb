------------------------------- MODULE Inbox -------------------------------
(***************************************************************************)
(* The in-memory Inbox provider of turbo_flow/src/flow_inbox.c: a bounded  *)
(* store of admitted records that are claimed, settled, retried, discarded *)
(* and forgotten.                                                          *)
(*                                                                         *)
(* One provider mutex makes every operation one critical section, except   *)
(* admit, which reserves a slot in one section, copies the record with the *)
(* mutex released, and publishes the copy in a second section.  Callers    *)
(* are the threads that may be inside admit at the same time.  An          *)
(* operation that returns an error changes nothing, so its early returns   *)
(* are the guards of its action; the status an operation would return is   *)
(* an operator of its own where a property speaks about it.                *)
(***************************************************************************)
EXTENDS Integers, FiniteSets, TLC

CONSTANTS
    Callers,          \* threads that call admit
    Offers,           \* the records callers offer (see OfferType)
    MaxRecords,       \* config.max_records
    MaxTotalBytes,    \* config.max_total_bytes
    MaxRecordBytes,   \* config.max_record_bytes
    MaxClaims,        \* config.max_claims
    NoOffer,          \* stands for the absent record behind a NULL pointer
    U64Max,           \* UINT64_MAX: ids, tokens and counters stop here
    SizeMax           \* SIZE_MAX: a record whose fields add up to more overflows

(***************************************************************************)
(* An offer is what the provider can tell apart in a                       *)
(* turbo_flow_inbox_record_t: adm is the pair (source_id, admission_id),   *)
(* key the partition key, body every other compared field, bytes the sum   *)
(* of the field lengths.                                                   *)
(***************************************************************************)
AdmissionIds == {o.adm : o \in Offers}
Keys == {o.key : o \in Offers}

(* flow_inbox_memory_config_valid, and the shape of an offer. *)
ASSUME ConfigValid ==
    /\ MaxRecords \in Nat \ {0}
    /\ MaxTotalBytes \in Nat \ {0}
    /\ MaxRecordBytes \in 1..MaxTotalBytes
    /\ MaxClaims \in 1..MaxRecords
    /\ U64Max \in Nat \ {0}
    /\ SizeMax \in Nat
    /\ MaxTotalBytes <= SizeMax

ASSUME OffersValid ==
    /\ NoOffer \notin Offers
    /\ \A o \in Offers :
          /\ o = [adm |-> o.adm, key |-> o.key, body |-> o.body, bytes |-> o.bytes]
          /\ o.bytes \in Nat \ {0}

Slots == 1..MaxRecords
Ids == 1..U64Max
Tokens == 1..U64Max

Phases == {"PENDING", "CLAIMED", "FAILED", "TOMBSTONE"}

(* A caller outside the unlocked window of admit. *)
Outside == [offer |-> NoOffer, slot |-> 0, id |-> 0, seen |-> {}]

(* TURBO_FLOW_INBOX_RECEIPT_INIT, to which an error resets the receipt. *)
NoReceipt == [offer |-> NoOffer, id |-> 0]

VARIABLES
    phase,            \* per slot: the record's phase, or "NULL" without a record
    offer,            \* per slot: the record's view (what was offered)
    recordId,         \* per slot: the record's record_id
    claimToken,       \* per slot: the record's claim_token
    failure,          \* per slot: the record's failure_status
    terminal,         \* per slot: the record's terminal_kind
    reserved,         \* the slots whose reserved flag is set
    retainedBytes, reservedBytes,
    reservedRecords, liveRecords, historyRecords, inFlight,
    nextRecordId,     \* U64Max + 1 stands for the flag record_id_exhausted
    nextClaimToken,   \* U64Max + 1 stands for the flag claim_token_exhausted
    admitted, completed, failed, retried, discarded,
    lifecycle,        \* "ACCEPTING", "CLOSED" (accepting is false) or "DESTROYED" (freed)
    window,           \* per caller: the reservation held between the two sections of admit
    receipt,          \* per caller: the receipt of its last admit (id 0 after an error)
    granted,          \* history: every <<record id, claim token>> claim handed out
    forgotten,        \* history: ids of forgotten records
    preceding         \* history: record id -> ids published before its admit began

record == <<phase, offer, recordId, claimToken, failure, terminal>>
counters == <<retainedBytes, reservedBytes, reservedRecords, liveRecords,
              historyRecords, inFlight>>
tallies == <<admitted, completed, failed, retried, discarded>>
admission == <<window, receipt, preceding>>

vars == <<record, reserved, counters, nextRecordId, nextClaimToken, tallies,
          lifecycle, admission, granted, forgotten>>

-----------------------------------------------------------------------------
(* Lookups. *)

Held == {s \in Slots : phase[s] # "NULL"}
InPhase(p) == {s \in Slots : phase[s] = p}
StoredIds == {recordId[s] : s \in Held}

(* flow_inbox_memory_find *)
Find(id) == {s \in Held : recordId[s] = id}

(* Mutant: the search skips tombstones. *)
FindLiveAdmission(o) == {s \in Held \ InPhase("TOMBSTONE") : offer[s].adm = o.adm}

(* flow_inbox_memory_find_admission: tombstones count. *)
FindAdmission(o) == {s \in Held : offer[s].adm = o.adm}

(* The slots the reservation loop of admit may take. *)
FreeSlots == {s \in Slots : phase[s] = "NULL" /\ s \notin reserved}

(* flow_inbox_claim_partition_excluded over the PENDING records. *)
Claimable(excluded) == {s \in InPhase("PENDING") : offer[s].key \notin excluded}

(* Mutant: the lowest slot is taken for the oldest record. *)
FirstSlot(S) == {s \in S : \A t \in S : s <= t}

(* The selection loop keeps the smallest record id. *)
Oldest(S) == {s \in S : \A t \in S : recordId[s] <= recordId[t]}

(* Mutant: the settlement forgets to compare the phase. *)
LeasesInAnyPhase(s, id, token) == s \in Find(id) /\ claimToken[s] = token

(* The caller's claim still names the current lease of the record in slot s. *)
Leases(s, id, token) ==
    /\ s \in Find(id)
    /\ phase[s] = "CLAIMED"
    /\ claimToken[s] = token

-----------------------------------------------------------------------------
(* Initial state: turbo_flow_inbox_memory_create. *)

Init ==
    /\ phase = [s \in Slots |-> "NULL"]
    /\ offer = [s \in Slots |-> NoOffer]
    /\ recordId = [s \in Slots |-> 0]
    /\ claimToken = [s \in Slots |-> 0]
    /\ failure = [s \in Slots |-> "OK"]
    /\ terminal = [s \in Slots |-> "NONE"]
    /\ reserved = {}
    /\ retainedBytes = 0 /\ reservedBytes = 0
    /\ reservedRecords = 0 /\ liveRecords = 0 /\ historyRecords = 0 /\ inFlight = 0
    /\ nextRecordId = 1
    /\ nextClaimToken = 1
    /\ admitted = 0 /\ completed = 0 /\ failed = 0 /\ retried = 0 /\ discarded = 0
    /\ lifecycle = "ACCEPTING"
    /\ window = [c \in Callers |-> Outside]
    /\ receipt = [c \in Callers |-> NoReceipt]
    /\ granted = {}
    /\ forgotten = {}
    /\ preceding = [i \in Ids |-> {}]

-----------------------------------------------------------------------------
(* flow_inbox_memory_admit, first critical section.                        *)

(* Mutant: only the count of admissions is checked. *)
CountExhausted == admitted = U64Max

(* The next record could not be counted or numbered. *)
IdsExhausted == admitted = U64Max \/ nextRecordId > U64Max

(* There is room, but callers between their two sections have reserved it. *)
Contended(o) ==
    \/ reservedRecords >= MaxRecords - liveRecords - historyRecords
    \/ reservedBytes > MaxTotalBytes - retainedBytes
    \/ o.bytes > MaxTotalBytes - retainedBytes - reservedBytes

(* Mutant: a replay is recognised by its admission identity alone. *)
AnyReceipt(s, o) == [offer |-> o, id |-> recordId[s]]

(* What admit answers for an offer whose identity is already stored in s:
   OK and the stored id for an exact replay, otherwise EPROTO. *)
ReplayReceipt(s, o) ==
    IF offer[s] = o THEN [offer |-> o, id |-> recordId[s]] ELSE NoReceipt

(***************************************************************************)
(* What the first section decides for offer o, in the order of its         *)
(* if-chain.  "RESERVE" stands for falling through to the reservation.     *)
(***************************************************************************)
AdmitStatus(o) ==
    IF FindAdmission(o) # {} THEN "REPLAY"
    ELSE IF lifecycle # "ACCEPTING" THEN "ESHUTDOWN"
    ELSE IF o.bytes > SizeMax THEN "ERANGE"
    ELSE IF o.bytes > MaxRecordBytes THEN "ENOSPC"
    ELSE IF IdsExhausted THEN "ERANGE"
    ELSE IF \/ liveRecords + historyRecords >= MaxRecords
            \/ o.bytes > MaxTotalBytes - retainedBytes THEN "ENOSPC"
    ELSE IF Contended(o) THEN "EBUSY"
    ELSE "RESERVE"

(* The section ends the call: an exact replay yields the stored id, anything
   else an error and the reset receipt. *)
AdmitReturn(c, o) ==
    /\ lifecycle # "DESTROYED"
    /\ window[c].slot = 0
    /\ AdmitStatus(o) # "RESERVE"
    /\ IF AdmitStatus(o) = "REPLAY"
       THEN \E s \in FindAdmission(o) :
               receipt' = [receipt EXCEPT ![c] = ReplayReceipt(s, o)]
       ELSE receipt' = [receipt EXCEPT ![c] = NoReceipt]
    /\ UNCHANGED <<record, reserved, counters, nextRecordId, nextClaimToken, tallies, lifecycle,
                   window, preceding, granted, forgotten>>

(* The section reserves the lowest free slot and a record id. *)
AdmitReserve(c, o) ==
    /\ lifecycle # "DESTROYED"
    /\ window[c].slot = 0
    /\ AdmitStatus(o) = "RESERVE"
    /\ \E s \in FreeSlots :
          /\ \A t \in FreeSlots : s <= t
          /\ reserved' = reserved \cup {s}
          /\ window' = [window EXCEPT ![c] = [offer |-> o, slot |-> s, id |-> nextRecordId,
                                              seen |-> StoredIds]]
    /\ nextRecordId' = nextRecordId + 1
    /\ reservedRecords' = reservedRecords + 1
    /\ reservedBytes' = reservedBytes + o.bytes
    /\ UNCHANGED <<record, retainedBytes, liveRecords, historyRecords, inFlight, nextClaimToken,
                   tallies, lifecycle, receipt, preceding, granted, forgotten>>

(* Mutant: the reserved bytes are not given back. *)
ReleaseSlotOnly(c) ==
    /\ reserved' = reserved \ {window[c].slot}
    /\ reservedRecords' = reservedRecords - 1
    /\ reservedBytes' = reservedBytes
    /\ window' = [window EXCEPT ![c] = Outside]

(* flow_inbox_memory_release_reservation *)
ReleaseReservation(c) ==
    /\ reserved' = reserved \ {window[c].slot}
    /\ reservedRecords' = reservedRecords - 1
    /\ reservedBytes' = reservedBytes - window[c].offer.bytes
    /\ window' = [window EXCEPT ![c] = Outside]

(* The copy outside the lock failed (ENOMEM): the reservation is given back,
   the record id is not. *)
AdmitCopyFails(c) ==
    /\ window[c].slot # 0
    /\ ReleaseReservation(c)
    /\ receipt' = [receipt EXCEPT ![c] = NoReceipt]
    /\ UNCHANGED <<record, retainedBytes, liveRecords, historyRecords, inFlight, nextRecordId,
                   nextClaimToken, tallies, lifecycle, preceding, granted, forgotten>>

(* Second critical section: another caller published the same admission
   identity during the copy. *)
AdmitLoses(c) ==
    /\ window[c].slot # 0
    /\ \E s \in FindAdmission(window[c].offer) :
          receipt' = [receipt EXCEPT ![c] = ReplayReceipt(s, window[c].offer)]
    /\ ReleaseReservation(c)
    /\ UNCHANGED <<record, retainedBytes, liveRecords, historyRecords, inFlight, nextRecordId,
                   nextClaimToken, tallies, lifecycle, preceding, granted, forgotten>>

(* The check of the second section on its reserved slot.  Its failure would
   return EPROTO; ReservationsHold shows that it cannot fail. *)
SlotUsable(s) == s \in reserved /\ phase[s] = "NULL"

(* Second critical section: the record is placed in the reserved slot. *)
AdmitPublish(c) ==
    /\ window[c].slot # 0
    /\ FindAdmission(window[c].offer) = {}
    /\ SlotUsable(window[c].slot)
    /\ phase' = [phase EXCEPT ![window[c].slot] = "PENDING"]
    /\ offer' = [offer EXCEPT ![window[c].slot] = window[c].offer]
    /\ recordId' = [recordId EXCEPT ![window[c].slot] = window[c].id]
    /\ retainedBytes' = retainedBytes + window[c].offer.bytes
    /\ liveRecords' = liveRecords + 1
    /\ admitted' = admitted + 1
    /\ receipt' = [receipt EXCEPT ![c] = [offer |-> window[c].offer, id |-> window[c].id]]
    /\ preceding' = [preceding EXCEPT ![window[c].id] = window[c].seen]
    /\ ReleaseReservation(c)
    /\ UNCHANGED <<claimToken, failure, terminal, historyRecords, inFlight, nextRecordId,
                   nextClaimToken, completed, failed, retried, discarded, lifecycle, granted,
                   forgotten>>

-----------------------------------------------------------------------------
(***************************************************************************)
(* flow_inbox_memory_claim_select: the oldest PENDING record outside the   *)
(* excluded partitions (none are excluded under GLOBAL ordering).          *)
(***************************************************************************)
Claim(excluded) ==
    /\ lifecycle # "DESTROYED"
    /\ inFlight < MaxClaims
    /\ nextClaimToken <= U64Max
    /\ \E s \in Oldest(Claimable(excluded)) :
          /\ phase' = [phase EXCEPT ![s] = "CLAIMED"]
          /\ claimToken' = [claimToken EXCEPT ![s] = nextClaimToken]
          /\ granted' = granted \cup {<<recordId[s], nextClaimToken>>}
    /\ nextClaimToken' = nextClaimToken + 1
    /\ inFlight' = inFlight + 1
    /\ UNCHANGED <<offer, recordId, failure, terminal, reserved, retainedBytes, reservedBytes,
                   reservedRecords, liveRecords, historyRecords, nextRecordId, tallies,
                   lifecycle, admission, forgotten>>

(* How complete and discard turn the record of slot s into a tombstone. *)
Retire(s, kind) ==
    /\ phase' = [phase EXCEPT ![s] = "TOMBSTONE"]
    /\ terminal' = [terminal EXCEPT ![s] = kind]

(* flow_inbox_memory_complete with a claim a caller was handed at some time. *)
Complete(id, token) ==
    /\ lifecycle # "DESTROYED"
    /\ completed < U64Max
    /\ \E s \in Slots :
          /\ Leases(s, id, token)
          /\ Retire(s, "COMPLETED")
          /\ claimToken' = [claimToken EXCEPT ![s] = 0]
    /\ inFlight' = inFlight - 1
    /\ liveRecords' = liveRecords - 1
    /\ historyRecords' = historyRecords + 1
    /\ completed' = completed + 1
    /\ UNCHANGED <<offer, recordId, failure, reserved, retainedBytes, reservedBytes,
                   reservedRecords, nextRecordId, nextClaimToken, admitted, failed, retried,
                   discarded, lifecycle, admission, granted, forgotten>>

(* flow_inbox_memory_fail; the wrapper refuses the status OK.  The token stays
   in the FAILED record. *)
Fail(id, token) ==
    /\ lifecycle # "DESTROYED"
    /\ failed < U64Max
    /\ \E s \in Slots :
          /\ Leases(s, id, token)
          /\ phase' = [phase EXCEPT ![s] = "FAILED"]
          /\ failure' = [failure EXCEPT ![s] = "ERROR"]
    /\ inFlight' = inFlight - 1
    /\ failed' = failed + 1
    /\ UNCHANGED <<offer, recordId, claimToken, terminal, reserved, retainedBytes,
                   reservedBytes, reservedRecords, liveRecords, historyRecords, nextRecordId,
                   nextClaimToken, admitted, completed, retried, discarded, lifecycle,
                   admission, granted, forgotten>>

(* flow_inbox_memory_retry *)
Retry(id) ==
    /\ lifecycle # "DESTROYED"
    /\ retried < U64Max
    /\ \E s \in Find(id) :
          /\ phase[s] = "FAILED"
          /\ phase' = [phase EXCEPT ![s] = "PENDING"]
          /\ failure' = [failure EXCEPT ![s] = "OK"]
    /\ retried' = retried + 1
    /\ UNCHANGED <<offer, recordId, claimToken, terminal, reserved, counters, nextRecordId,
                   nextClaimToken, admitted, completed, failed, discarded, lifecycle, admission,
                   granted, forgotten>>

(* flow_inbox_memory_discard *)
Discard(id) ==
    /\ lifecycle # "DESTROYED"
    /\ discarded < U64Max
    /\ \E s \in Find(id) :
          /\ phase[s] = "FAILED"
          /\ Retire(s, "DISCARDED")
    /\ liveRecords' = liveRecords - 1
    /\ historyRecords' = historyRecords + 1
    /\ discarded' = discarded + 1
    /\ UNCHANGED <<offer, recordId, claimToken, failure, reserved, retainedBytes, reservedBytes,
                   reservedRecords, inFlight, nextRecordId, nextClaimToken, admitted, completed,
                   failed, retried, lifecycle, admission, granted, forgotten>>

(* flow_inbox_memory_forget; a tombstone in a reserved slot would be EPROTO. *)
Forget(id) ==
    /\ lifecycle # "DESTROYED"
    /\ \E s \in Find(id) :
          /\ phase[s] = "TOMBSTONE"
          /\ s \notin reserved
          /\ phase' = [phase EXCEPT ![s] = "NULL"]
          /\ offer' = [offer EXCEPT ![s] = NoOffer]
          /\ recordId' = [recordId EXCEPT ![s] = 0]
          /\ claimToken' = [claimToken EXCEPT ![s] = 0]
          /\ failure' = [failure EXCEPT ![s] = "OK"]
          /\ terminal' = [terminal EXCEPT ![s] = "NONE"]
          /\ retainedBytes' = retainedBytes - offer[s].bytes
    /\ historyRecords' = historyRecords - 1
    /\ forgotten' = forgotten \cup {id}
    /\ UNCHANGED <<reserved, reservedBytes, reservedRecords, liveRecords, inFlight,
                   nextRecordId, nextClaimToken, tallies, lifecycle, admission, granted>>

(* flow_inbox_memory_close: refused while an admission holds a reservation. *)
Close ==
    /\ lifecycle # "DESTROYED"
    /\ reservedRecords = 0
    /\ lifecycle' = "CLOSED"
    /\ UNCHANGED <<record, reserved, counters, nextRecordId, nextClaimToken, tallies, admission,
                   granted, forgotten>>

(* Nothing is admitted, waiting or in flight. *)
Drained == liveRecords = 0 /\ reservedRecords = 0 /\ inFlight = 0

(* flow_inbox_memory_destroy: the tombstones that are left go with it. *)
Destroy ==
    /\ lifecycle = "CLOSED"
    /\ Drained
    /\ lifecycle' = "DESTROYED"
    /\ UNCHANGED <<record, reserved, counters, nextRecordId, nextClaimToken, tallies, admission,
                   granted, forgotten>>

Next ==
    \/ \E c \in Callers, o \in Offers : AdmitReturn(c, o) \/ AdmitReserve(c, o)
    \/ \E c \in Callers : AdmitCopyFails(c) \/ AdmitLoses(c) \/ AdmitPublish(c)
    \/ \E excluded \in SUBSET Keys : Claim(excluded)
    \/ \E id \in Ids, token \in Tokens :
          /\ <<id, token>> \in granted
          /\ Complete(id, token) \/ Fail(id, token)
    \/ \E id \in Ids : Retry(id) \/ Discard(id) \/ Forget(id)
    \/ Close
    \/ Destroy

Spec == Init /\ [][Next]_vars

-----------------------------------------------------------------------------
(* Properties. *)

OfferOrNone == Offers \cup {NoOffer}
WindowType == [offer : OfferOrNone, slot : 0..MaxRecords, id : 0..U64Max, seen : SUBSET Ids]
ReceiptType == [offer : OfferOrNone, id : 0..U64Max]
(* Types of the provider's fields, of the callers' locals and of the history. *)
TypeOK ==
    /\ phase \in [Slots -> Phases \cup {"NULL"}]
    /\ offer \in [Slots -> OfferOrNone]
    /\ recordId \in [Slots -> 0..U64Max]
    /\ claimToken \in [Slots -> 0..U64Max]
    /\ failure \in [Slots -> {"OK", "ERROR"}]
    /\ terminal \in [Slots -> {"NONE", "COMPLETED", "DISCARDED"}]
    /\ reserved \subseteq Slots
    /\ retainedBytes \in Int /\ reservedBytes \in Int
    /\ reservedRecords \in Int /\ liveRecords \in Int /\ historyRecords \in Int
    /\ inFlight \in Int
    /\ nextRecordId \in 1..(U64Max + 1) /\ nextClaimToken \in 1..(U64Max + 1)
    /\ admitted \in Int /\ completed \in Int /\ failed \in Int
    /\ retried \in Int /\ discarded \in Int
    /\ lifecycle \in {"ACCEPTING", "CLOSED", "DESTROYED"}
    /\ window \in [Callers -> WindowType]
    /\ receipt \in [Callers -> ReceiptType]
    /\ granted \subseteq Ids \X Tokens
    /\ forgotten \subseteq Ids
    /\ preceding \in [Ids -> SUBSET Ids]

Inside == {c \in Callers : window[c].slot # 0}

(***************************************************************************)
(* Every counter the provider keeps is the number of things it counts, and *)
(* no unsigned counter of the provider has been decremented below zero:    *)
(* the occupancy counters count slots by phase, and every record admitted  *)
(* is either still live or was completed or discarded once.                *)
(***************************************************************************)
CountersAgree ==
    /\ reservedRecords = Cardinality(reserved)
    /\ inFlight = Cardinality(InPhase("CLAIMED"))
    /\ historyRecords = Cardinality(InPhase("TOMBSTONE"))
    /\ liveRecords = Cardinality(InPhase("PENDING")) + inFlight + Cardinality(InPhase("FAILED"))
    /\ admitted = liveRecords + completed + discarded
    /\ failed = retried + discarded + Cardinality(InPhase("FAILED"))
    /\ completed + discarded = historyRecords + Cardinality(forgotten)

SumBytes(S, bytes(_)) ==
    LET sum[T \in SUBSET S] ==
          IF T = {} THEN 0 ELSE LET x == CHOOSE x \in T : TRUE IN bytes(x) + sum[T \ {x}]
    IN  sum[S]

(* The byte accounts of admit, release and forget match what is stored and what
   is being copied outside the lock. *)
BytesAgree ==
    /\ retainedBytes = SumBytes(Held, LAMBDA s : offer[s].bytes)
    /\ reservedBytes = SumBytes(Inside, LAMBDA c : window[c].offer.bytes)

(* At most one stored record per admission identity, although the identity is
   looked up in one critical section and published in another. *)
OneRecordPerAdmission ==
    \A s, t \in Held : offer[s].adm = offer[t].adm => s = t

(***************************************************************************)
(* A receipt is a promise: the record it names is stored with exactly the  *)
(* offered content until it is forgotten, also for the caller that lost    *)
(* the race to publish and was given the winner's id.                      *)
(***************************************************************************)
ReceiptsHold ==
    \A c \in Callers : receipt[c].id # 0 =>
        \/ receipt[c].id \in forgotten
        \/ \E s \in Find(receipt[c].id) : offer[s] = receipt[c].offer

(***************************************************************************)
(* Claims respect admission order within a partition: when record a was    *)
(* published before the admit of record b began and both share a key, b    *)
(* is never handed out before a was handed out at least once.              *)
(***************************************************************************)
PartitionFifo ==
    \A s, t \in Held :
        (/\ offer[s].key = offer[t].key
         /\ recordId[s] \in preceding[recordId[t]]
         /\ \E token \in Tokens : <<recordId[t], token>> \in granted)
        => \E token \in Tokens : <<recordId[s], token>> \in granted

(* Record ids are never reused: a record that appears in a slot has an id that
   no stored or forgotten record ever had. *)
IdsNeverReused ==
    [][\A s \in Slots : phase[s] = "NULL" /\ phase'[s] # "NULL" =>
          recordId'[s] \notin StoredIds \cup forgotten]_vars

(* What the slot of record id holds, where it has one. *)
Seen(id, field, none) ==
    LET at == Find(id) IN IF at = {} THEN none ELSE field[CHOOSE s \in at : TRUE]

(* The contract's view of a record id. *)
LedgerState(id) ==
    LET seen == Seen(id, phase, IF id \in forgotten THEN "FORGOTTEN" ELSE "UNUSED")
    IN  IF seen = "TOMBSTONE" THEN Seen(id, terminal, "NONE") ELSE seen

(* The refinement mapping. *)
LedgerOf == [id \in Ids |-> LedgerState(id)]
ContentOf == [id \in Ids |-> Seen(id, offer, NoOffer)]
LeaseOf == [id \in Ids |-> IF LedgerState(id) = "CLAIMED" THEN Seen(id, claimToken, 0) ELSE 0]
FailureOf == [id \in Ids |-> Seen(id, failure, "OK")]
IssuedOf == nextClaimToken - 1
AcceptingOf == IF lifecycle = "ACCEPTING" THEN "OPEN" ELSE "CLOSED"

Contract == INSTANCE InboxContract WITH
    Errors <- {"ERROR"}, ledger <- LedgerOf, content <- ContentOf, lease <- LeaseOf,
    failure <- FailureOf, issued <- IssuedOf, accepting <- AcceptingOf

(***************************************************************************)
(* flow_inbox_memory_* implements the contract of turbo_flow_inbox.h:      *)
(* seen from the record ids, the two critical sections of admit, the slots *)
(* and the counters come down to admitting a new identity once, claiming   *)
(* the oldest, settling by the current claim only, and never reusing an    *)
(* id.                                                                     *)
(***************************************************************************)
ImplementsContract == Contract!LedgerSpec

(***************************************************************************)
(* The instance that is checked: three offers of two admission identities. *)
(***************************************************************************)

(* "a" is offered in two versions that differ in key and body, so they
   conflict, and the second fills the store alone; the first shares its
   partition with "b". *)
MCOffers ==
    {[adm |-> "a", key |-> "k1", body |-> "x", bytes |-> 1],
     [adm |-> "a", key |-> "k2", body |-> "y", bytes |-> 3],
     [adm |-> "b", key |-> "k1", body |-> "x", bytes |-> 2]}

(* Callers are interchangeable. *)
CallerSymmetry == Permutations(Callers)
=============================================================================
