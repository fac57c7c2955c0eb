--------------------------- MODULE InboxContract ---------------------------
(***************************************************************************)
(* What an Inbox provider promises its callers, whatever it stores records *)
(* in: the contract of turbo_flow_inbox.h that the wrappers of             *)
(* turbo_flow/src/flow_inbox.c hold every provider to.                     *)
(*                                                                         *)
(* The ledger says of every record id how far its record has come.  The    *)
(* modules Inbox (in memory) and TurboDbInbox (in a database, with crashes *)
(* and takeovers) are shown to implement this specification, and the       *)
(* driver that runs Graphs on claimed records is checked on top of it.     *)
(***************************************************************************)
EXTENDS Integers

CONSTANTS
    Offers,      \* the records callers offer, with an identity adm and a key
    NoOffer,     \* content of a record that is not stored
    Ids,         \* record ids
    Tokens,      \* claim tokens
    Errors       \* the statuses fail may carry

VARIABLES
    ledger,      \* record id -> its state
    content,     \* record id -> the offer it stores
    lease,       \* record id -> the token of its current claim, or 0
    failure,     \* record id -> the status it FAILED with, or "OK"
    issued,      \* the last claim token handed out
    accepting    \* "OPEN" or "CLOSED"

ledgerVars == <<ledger, content, lease, failure, issued, accepting>>

States == {"UNUSED", "PENDING", "CLAIMED", "FAILED", "LOST", "COMPLETED", "DISCARDED",
           "FORGOTTEN"}

StoredIn(S) == {i \in Ids : ledger[i] \in S}

(* A record occupies the store until it is forgotten. *)
Stored == Ids \ StoredIn({"UNUSED", "FORGOTTEN"})

Live == StoredIn({"PENDING", "CLAIMED", "FAILED", "LOST"})

InitLedger ==
    /\ ledger = [i \in Ids |-> "UNUSED"]
    /\ content = [i \in Ids |-> NoOffer]
    /\ lease = [i \in Ids |-> 0]
    /\ failure = [i \in Ids |-> "OK"]
    /\ issued = 0
    /\ accepting \in {"OPEN", "CLOSED"}

(* admit: a new identity under a new id.  Replays and refusals change nothing. *)
AdmitRecord(i, o) ==
    /\ accepting = "OPEN"
    /\ ledger[i] = "UNUSED"
    /\ \A j \in Stored : content[j].adm # o.adm
    /\ ledger' = [ledger EXCEPT ![i] = "PENDING"]
    /\ content' = [content EXCEPT ![i] = o]
    /\ UNCHANGED <<lease, failure, issued, accepting>>

Eligible(excluded) == {i \in StoredIn({"PENDING"}) : content[i].key \notin excluded}

(* claim, claim_ex: the oldest pending record outside the excluded partitions,
   under the next token. *)
ClaimRecord(i, excluded) ==
    /\ i \in Eligible(excluded)
    /\ \A j \in Eligible(excluded) : i <= j
    /\ issued' = issued + 1 /\ issued' \in Tokens
    /\ lease' = [lease EXCEPT ![i] = issued']
    /\ ledger' = [ledger EXCEPT ![i] = "CLAIMED"]
    /\ UNCHANGED <<content, failure, accepting>>

(* complete: only by the current claim. *)
CompleteRecord(i, t) ==
    /\ ledger[i] = "CLAIMED" /\ lease[i] = t
    /\ ledger' = [ledger EXCEPT ![i] = "COMPLETED"]
    /\ lease' = [lease EXCEPT ![i] = 0]
    /\ UNCHANGED <<content, failure, issued, accepting>>

(* fail: only by the current claim. *)
FailRecord(i, t, e) ==
    /\ ledger[i] = "CLAIMED" /\ lease[i] = t
    /\ ledger' = [ledger EXCEPT ![i] = "FAILED"]
    /\ lease' = [lease EXCEPT ![i] = 0]
    /\ failure' = [failure EXCEPT ![i] = e]
    /\ UNCHANGED <<content, issued, accepting>>

(* retry: an operator makes a failed or lost record claimable again. *)
RetryRecord(i) ==
    /\ ledger[i] \in {"FAILED", "LOST"}
    /\ ledger' = [ledger EXCEPT ![i] = "PENDING"]
    /\ failure' = [failure EXCEPT ![i] = "OK"]
    /\ UNCHANGED <<content, lease, issued, accepting>>

(* discard: an operator gives a failed or lost record up. *)
DiscardRecord(i) ==
    /\ ledger[i] \in {"FAILED", "LOST"}
    /\ ledger' = [ledger EXCEPT ![i] = "DISCARDED"]
    /\ UNCHANGED <<content, lease, failure, issued, accepting>>

(* forget: a settled record leaves the store; its id is never used again. *)
ForgetRecord(i) ==
    /\ ledger[i] \in {"COMPLETED", "DISCARDED"}
    /\ ledger' = [ledger EXCEPT ![i] = "FORGOTTEN"]
    /\ content' = [content EXCEPT ![i] = NoOffer]
    /\ failure' = [failure EXCEPT ![i] = "OK"]
    /\ UNCHANGED <<lease, issued, accepting>>

(* close *)
CloseLedger ==
    /\ accepting' = "CLOSED"
    /\ UNCHANGED <<ledger, content, lease, failure, issued>>

(* A new owner takes the store over: what its predecessor had claimed becomes
   LOST, and nothing else changes. *)
TakeOverLedger ==
    /\ ledger' = [i \in Ids |-> IF ledger[i] = "CLAIMED" THEN "LOST" ELSE ledger[i]]
    /\ lease' = [i \in Ids |-> 0]
    /\ failure' = [i \in Ids |-> IF ledger[i] = "CLAIMED" THEN "EBUSY" ELSE failure[i]]
    /\ accepting' = "OPEN"
    /\ UNCHANGED <<content, issued>>

(* A new owner opens a store its predecessor closed and left without records
   to process. *)
ReopenLedger ==
    /\ accepting = "CLOSED"
    /\ Live = {}
    /\ accepting' = "OPEN"
    /\ UNCHANGED <<ledger, content, lease, failure, issued>>

NextLedger ==
    \/ \E i \in StoredIn({"UNUSED"}), o \in Offers : AdmitRecord(i, o)
    \/ \E excluded \in SUBSET {o.key : o \in Offers} :
          \E i \in Eligible(excluded) : ClaimRecord(i, excluded)
    \/ \E i \in StoredIn({"CLAIMED"}) :
          \/ CompleteRecord(i, lease[i])
          \/ \E e \in Errors : FailRecord(i, lease[i], e)
    \/ \E i \in StoredIn({"FAILED", "LOST"}) : RetryRecord(i) \/ DiscardRecord(i)
    \/ \E i \in StoredIn({"COMPLETED", "DISCARDED"}) : ForgetRecord(i)
    \/ CloseLedger
    \/ TakeOverLedger
    \/ ReopenLedger

LedgerSpec == InitLedger /\ [][NextLedger]_ledgerVars
=============================================================================
