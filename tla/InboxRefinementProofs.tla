----------------------- MODULE InboxRefinementProofs -----------------------
(***************************************************************************)
(* The in-memory provider implements the contract of an Inbox, for every   *)
(* configuration.                                                          *)
(*                                                                         *)
(* Every step of the provider is a step of the contract or leaves its      *)
(* variables alone.  The argument needs the ids to name at most one slot   *)
(* (IdInv), the counters to be exact (a provider closes only when no       *)
(* caller is inside admit, which it reads off reserved_records), and what  *)
(* the slots hold of terminal kinds and failure statuses (ViewInv).        *)
(***************************************************************************)
EXTENDS InboxAdmissionProofs

(* A tombstone says how it ended, an empty slot carries no failure, and nobody
   is inside admit once the provider has closed. *)
ViewInv ==
    /\ \A s \in Slots : phase[s] = "TOMBSTONE" => terminal[s] \in {"COMPLETED", "DISCARDED"}
    /\ \A s \in Slots : phase[s] = "NULL" => failure[s] = "OK"
    /\ \A c \in Callers : window[c].slot # 0 => lifecycle = "ACCEPTING"

LEMMA ViewInvStep == BaseInv /\ CountersAgree /\ ViewInv /\ [Next]_vars => ViewInv'
<1> SUFFICES ASSUME BaseInv, CountersAgree, ViewInv, [Next]_vars PROVE ViewInv'
    OBVIOUS
<1>a. /\ phase \in [Slots -> Phases \cup {"NULL"}]
      /\ terminal \in [Slots -> {"NONE", "COMPLETED", "DISCARDED"}]
      /\ failure \in [Slots -> {"OK", "ERROR"}]
      /\ window \in [Callers -> WindowType]
    BY DEF BaseInv, TypeInv, TypeOK
<1>b. \A c \in Callers : window[c].slot = 0 \/ window[c].slot \in Slots
    BY WindowSlot DEF BaseInv, TypeInv
<1> USE <1>a, <1>b DEF ViewInv, record, admission
<1>1. CASE UNCHANGED vars
    BY <1>1 DEF vars
<1>2. ASSUME NEW c \in Callers, NEW o \in Offers, AdmitReturn(c, o)
      PROVE  ViewInv'
    BY <1>2 DEF AdmitReturn
<1>3. ASSUME NEW c \in Callers, NEW o \in Offers, AdmitReserve(c, o)
      PROVE  ViewInv'
  <2>1. lifecycle = "ACCEPTING"
      BY <1>3, ReserveGuard DEF AdmitReserve
  <2>. QED BY <1>3, <2>1 DEF AdmitReserve
<1>4. ASSUME NEW c \in Callers, AdmitCopyFails(c) \/ AdmitLoses(c)
      PROVE  ViewInv'
    BY <1>4 DEF AdmitCopyFails, AdmitLoses, ReleaseReservation, Outside
<1>5. ASSUME NEW c \in Callers, AdmitPublish(c)
      PROVE  ViewInv'
    BY <1>5 DEF AdmitPublish, ReleaseReservation, Outside
<1>6. ASSUME NEW excluded \in SUBSET Keys, Claim(excluded)
      PROVE  ViewInv'
    BY <1>6 DEF Claim, Oldest, Claimable, InPhase
<1>7. ASSUME NEW id \in Ids, NEW token \in Tokens, Complete(id, token)
      PROVE  ViewInv'
    BY <1>7 DEF Complete, Retire, Leases, Find, Held
<1>8. ASSUME NEW id \in Ids, NEW token \in Tokens, Fail(id, token)
      PROVE  ViewInv'
    BY <1>8 DEF Fail, Leases, Find, Held
<1>9. ASSUME NEW id \in Ids, Retry(id)
      PROVE  ViewInv'
    BY <1>9 DEF Retry, Find, Held
<1>10. ASSUME NEW id \in Ids, Discard(id)
       PROVE  ViewInv'
    BY <1>10 DEF Discard, Retire, Find, Held
<1>11. ASSUME NEW id \in Ids, Forget(id)
       PROVE  ViewInv'
    BY <1>11 DEF Forget, Find, Held
<1>12. CASE Close
  <2>1. Cardinality(reserved) = 0
      BY <1>12 DEF Close, CountersAgree
  <2>2. reserved = {}
      BY <2>1, FiniteParts, FS_EmptySet DEF BaseInv
  <2>3. \A c \in Callers : window[c].slot = 0
      BY <2>2 DEF BaseInv, ResInv
  <2>. QED BY <1>12, <2>3 DEF Close
<1>13. CASE Destroy
    BY <1>13 DEF Destroy
<1>. HIDE DEF ViewInv
<1>. QED BY ZenonT(30), <1>1, <1>2, <1>3, <1>4, <1>5, <1>6, <1>7, <1>8, <1>9, <1>10, <1>11, <1>12,
            <1>13 DEF Next

-----------------------------------------------------------------------------
(* The mapping, read off the slots. *)

Absent(i) == \A s \in Slots : phase[s] = "NULL" \/ recordId[s] # i

(* What the contract's variables say of a record that is stored, ... *)
SlotView(s) ==
    /\ LedgerOf[recordId[s]] = IF phase[s] = "TOMBSTONE" THEN terminal[s] ELSE phase[s]
    /\ ContentOf[recordId[s]] = offer[s]
    /\ LeaseOf[recordId[s]] = IF phase[s] = "CLAIMED" THEN claimToken[s] ELSE 0
    /\ FailureOf[recordId[s]] = failure[s]

(* ... and of an id that names none. *)
IdView(i) ==
    /\ LedgerOf[i] = IF i \in forgotten THEN "FORGOTTEN" ELSE "UNUSED"
    /\ ContentOf[i] = NoOffer
    /\ LeaseOf[i] = 0
    /\ FailureOf[i] = "OK"

ViewDomains ==
    /\ LedgerOf = [i \in Ids |-> LedgerOf[i]]
    /\ ContentOf = [i \in Ids |-> ContentOf[i]]
    /\ LeaseOf = [i \in Ids |-> LeaseOf[i]]
    /\ FailureOf = [i \in Ids |-> FailureOf[i]]

View ==
    /\ \A s \in Slots : phase[s] # "NULL" => SlotView(s)
    /\ \A i \in Ids : Absent(i) => IdView(i)
    /\ ViewDomains

LEMMA ViewCorrect == BaseInv /\ ViewInv => View
<1> SUFFICES ASSUME BaseInv, ViewInv PROVE View
    OBVIOUS
<1>1. ASSUME NEW s \in Slots, phase[s] # "NULL"
      PROVE  SlotView(s)
  <2>1. Find(recordId[s]) = {s} /\ recordId[s] \in Ids
      BY <1>1 DEF Find, Held, BaseInv, IdInv, TypeInv, Shape
  <2>2. (CHOOSE t \in {s} : TRUE) = s
      OBVIOUS
  <2>3. LedgerState(recordId[s]) = IF phase[s] = "TOMBSTONE" THEN terminal[s] ELSE phase[s]
      BY <2>1, <2>2 DEF LedgerState, Seen
  <2>4. (LedgerState(recordId[s]) = "CLAIMED") = (phase[s] = "CLAIMED")
      BY <2>3, <1>1 DEF ViewInv
  <2>. QED BY <2>1, <2>2, <2>3, <2>4 DEF SlotView, LedgerOf, ContentOf, LeaseOf, FailureOf, Seen
<1>2. ASSUME NEW i \in Ids, Absent(i)
      PROVE  IdView(i)
  <2>1. Find(i) = {}
      BY <1>2 DEF Find, Held, Absent
  <2>2. LedgerState(i) = IF i \in forgotten THEN "FORGOTTEN" ELSE "UNUSED"
      BY Zenon, <2>1 DEF LedgerState, Seen
  <2>. QED BY <2>1, <2>2 DEF IdView, LedgerOf, ContentOf, LeaseOf, FailureOf, Seen
<1>3. ViewDomains
    BY DEF ViewDomains, LedgerOf, ContentOf, LeaseOf, FailureOf
<1>. QED BY <1>1, <1>2, <1>3 DEF View

LEMMA ViewCorrectNext == (BaseInv /\ ViewInv)' => View'
BY ViewCorrect, PTL

(* A step that keeps the stored records keeps what the contract says of them. *)
LEMMA ViewKept ==
    ASSUME UNCHANGED <<phase, offer, recordId, claimToken, failure, terminal, forgotten>>
    PROVE  UNCHANGED <<LedgerOf, ContentOf, LeaseOf, FailureOf>>
BY DEF LedgerOf, ContentOf, LeaseOf, FailureOf, LedgerState, Seen, Find, Held

(* A step that changes the record of one slot in place changes the contract's
   entries of its id only. *)
LEMMA ViewMoved ==
    ASSUME View, View', TypeInv, NEW s \in Slots, NEW i \in Ids,
           phase[s] # "NULL", phase'[s] # "NULL", recordId[s] = i,
           UNCHANGED <<offer, recordId, forgotten>>,
           \A t \in Slots : t # s => /\ phase'[t] = phase[t] /\ terminal'[t] = terminal[t]
                                     /\ claimToken'[t] = claimToken[t]
                                     /\ failure'[t] = failure[t],
           \A t \in Slots : phase[t] # "NULL" /\ recordId[t] = i => t = s
    PROVE  /\ LedgerOf' = [LedgerOf EXCEPT ![i] =
                             IF phase'[s] = "TOMBSTONE" THEN terminal'[s] ELSE phase'[s]]
           /\ ContentOf' = ContentOf
           /\ LeaseOf' = [LeaseOf EXCEPT ![i] = IF phase'[s] = "CLAIMED" THEN claimToken'[s] ELSE 0]
           /\ FailureOf' = [FailureOf EXCEPT ![i] = failure'[s]]
<1>1. /\ LedgerOf'[i] = IF phase'[s] = "TOMBSTONE" THEN terminal'[s] ELSE phase'[s]
      /\ ContentOf'[i] = ContentOf[i]
      /\ LeaseOf'[i] = IF phase'[s] = "CLAIMED" THEN claimToken'[s] ELSE 0
      /\ FailureOf'[i] = failure'[s]
    BY SMTT(30) DEF View, SlotView
<1>2. ASSUME NEW j \in Ids, j # i
      PROVE  /\ LedgerOf'[j] = LedgerOf[j] /\ ContentOf'[j] = ContentOf[j]
             /\ LeaseOf'[j] = LeaseOf[j] /\ FailureOf'[j] = FailureOf[j]
  <2>1. CASE Absent(j)
    <3>1. Absent(j)'
        BY <1>2, <2>1 DEF Absent
    <3>2. IdView(j) /\ IdView(j)'
        BY Zenon, <2>1, <3>1 DEF View
    <3>. QED BY ZenonT(30), <1>2, <3>1, <3>2 DEF IdView
  <2>2. ASSUME NEW t \in Slots, phase[t] # "NULL", recordId[t] = j
        PROVE  /\ LedgerOf'[j] = LedgerOf[j] /\ ContentOf'[j] = ContentOf[j]
               /\ LeaseOf'[j] = LeaseOf[j] /\ FailureOf'[j] = FailureOf[j]
    <3>1. t # s /\ recordId'[t] = j /\ phase'[t] # "NULL"
        BY <1>2, <2>2
    <3>2. SlotView(t) /\ SlotView(t)'
        BY Zenon, <2>2, <3>1 DEF View
    <3>. QED BY <2>2, <3>1, <3>2 DEF SlotView
  <2>. QED BY <2>1, <2>2 DEF Absent
<1>3. ViewDomains /\ ViewDomains'
    BY DEF View
<1>. QED BY SMTT(30), <1>1, <1>2, <1>3 DEF ViewDomains

(* What the contract requires of a claim, a settlement, a retry, a discard. *)
LEMMA ViewStates ==
    ASSUME View, BaseInv, NEW s \in Slots, phase[s] # "NULL"
    PROVE  /\ recordId[s] \in Ids
           /\ \A t \in Slots : phase[t] # "NULL" /\ recordId[t] = recordId[s] => t = s
           /\ phase[s] # "TOMBSTONE" => LedgerOf[recordId[s]] = phase[s]
           /\ phase[s] = "CLAIMED" => LeaseOf[recordId[s]] = claimToken[s]
           /\ phase[s] # "CLAIMED" => LeaseOf[recordId[s]] = 0
           /\ FailureOf[recordId[s]] = failure[s]
           /\ ContentOf[recordId[s]] = offer[s]
BY ZenonT(30) DEF View, SlotView, BaseInv, TypeInv, Shape, IdInv

(* An id the contract takes for stored has a slot. *)
LEMMA ViewSlots ==
    ASSUME View, NEW j \in Ids, LedgerOf[j] \notin {"UNUSED", "FORGOTTEN"}
    PROVE  \E t \in Slots : phase[t] # "NULL" /\ recordId[t] = j
BY ZenonT(30) DEF View, Absent, IdView

-----------------------------------------------------------------------------
(* Every step of the provider is a step of the contract. *)

LEMMA PublishIsAdmit ==
    ASSUME BaseInv, ViewInv, View, View', NEW c \in Callers, AdmitPublish(c)
    PROVE  Contract!NextLedger
<1>a. /\ phase \in [Slots -> Phases \cup {"NULL"}]
      /\ offer \in [Slots -> OfferOrNone]
      /\ recordId \in [Slots -> 0..U64Max]
    BY DEF BaseInv, TypeInv, TypeOK
<1>1. PICK new \in Slots, i \in Ids, o \in Offers :
         new = window[c].slot /\ i = window[c].id /\ o = window[c].offer
    BY ZenonT(30), WindowSlot DEF AdmitPublish, BaseInv, TypeInv, Shape
<1>2. /\ phase[new] = "NULL" /\ phase'[new] = "PENDING"
      /\ recordId'[new] = i /\ offer'[new] = o /\ failure[new] = "OK"
      /\ \A s \in Slots : s # new =>
            phase'[s] = phase[s] /\ recordId'[s] = recordId[s] /\ offer'[s] = offer[s]
      /\ UNCHANGED <<claimToken, failure, terminal, forgotten, nextClaimToken, lifecycle>>
    BY ZenonT(30), <1>1, <1>a DEF AdmitPublish, SlotUsable, ViewInv
<1>3. Absent(i) /\ i \notin forgotten
    BY ZenonT(30), <1>1 DEF AdmitPublish, BaseInv, IdInv, Absent
<1>4. /\ LedgerOf[i] = "UNUSED" /\ LedgerOf'[i] = "PENDING"
      /\ ContentOf'[i] = o
      /\ LeaseOf[i] = 0 /\ LeaseOf'[i] = 0
      /\ FailureOf[i] = "OK" /\ FailureOf'[i] = "OK"
  <2>1. IdView(i)
      BY Zenon, <1>3 DEF View
  <2>2. SlotView(new)'
      BY Zenon, <1>2 DEF View
  <2>3. /\ LedgerOf[i] = "UNUSED" /\ LeaseOf[i] = 0 /\ FailureOf[i] = "OK"
      BY ZenonT(30), <1>3, <2>1 DEF IdView
  <2>4. /\ LedgerOf'[i] = "PENDING" /\ ContentOf'[i] = o
        /\ LeaseOf'[i] = 0 /\ FailureOf'[i] = "OK"
      BY ZenonT(30), <1>2, <2>2 DEF SlotView
  <2>. QED BY ZenonT(30), <2>3, <2>4
<1>5. ASSUME NEW j \in Ids, j # i
      PROVE  /\ LedgerOf'[j] = LedgerOf[j] /\ ContentOf'[j] = ContentOf[j]
             /\ LeaseOf'[j] = LeaseOf[j] /\ FailureOf'[j] = FailureOf[j]
  <2>1. CASE Absent(j)
    <3>1. Absent(j)'
        BY ZenonT(30), <1>2, <1>5, <2>1 DEF Absent
    <3>2. IdView(j) /\ IdView(j)'
        BY ZenonT(30), <2>1, <3>1 DEF View
    <3>. QED BY ZenonT(30), <1>2, <3>1, <3>2 DEF IdView
  <2>2. ASSUME NEW t \in Slots, phase[t] # "NULL", recordId[t] = j
        PROVE  /\ LedgerOf'[j] = LedgerOf[j] /\ ContentOf'[j] = ContentOf[j]
               /\ LeaseOf'[j] = LeaseOf[j] /\ FailureOf'[j] = FailureOf[j]
    <3>1. /\ t # new /\ recordId'[t] = j /\ phase'[t] = phase[t] /\ offer'[t] = offer[t]
          /\ phase'[t] # "NULL"
        BY ZenonT(30), <1>2, <2>2
    <3>2. SlotView(t) /\ SlotView(t)'
        BY Zenon, <2>2, <3>1 DEF View
    <3>. QED BY ZenonT(30), <1>2, <2>2, <3>1, <3>2 DEF SlotView
  <2>. QED BY <2>1, <2>2 DEF Absent
<1>6. ViewDomains /\ ViewDomains'
    BY DEF View
<1>7. /\ LedgerOf' = [LedgerOf EXCEPT ![i] = "PENDING"]
      /\ ContentOf' = [ContentOf EXCEPT ![i] = o]
      /\ LeaseOf' = LeaseOf /\ FailureOf' = FailureOf
    BY SMTT(30), <1>4, <1>5, <1>6 DEF ViewDomains
<1>8. /\ AcceptingOf = "OPEN" /\ AcceptingOf' = AcceptingOf /\ IssuedOf' = IssuedOf
    BY ZenonT(30), <1>2 DEF AcceptingOf, IssuedOf, ViewInv, AdmitPublish
<1>9. \A j \in Contract!Stored : ContentOf[j].adm # o.adm
  <2> SUFFICES ASSUME NEW j \in Contract!Stored PROVE ContentOf[j].adm # o.adm
      OBVIOUS
  <2>1. j \in Ids /\ LedgerOf[j] \notin {"UNUSED", "FORGOTTEN"}
      BY DEF Contract!Stored, Contract!StoredIn
  <2>2. PICK t \in Slots : phase[t] # "NULL" /\ recordId[t] = j
      BY SMTT(30), <2>1, ViewSlots
  <2>3. ContentOf[j] = offer[t]
      BY ZenonT(30), <2>2, ViewStates
  <2>4. offer[t].adm # o.adm
      BY ZenonT(30), <1>1, <2>2 DEF AdmitPublish, FindAdmission, Held
  <2>. QED BY <2>3, <2>4
<1>10. Contract!AdmitRecord(i, o)
    BY ZenonT(30), <1>4, <1>7, <1>8, <1>9 DEF Contract!AdmitRecord
<1>11. i \in Contract!StoredIn({"UNUSED"})
    BY ZenonT(30), <1>4 DEF Contract!StoredIn
<1>. QED BY <1>10, <1>11 DEF Contract!NextLedger

LEMMA ClaimIsClaim ==
    ASSUME BaseInv, ViewInv, View, View', NEW excluded \in SUBSET Keys, Claim(excluded)
    PROVE  Contract!NextLedger
<1>a. /\ phase \in [Slots -> Phases \cup {"NULL"}]
      /\ claimToken \in [Slots -> 0..U64Max]
      /\ nextClaimToken \in 1..(U64Max + 1)
      /\ TypeInv
    BY ZenonT(30) DEF BaseInv, TypeInv, TypeOK
<1>1. PICK s \in Oldest(Claimable(excluded)) :
         /\ phase' = [phase EXCEPT ![s] = "CLAIMED"]
         /\ claimToken' = [claimToken EXCEPT ![s] = nextClaimToken]
    BY ZenonT(30) DEF Claim
<1>2. /\ s \in Slots /\ phase[s] = "PENDING" /\ offer[s].key \notin excluded
      /\ \A t \in Slots : phase[t] = "PENDING" /\ offer[t].key \notin excluded =>
            recordId[s] <= recordId[t]
    BY ZenonT(30) DEF Oldest, Claimable, InPhase
<1>3. PICK i \in Ids : i = recordId[s]
    BY ZenonT(30), <1>2, ViewStates
<1>4. UNCHANGED <<offer, recordId, failure, terminal, forgotten, lifecycle>>
    BY DEF Claim
<1>5. /\ phase'[s] = "CLAIMED" /\ claimToken'[s] = nextClaimToken
      /\ \A t \in Slots : t # s => phase'[t] = phase[t] /\ claimToken'[t] = claimToken[t]
    BY ZenonT(30), <1>a, <1>1, <1>2
<1>6. \A t \in Slots : phase[t] # "NULL" /\ recordId[t] = i => t = s
    BY ZenonT(30), <1>2, <1>3, ViewStates
<1>7. /\ LedgerOf' = [LedgerOf EXCEPT ![i] = "CLAIMED"]
      /\ ContentOf' = ContentOf
      /\ LeaseOf' = [LeaseOf EXCEPT ![i] = nextClaimToken]
      /\ FailureOf' = [FailureOf EXCEPT ![i] = failure'[s]]
    BY SMTT(30), <1>a, <1>2, <1>3, <1>4, <1>5, <1>6, ViewMoved
<1>8. FailureOf' = FailureOf
  <2>1. FailureOf[i] = failure'[s]
      BY ZenonT(30), <1>2, <1>3, <1>4, ViewStates
  <2>. QED BY SMTT(30), <1>7, <2>1 DEF View, ViewDomains
<1>9. /\ IssuedOf' = IssuedOf + 1 /\ IssuedOf' \in Tokens /\ IssuedOf' = nextClaimToken
      /\ AcceptingOf' = AcceptingOf
    BY SMTT(30), <1>4, <1>a, Ranges, ConfigValid DEF IssuedOf, AcceptingOf, Claim
<1>10. ASSUME NEW j \in Contract!Eligible(excluded)
       PROVE  i <= j
  <2>1. /\ j \in Ids /\ LedgerOf[j] = "PENDING" /\ ContentOf[j].key \notin excluded
      BY DEF Contract!Eligible, Contract!StoredIn
  <2>2. PICK t \in Slots : phase[t] # "NULL" /\ recordId[t] = j
      BY ZenonT(30), <2>1, ViewSlots
  <2>3. LedgerOf[j] = IF phase[t] = "TOMBSTONE" THEN terminal[t] ELSE phase[t]
      BY ZenonT(30), <2>2 DEF View, SlotView
  <2>4. phase[t] = "PENDING"
      BY ZenonT(30), <2>1, <2>2, <2>3 DEF ViewInv
  <2>5. ContentOf[j] = offer[t]
      BY ZenonT(30), <2>2, ViewStates
  <2>. QED BY ZenonT(30), <1>2, <1>3, <2>1, <2>2, <2>4, <2>5
<1>11. i \in Contract!Eligible(excluded)
    BY ZenonT(30), <1>2, <1>3, ViewStates DEF Contract!Eligible, Contract!StoredIn
<1>12. Contract!ClaimRecord(i, excluded)
    BY ZenonT(30), <1>7, <1>8, <1>9, <1>10, <1>11 DEF Contract!ClaimRecord
<1>. QED BY ZenonT(30), <1>11, <1>12 DEF Contract!NextLedger, Keys

(* What the four settling operations do to the slot s of record i, ... *)
SettlesSlot(s, i, p, f) ==
    /\ phase[s] # "NULL" /\ recordId[s] = i
    /\ phase' = [phase EXCEPT ![s] = p] /\ p # "CLAIMED"
    /\ failure'[s] = f
    /\ \A t \in Slots : t # s => /\ terminal'[t] = terminal[t]
                                 /\ claimToken'[t] = claimToken[t]
                                 /\ failure'[t] = failure[t]
    /\ UNCHANGED <<offer, recordId, forgotten, nextClaimToken, lifecycle>>

(* ... and what they do to the contract's view of it. *)
SettlesRecord(i, state, f) ==
    /\ LedgerOf' = [LedgerOf EXCEPT ![i] = state]
    /\ ContentOf' = ContentOf
    /\ LeaseOf' = [LeaseOf EXCEPT ![i] = 0]
    /\ FailureOf' = [FailureOf EXCEPT ![i] = f]
    /\ IssuedOf' = IssuedOf /\ AcceptingOf' = AcceptingOf

LEMMA SettleView ==
    ASSUME BaseInv, View, View', NEW s \in Slots, NEW i \in Ids, NEW p \in Phases, NEW f,
           SettlesSlot(s, i, p, f),
           NEW state, state = IF p = "TOMBSTONE" THEN terminal'[s] ELSE p
    PROVE  /\ SettlesRecord(i, state, f)
           /\ failure[s] = f => FailureOf' = FailureOf
           /\ phase[s] # "CLAIMED" => LeaseOf' = LeaseOf
<1> USE DEF SettlesSlot
<1>1. phase \in [Slots -> Phases \cup {"NULL"}] /\ TypeInv
    BY ZenonT(30) DEF BaseInv, TypeInv, TypeOK
<1>2. /\ phase'[s] = p /\ phase'[s] # "NULL"
      /\ \A t \in Slots : t # s => phase'[t] = phase[t]
    BY ZenonT(30), <1>1 DEF Phases
<1>3. \A t \in Slots : phase[t] # "NULL" /\ recordId[t] = i => t = s
    BY ZenonT(30), ViewStates
<1>4. /\ LedgerOf' = [LedgerOf EXCEPT ![i] = IF p = "TOMBSTONE" THEN terminal'[s] ELSE p]
      /\ ContentOf' = ContentOf
      /\ LeaseOf' = [LeaseOf EXCEPT ![i] = 0]
      /\ FailureOf' = [FailureOf EXCEPT ![i] = failure'[s]]
  <2>1. /\ LedgerOf' = [LedgerOf EXCEPT ![i] =
                           IF phase'[s] = "TOMBSTONE" THEN terminal'[s] ELSE phase'[s]]
        /\ ContentOf' = ContentOf
        /\ LeaseOf' = [LeaseOf EXCEPT ![i] = IF phase'[s] = "CLAIMED" THEN claimToken'[s] ELSE 0]
        /\ FailureOf' = [FailureOf EXCEPT ![i] = failure'[s]]
      BY ZenonT(90), <1>1, <1>2, <1>3, ViewMoved
  <2>. QED BY ZenonT(30), <1>2, <2>1
<1>5. /\ FailureOf[i] = failure[s]
      /\ phase[s] # "CLAIMED" => LeaseOf[i] = 0
    BY ZenonT(30), ViewStates
<1>6. /\ LeaseOf = [j \in Ids |-> LeaseOf[j]]
      /\ FailureOf = [j \in Ids |-> FailureOf[j]]
    BY ZenonT(30) DEF View, ViewDomains
<1>. QED BY ZenonT(30), <1>4, <1>5, <1>6 DEF SettlesRecord, IssuedOf, AcceptingOf

LEMMA CompleteIsComplete ==
    ASSUME BaseInv, View, View', NEW id \in Ids, NEW token \in Tokens, Complete(id, token)
    PROVE  Contract!NextLedger
<1>1. PICK s \in Slots : Leases(s, id, token) /\ Retire(s, "COMPLETED")
                         /\ claimToken' = [claimToken EXCEPT ![s] = 0]
    BY Zenon DEF Complete
<1>2. /\ recordId[s] = id /\ phase[s] = "CLAIMED" /\ claimToken[s] = token
      /\ phase' = [phase EXCEPT ![s] = "TOMBSTONE"]
      /\ terminal'[s] = "COMPLETED"
      /\ \A t \in Slots : t # s => /\ terminal'[t] = terminal[t]
                                    /\ claimToken'[t] = claimToken[t]
      /\ UNCHANGED <<offer, recordId, failure, forgotten, nextClaimToken, lifecycle>>
    BY ZenonT(30), <1>1 DEF Leases, Find, Retire, Complete, BaseInv, TypeInv, TypeOK
<1>3. PICK p \in Phases, f \in {failure[s]} : p = "TOMBSTONE" /\ f = failure[s]
    BY DEF Phases
<1>4. SettlesSlot(s, id, p, f) /\ "COMPLETED" = IF p = "TOMBSTONE" THEN terminal'[s] ELSE p
    BY ZenonT(30), <1>2, <1>3 DEF SettlesSlot
<1>5. /\ SettlesRecord(id, "COMPLETED", f)
      /\ failure[s] = f => FailureOf' = FailureOf
      /\ phase[s] # "CLAIMED" => LeaseOf' = LeaseOf
    BY ZenonT(30), <1>2, <1>4, SettleView
<1>6. LedgerOf[id] = "CLAIMED"
    BY ZenonT(30), <1>2, ViewStates
<1>7. Contract!CompleteRecord(id, LeaseOf[id]) /\ id \in Contract!StoredIn({"CLAIMED"})
    BY ZenonT(30), <1>2, <1>3, <1>5, <1>6 DEF SettlesRecord, Contract!CompleteRecord, Contract!StoredIn
<1>. QED BY ZenonT(30), <1>7 DEF Contract!NextLedger

LEMMA FailIsFail ==
    ASSUME BaseInv, View, View', NEW id \in Ids, NEW token \in Tokens, Fail(id, token)
    PROVE  Contract!NextLedger
<1>1. PICK s \in Slots : /\ Leases(s, id, token)
                         /\ phase' = [phase EXCEPT ![s] = "FAILED"]
                         /\ failure' = [failure EXCEPT ![s] = "ERROR"]
    BY Zenon DEF Fail
<1>2. /\ recordId[s] = id /\ phase[s] = "CLAIMED" /\ claimToken[s] = token
      /\ phase' = [phase EXCEPT ![s] = "FAILED"]
      /\ failure'[s] = "ERROR"
      /\ \A t \in Slots : t # s => failure'[t] = failure[t]
      /\ UNCHANGED <<offer, recordId, claimToken, terminal, forgotten, nextClaimToken, lifecycle>>
    BY Zenon, <1>1 DEF Leases, Find, Fail, BaseInv, TypeInv, TypeOK
<1>3. PICK p \in Phases, f \in {"ERROR"} : p = "FAILED" /\ f = "ERROR"
    BY DEF Phases
<1>4. SettlesSlot(s, id, p, f) /\ "FAILED" = IF p = "TOMBSTONE" THEN terminal'[s] ELSE p
    BY Zenon, <1>2, <1>3 DEF SettlesSlot
<1>5. /\ SettlesRecord(id, "FAILED", f)
      /\ failure[s] = f => FailureOf' = FailureOf
      /\ phase[s] # "CLAIMED" => LeaseOf' = LeaseOf
    BY ZenonT(30), <1>2, <1>4, SettleView
<1>6. LedgerOf[id] = "CLAIMED"
    BY ZenonT(30), <1>2, ViewStates
<1>7. Contract!FailRecord(id, LeaseOf[id], "ERROR") /\ id \in Contract!StoredIn({"CLAIMED"})
    BY ZenonT(30), <1>2, <1>3, <1>5, <1>6 DEF SettlesRecord, Contract!FailRecord, Contract!StoredIn
<1>. QED BY Zenon, <1>7 DEF Contract!NextLedger

LEMMA RetryIsRetry ==
    ASSUME BaseInv, View, View', NEW id \in Ids, Retry(id)
    PROVE  Contract!NextLedger
<1>1. PICK s \in Find(id) : /\ phase[s] = "FAILED"
                            /\ phase' = [phase EXCEPT ![s] = "PENDING"]
                            /\ failure' = [failure EXCEPT ![s] = "OK"]
    BY Zenon DEF Retry
<1>2. /\ s \in Slots /\ recordId[s] = id /\ phase[s] = "FAILED"
      /\ phase' = [phase EXCEPT ![s] = "PENDING"]
      /\ failure'[s] = "OK"
      /\ \A t \in Slots : t # s => failure'[t] = failure[t]
      /\ UNCHANGED <<offer, recordId, claimToken, terminal, forgotten, nextClaimToken, lifecycle>>
    BY Zenon, <1>1 DEF Find, Held, Retry, BaseInv, TypeInv, TypeOK
<1>3. PICK p \in Phases, f \in {"OK"} : p = "PENDING" /\ f = "OK"
    BY DEF Phases
<1>4. SettlesSlot(s, id, p, f) /\ "PENDING" = IF p = "TOMBSTONE" THEN terminal'[s] ELSE p
    BY Zenon, <1>2, <1>3 DEF SettlesSlot
<1>5. /\ SettlesRecord(id, "PENDING", f)
      /\ failure[s] = f => FailureOf' = FailureOf
      /\ phase[s] # "CLAIMED" => LeaseOf' = LeaseOf
    BY ZenonT(30), <1>2, <1>4, SettleView
<1>6. LedgerOf[id] = "FAILED"
    BY ZenonT(30), <1>2, ViewStates
<1>7. Contract!RetryRecord(id) /\ id \in Contract!StoredIn({"FAILED", "LOST"})
    BY ZenonT(30), <1>2, <1>3, <1>5, <1>6 DEF SettlesRecord, Contract!RetryRecord, Contract!StoredIn
<1>. QED BY ZenonT(30), <1>7 DEF Contract!NextLedger

LEMMA DiscardIsDiscard ==
    ASSUME BaseInv, View, View', NEW id \in Ids, Discard(id)
    PROVE  Contract!NextLedger
<1>1. PICK s \in Find(id) : phase[s] = "FAILED" /\ Retire(s, "DISCARDED")
    BY Zenon DEF Discard
<1>2. /\ s \in Slots /\ recordId[s] = id /\ phase[s] = "FAILED"
      /\ phase' = [phase EXCEPT ![s] = "TOMBSTONE"]
      /\ terminal'[s] = "DISCARDED"
      /\ \A t \in Slots : t # s => terminal'[t] = terminal[t]
      /\ UNCHANGED <<offer, recordId, claimToken, failure, forgotten, nextClaimToken, lifecycle>>
    BY Zenon, <1>1 DEF Find, Held, Retire, Discard, BaseInv, TypeInv, TypeOK
<1>3. PICK p \in Phases, f \in {failure[s]} : p = "TOMBSTONE" /\ f = failure[s]
    BY DEF Phases
<1>4. SettlesSlot(s, id, p, f) /\ "DISCARDED" = IF p = "TOMBSTONE" THEN terminal'[s] ELSE p
    BY Zenon, <1>2, <1>3 DEF SettlesSlot
<1>5. /\ SettlesRecord(id, "DISCARDED", f)
      /\ failure[s] = f => FailureOf' = FailureOf
      /\ phase[s] # "CLAIMED" => LeaseOf' = LeaseOf
    BY ZenonT(30), <1>2, <1>4, SettleView
<1>6. LedgerOf[id] = "FAILED"
    BY ZenonT(30), <1>2, ViewStates
<1>7. Contract!DiscardRecord(id) /\ id \in Contract!StoredIn({"FAILED", "LOST"})
    BY ZenonT(30), <1>2, <1>3, <1>5, <1>6 DEF SettlesRecord, Contract!DiscardRecord, Contract!StoredIn
<1>. QED BY Zenon, <1>7 DEF Contract!NextLedger

LEMMA ForgetIsForget ==
    ASSUME BaseInv, ViewInv, View, View', NEW id \in Ids, Forget(id)
    PROVE  Contract!NextLedger
<1>a. /\ phase \in [Slots -> Phases \cup {"NULL"}]
      /\ offer \in [Slots -> OfferOrNone]
      /\ recordId \in [Slots -> 0..U64Max]
      /\ claimToken \in [Slots -> 0..U64Max]
      /\ failure \in [Slots -> {"OK", "ERROR"}]
      /\ terminal \in [Slots -> {"NONE", "COMPLETED", "DISCARDED"}]
    BY ZenonT(30) DEF BaseInv, TypeInv, TypeOK
<1>1. PICK s \in Find(id) : /\ phase[s] = "TOMBSTONE"
                            /\ phase' = [phase EXCEPT ![s] = "NULL"]
                            /\ offer' = [offer EXCEPT ![s] = NoOffer]
                            /\ recordId' = [recordId EXCEPT ![s] = 0]
                            /\ claimToken' = [claimToken EXCEPT ![s] = 0]
                            /\ failure' = [failure EXCEPT ![s] = "OK"]
                            /\ terminal' = [terminal EXCEPT ![s] = "NONE"]
    BY Zenon DEF Forget
<1>2. /\ s \in Slots /\ recordId[s] = id /\ phase[s] = "TOMBSTONE" /\ phase'[s] = "NULL"
      /\ \A t \in Slots : t # s => phase'[t] = phase[t] /\ recordId'[t] = recordId[t]
    BY ZenonT(30), <1>a, <1>1 DEF Find, Held
<1>b. \A t \in Slots : t # s =>
         /\ offer'[t] = offer[t] /\ claimToken'[t] = claimToken[t]
         /\ failure'[t] = failure[t] /\ terminal'[t] = terminal[t]
    BY ZenonT(30), <1>a, <1>1 DEF Find, Held
<1>c. forgotten' = forgotten \cup {id} /\ UNCHANGED <<nextClaimToken, lifecycle>>
    BY ZenonT(30) DEF Forget
<1>3. \A t \in Slots : phase[t] # "NULL" /\ recordId[t] = id => t = s
    BY ZenonT(30), <1>2, ViewStates
<1>4. Absent(id)'
    BY ZenonT(30), <1>2, <1>3 DEF Absent
<1>5. /\ LedgerOf[id] \in {"COMPLETED", "DISCARDED"} /\ LedgerOf'[id] = "FORGOTTEN"
      /\ ContentOf'[id] = NoOffer
      /\ LeaseOf[id] = 0 /\ LeaseOf'[id] = 0
      /\ FailureOf'[id] = "OK"
  <2>1. SlotView(s)
      BY ZenonT(30), <1>2 DEF View
  <2>2. IdView(id)' /\ id \in forgotten'
      BY ZenonT(30), <1>4, <1>c DEF View
  <2>3. terminal[s] \in {"COMPLETED", "DISCARDED"}
      BY ZenonT(30), <1>2 DEF ViewInv
  <2>. QED BY ZenonT(30), <1>2, <2>1, <2>2, <2>3 DEF SlotView, IdView
<1>6. ASSUME NEW j \in Ids, j # id
      PROVE  /\ LedgerOf'[j] = LedgerOf[j] /\ ContentOf'[j] = ContentOf[j]
             /\ LeaseOf'[j] = LeaseOf[j] /\ FailureOf'[j] = FailureOf[j]
  <2>1. CASE Absent(j)
    <3>1. (j \in forgotten') = (j \in forgotten)
        BY <1>c, <1>6
    <3>2. \A t \in Slots : phase'[t] = "NULL" \/ recordId'[t] # j
      <4>1. \A t \in Slots : phase[t] = "NULL" \/ recordId[t] # j
          BY ZenonT(30), <2>1 DEF Absent
      <4>. QED BY ZenonT(30), <1>2, <4>1
    <3>3. Absent(j)'
        BY <3>2 DEF Absent
    <3>4. IdView(j) /\ IdView(j)'
        BY ZenonT(30), <2>1, <3>3 DEF View
    <3>. QED BY Zenon, <3>1, <3>4 DEF IdView
  <2>2. ASSUME NEW t \in Slots, phase[t] # "NULL", recordId[t] = j
        PROVE  /\ LedgerOf'[j] = LedgerOf[j] /\ ContentOf'[j] = ContentOf[j]
               /\ LeaseOf'[j] = LeaseOf[j] /\ FailureOf'[j] = FailureOf[j]
    <3>1. t # s /\ recordId'[t] = j /\ phase'[t] = phase[t]
        BY ZenonT(30), <1>2, <1>6, <2>2
    <3>2. SlotView(t) /\ SlotView(t)'
        BY ZenonT(30), <2>2, <3>1 DEF View
    <3>. QED BY ZenonT(30), <1>b, <2>2, <3>1, <3>2 DEF SlotView
  <2>. QED BY Zenon, <2>1, <2>2 DEF Absent
<1>7. ViewDomains /\ ViewDomains'
    BY ZenonT(30) DEF View
<1>8. /\ LedgerOf' = [LedgerOf EXCEPT ![id] = "FORGOTTEN"]
      /\ ContentOf' = [ContentOf EXCEPT ![id] = NoOffer]
      /\ LeaseOf' = LeaseOf
      /\ FailureOf' = [FailureOf EXCEPT ![id] = "OK"]
      /\ IssuedOf' = IssuedOf /\ AcceptingOf' = AcceptingOf
    BY SMTT(30), <1>c, <1>5, <1>6, <1>7 DEF ViewDomains, IssuedOf, AcceptingOf
<1>9. Contract!ForgetRecord(id) /\ id \in Contract!StoredIn({"COMPLETED", "DISCARDED"})
    BY ZenonT(30), <1>5, <1>8 DEF Contract!ForgetRecord, Contract!StoredIn
<1>. QED BY Zenon, <1>9 DEF Contract!NextLedger

(* One step of the provider, seen through the mapping. *)
LEMMA StepIsLedgerStep ==
    ASSUME BaseInv, ViewInv, View, View', [Next]_vars
    PROVE  [Contract!NextLedger]_(Contract!ledgerVars)
<1>a. ASSUME UNCHANGED <<record, forgotten, nextClaimToken>>, AcceptingOf' = AcceptingOf
      PROVE  UNCHANGED Contract!ledgerVars
    BY ZenonT(30), <1>a, ViewKept DEF record, Contract!ledgerVars, IssuedOf
<1>1. CASE UNCHANGED vars
    BY SMTT(30), <1>1, <1>a DEF vars, AcceptingOf
<1>2. CASE \E c \in Callers, o \in Offers : AdmitReturn(c, o) \/ AdmitReserve(c, o)
    BY Zenon, <1>2, <1>a DEF AdmitReturn, AdmitReserve, AcceptingOf
<1>3. CASE \E c \in Callers : AdmitCopyFails(c) \/ AdmitLoses(c)
    BY ZenonT(30), <1>3, <1>a DEF AdmitCopyFails, AdmitLoses, AcceptingOf
<1>4. CASE Close
  <2>1. AcceptingOf' = "CLOSED" /\ UNCHANGED <<LedgerOf, ContentOf, LeaseOf, FailureOf, IssuedOf>>
      BY <1>4, ViewKept DEF Close, AcceptingOf, IssuedOf, record
  <2>. QED BY Zenon, <2>1 DEF Contract!NextLedger, Contract!CloseLedger
<1>5. CASE Destroy
    BY <1>5, <1>a DEF Destroy, AcceptingOf
<1>. QED BY ZenonT(30), <1>1, <1>2, <1>3, <1>4, <1>5, PublishIsAdmit, ClaimIsClaim,
            CompleteIsComplete, FailIsFail, RetryIsRetry, DiscardIsDiscard, ForgetIsForget
            DEF Next

LEMMA ViewInvariant == Spec => []ViewInv
<1>1. Init => ViewInv
    BY ZenonT(30) DEF Init, ViewInv, Outside
<1>. QED BY <1>1, ViewInvStep, BaseInvariant, CountersCorrect, PTL DEF Spec

(* The provider's steps, read through the mapping, are steps of the contract:
   flow_inbox_memory_* keeps what turbo_flow_inbox.h promises. *)
THEOREM Implementation == Spec => ImplementsContract
<1>1. Init => Contract!InitLedger
  <2>1. Init => \A i : Find(i) = {}
      BY DEF Init, Find, Held
  <2>. QED BY <2>1 DEF Init, Contract!InitLedger, LedgerOf, ContentOf, LeaseOf, FailureOf,
              LedgerState, Seen, IssuedOf, AcceptingOf
<1>2. BaseInv /\ ViewInv /\ (BaseInv /\ ViewInv)' /\ [Next]_vars
         => [Contract!NextLedger]_(Contract!ledgerVars)
    BY StepIsLedgerStep, ViewCorrect, ViewCorrectNext
<1>. QED BY <1>1, <1>2, BaseInvariant, ViewInvariant, PTL
         DEF Spec, ImplementsContract, Contract!LedgerSpec
=============================================================================
