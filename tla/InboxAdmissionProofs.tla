----------------------- MODULE InboxAdmissionProofs -----------------------
(***************************************************************************)
(* What admit promises although it looks an admission identity up in one   *)
(* critical section and publishes the record in another: one record per    *)
(* identity, receipts that stay true, and record ids that are never used   *)
(* twice.  And the order in which the records admitted are claimed.        *)
(***************************************************************************)
EXTENDS InboxProofs

(* A record's phase change that moves no record in or out of a slot. *)
Rephase(s, p) ==
    /\ s \in Slots /\ p \in Phases /\ phase[s] # "NULL"
    /\ phase' = [phase EXCEPT ![s] = p]
    /\ UNCHANGED <<offer, recordId, window, receipt, forgotten, preceding, reserved>>

(* Every step is one of five kinds, as far as the stored records, the windows
   and the receipts are concerned. *)
LEMMA StepKinds ==
    ASSUME TypeInv, Next
    PROVE  \/ \E c \in Callers, o \in Offers : AdmitReturn(c, o) \/ AdmitReserve(c, o)
           \/ \E c \in Callers : AdmitCopyFails(c) \/ AdmitLoses(c) \/ AdmitPublish(c)
           \/ \E s \in Slots, p \in Phases : Rephase(s, p)
           \/ \E id \in Ids : Forget(id)
           \/ UNCHANGED <<record, admission, forgotten, reserved>>
<1> USE DEF Rephase, record, admission, Phases
<1>1. ASSUME NEW excluded \in SUBSET Keys, Claim(excluded)
      PROVE  \E s \in Slots : Rephase(s, "CLAIMED")
    BY Zenon, <1>1 DEF Claim, Oldest, Claimable, InPhase
<1>2. ASSUME NEW id \in Ids, NEW token \in Tokens, Complete(id, token)
      PROVE  \E s \in Slots : Rephase(s, "TOMBSTONE")
    BY Zenon, <1>2 DEF Complete, Retire, Leases
<1>3. ASSUME NEW id \in Ids, NEW token \in Tokens, Fail(id, token)
      PROVE  \E s \in Slots : Rephase(s, "FAILED")
    BY Zenon, <1>3 DEF Fail, Leases
<1>4. ASSUME NEW id \in Ids, Retry(id)
      PROVE  \E s \in Slots : Rephase(s, "PENDING")
    BY Zenon, <1>4 DEF Retry, Find, Held
<1>5. ASSUME NEW id \in Ids, Discard(id)
      PROVE  \E s \in Slots : Rephase(s, "TOMBSTONE")
    BY Zenon, <1>5 DEF Discard, Retire, Find, Held
<1>6. ASSUME Close \/ Destroy
      PROVE  UNCHANGED <<record, admission, forgotten, reserved>>
    BY <1>6 DEF Close, Destroy
<1> HIDE DEF Rephase
<1>. QED BY Zenon, <1>1, <1>2, <1>3, <1>4, <1>5, <1>6 DEF Next

(* OneRecordPerAdmission, without the set comprehension. *)
AdmInv ==
    \A s, t \in Slots :
        phase[s] # "NULL" /\ phase[t] # "NULL" /\ offer[s].adm = offer[t].adm => s = t

LEMMA AdmInvStep == TypeInv /\ ResInv /\ AdmInv /\ [Next]_vars => AdmInv'
<1> SUFFICES ASSUME TypeInv, ResInv, AdmInv, [Next]_vars PROVE AdmInv'
    OBVIOUS
<1>a. /\ phase \in [Slots -> Phases \cup {"NULL"}]
      /\ offer \in [Slots -> OfferOrNone]
    BY DEF TypeInv, TypeOK
<1>b. \A c \in Callers : window[c].slot = 0 \/ window[c].slot \in Slots
    BY WindowSlot DEF TypeInv
<1> USE <1>a, <1>b DEF AdmInv, record
<1>1. CASE UNCHANGED vars
    BY <1>1 DEF vars
<1>2. CASE \E c \in Callers, o \in Offers : AdmitReturn(c, o) \/ AdmitReserve(c, o)
    BY <1>2 DEF AdmitReturn, AdmitReserve
<1>3. CASE \E c \in Callers : AdmitCopyFails(c) \/ AdmitLoses(c)
    BY <1>3 DEF AdmitCopyFails, AdmitLoses
<1>4. ASSUME NEW c \in Callers, AdmitPublish(c)
      PROVE  AdmInv'
  <2>1. /\ window[c].slot \in Slots
        /\ offer'[window[c].slot] = window[c].offer
        /\ \A s \in Slots : s # window[c].slot => phase'[s] = phase[s] /\ offer'[s] = offer[s]
      BY <1>4 DEF AdmitPublish
  <2>2. \A s \in Slots : phase[s] # "NULL" => offer[s].adm # window[c].offer.adm
      BY <1>4 DEF AdmitPublish, FindAdmission, Held
  <2>. QED BY <2>1, <2>2
<1>5. CASE \E s \in Slots, p \in Phases : Rephase(s, p)
    BY <1>5 DEF Rephase, Phases
<1>6. CASE \E id \in Ids : Forget(id)
    BY <1>6 DEF Forget, Find, Held
<1>7. CASE UNCHANGED <<record, admission, forgotten, reserved>>
    BY <1>7
<1>. QED BY <1>1, <1>2, <1>3, <1>4, <1>5, <1>6, <1>7, StepKinds

(* ReceiptsHold, without the set comprehension. *)
ReceiptInv ==
    \A c \in Callers : receipt[c].id # 0 =>
        \/ receipt[c].id \in forgotten
        \/ \E s \in Slots : /\ phase[s] # "NULL"
                            /\ recordId[s] = receipt[c].id /\ offer[s] = receipt[c].offer

LEMMA ReceiptInvStep == TypeInv /\ ResInv /\ AdmInv /\ ReceiptInv /\ [Next]_vars => ReceiptInv'
<1> SUFFICES ASSUME TypeInv, ResInv, AdmInv, ReceiptInv, [Next]_vars PROVE ReceiptInv'
    OBVIOUS
<1>a. /\ phase \in [Slots -> Phases \cup {"NULL"}]
      /\ offer \in [Slots -> OfferOrNone]
      /\ recordId \in [Slots -> 0..U64Max]
      /\ receipt \in [Callers -> ReceiptType]
    BY DEF TypeInv, TypeOK
<1>b. \A c \in Callers : window[c].slot = 0 \/ window[c].slot \in Slots
    BY WindowSlot DEF TypeInv
<1> USE <1>a, <1>b DEF ReceiptInv, record, admission, NoReceipt
<1>1. CASE UNCHANGED vars
    BY <1>1 DEF vars
<1>2. ASSUME NEW c \in Callers, NEW o \in Offers, AdmitReturn(c, o)
      PROVE  ReceiptInv'
  <2>1. CASE AdmitStatus(o) = "REPLAY"
    <3>1. PICK s \in FindAdmission(o) : receipt' = [receipt EXCEPT ![c] = ReplayReceipt(s, o)]
        BY <1>2, <2>1 DEF AdmitReturn
    <3>2. s \in Slots /\ phase[s] # "NULL"
        BY DEF FindAdmission, Held
    <3>. QED BY <1>2, <3>1, <3>2 DEF AdmitReturn, ReplayReceipt
  <2>2. CASE AdmitStatus(o) # "REPLAY"
      BY <1>2, <2>2 DEF AdmitReturn
  <2>. QED BY <2>1, <2>2
<1>3. CASE \E c \in Callers, o \in Offers : AdmitReserve(c, o)
    BY <1>3 DEF AdmitReserve
<1>4. CASE \E c \in Callers : AdmitCopyFails(c)
    BY <1>4 DEF AdmitCopyFails
<1>5. ASSUME NEW c \in Callers, AdmitLoses(c)
      PROVE  ReceiptInv'
  <2>1. PICK s \in FindAdmission(window[c].offer) :
           receipt' = [receipt EXCEPT ![c] = ReplayReceipt(s, window[c].offer)]
      BY Zenon, <1>5 DEF AdmitLoses
  <2>2. s \in Slots /\ phase[s] # "NULL"
      BY DEF FindAdmission, Held
  <2>. QED BY ZenonT(30), <1>5, <2>1, <2>2 DEF AdmitLoses, ReplayReceipt
<1>6. ASSUME NEW c \in Callers, AdmitPublish(c)
      PROVE  ReceiptInv'
  <2>1. /\ window[c].slot \in Slots
        /\ phase[window[c].slot] = "NULL"
        /\ phase'[window[c].slot] = "PENDING"
        /\ offer'[window[c].slot] = window[c].offer
        /\ recordId'[window[c].slot] = window[c].id
        /\ \A s \in Slots : s # window[c].slot =>
              phase'[s] = phase[s] /\ offer'[s] = offer[s] /\ recordId'[s] = recordId[s]
        /\ receipt' = [receipt EXCEPT ![c] = [offer |-> window[c].offer, id |-> window[c].id]]
        /\ forgotten' = forgotten
      BY ZenonT(30), <1>6 DEF AdmitPublish, SlotUsable
  <2>. QED BY <2>1
<1>7. CASE \E s \in Slots, p \in Phases : Rephase(s, p)
    BY <1>7 DEF Rephase, Phases
<1>8. CASE \E id \in Ids : Forget(id)
    BY <1>8 DEF Forget, Find, Held
<1>9. CASE UNCHANGED <<record, admission, forgotten, reserved>>
    BY <1>9
<1>. QED BY ZenonT(30), <1>1, <1>2, <1>3, <1>4, <1>5, <1>6, <1>7, <1>8, <1>9, StepKinds

LEMMA AdmissionInvariant == Spec => [](AdmInv /\ ReceiptInv)
<1>1. Init => AdmInv /\ ReceiptInv
    BY DEF Init, AdmInv, ReceiptInv, NoReceipt
<1>2. BaseInv /\ AdmInv /\ ReceiptInv /\ [Next]_vars => (AdmInv /\ ReceiptInv)'
    BY AdmInvStep, ReceiptInvStep DEF BaseInv
<1>. QED BY <1>1, <1>2, BaseInvariant, PTL DEF Spec

(* At most one stored record per admission identity. *)
THEOREM AdmissionUnique == Spec => []OneRecordPerAdmission
<1>1. AdmInv => OneRecordPerAdmission
    BY DEF AdmInv, OneRecordPerAdmission, Held
<1>. QED BY <1>1, AdmissionInvariant, PTL

(* A receipt names the stored record until that record is forgotten. *)
THEOREM ReceiptsKept == Spec => []ReceiptsHold
<1>1. ReceiptInv => ReceiptsHold
    BY DEF ReceiptInv, ReceiptsHold, Find, Held
<1>. QED BY <1>1, AdmissionInvariant, PTL

(* No record id is given to a second record. *)
THEOREM IdsFresh == Spec => IdsNeverReused
<1> DEFINE Fresh == \A s \in Slots : phase[s] = "NULL" /\ phase'[s] # "NULL" =>
                        recordId'[s] \notin StoredIds \cup forgotten
<1>1. ASSUME BaseInv, [Next]_vars
      PROVE  [Fresh]_vars
  <2>a. /\ phase \in [Slots -> Phases \cup {"NULL"}]
        /\ recordId \in [Slots -> 0..U64Max]
      BY <1>1 DEF BaseInv, TypeInv, TypeOK
  <2>b. \A c \in Callers : window[c].slot = 0 \/ window[c].slot \in Slots
      BY <1>1, WindowSlot DEF BaseInv, TypeInv
  <2> USE <2>a, <2>b DEF record
  <2>1. CASE UNCHANGED vars
      BY <2>1
  <2>2. CASE \E c \in Callers, o \in Offers : AdmitReturn(c, o) \/ AdmitReserve(c, o)
      BY <2>2 DEF AdmitReturn, AdmitReserve
  <2>3. CASE \E c \in Callers : AdmitCopyFails(c) \/ AdmitLoses(c)
      BY <2>3 DEF AdmitCopyFails, AdmitLoses
  <2>4. ASSUME NEW c \in Callers, AdmitPublish(c)
        PROVE  Fresh
    <3>1. window[c].id \notin StoredIds \cup forgotten
        BY ZenonT(30), <1>1, <2>4 DEF BaseInv, IdInv, StoredIds, Held, AdmitPublish
    <3>. QED BY <2>4, <3>1 DEF AdmitPublish
  <2>5. CASE \E s \in Slots, p \in Phases : Rephase(s, p)
      BY <2>5 DEF Rephase
  <2>6. CASE \E id \in Ids : Forget(id)
      BY <2>6 DEF Forget
  <2>7. CASE UNCHANGED <<record, admission, forgotten, reserved>>
      BY <2>7
  <2> HIDE DEF Fresh
  <2>. QED BY <1>1, <2>1, <2>2, <2>3, <2>4, <2>5, <2>6, <2>7, StepKinds DEF BaseInv
<1>. QED BY <1>1, BaseInvariant, PTL DEF Spec, IdsNeverReused

(***************************************************************************)
(* Claims respect admission order within a partition, for every number of  *)
(* callers, whatever partitions the claims exclude, and although ids are   *)
(* given out before the record they name can be claimed.                   *)
(***************************************************************************)

Granted(i) == \E token \in Tokens : <<i, token>> \in granted

(* The id of a record that is stored or was. *)
Published(i) == i \in forgotten \/ \E s \in Slots : phase[s] # "NULL" /\ recordId[s] = i

(* Only published records are claimed; what precedes a record was published
   before it with a smaller id; a record that has left PENDING was claimed. *)
OrderInv ==
    /\ \A i \in Ids : Granted(i) => Published(i)
    /\ \A i \in Ids : \A n \in preceding[i] : Published(n) /\ n < i
    /\ \A c \in Callers : window[c].slot # 0 =>
          \A n \in window[c].seen : Published(n) /\ n < window[c].id
    /\ \A s \in Slots : phase[s] \in {"CLAIMED", "FAILED", "TOMBSTONE"} => Granted(recordId[s])

(* PartitionFifo, without the set comprehension. *)
FifoInv ==
    \A s, t \in Slots :
        (/\ phase[s] # "NULL" /\ phase[t] # "NULL"
         /\ offer[s].key = offer[t].key
         /\ recordId[s] \in preceding[recordId[t]]
         /\ Granted(recordId[t]))
        => Granted(recordId[s])

LEMMA OrderTypes ==
    ASSUME TypeInv
    PROVE  /\ phase \in [Slots -> Phases \cup {"NULL"}]
           /\ offer \in [Slots -> OfferOrNone]
           /\ recordId \in [Slots -> 0..U64Max]
           /\ window \in [Callers -> WindowType]
           /\ preceding \in [Ids -> SUBSET Ids]
           /\ nextRecordId \in 1..(U64Max + 1)
           /\ \A c \in Callers : window[c].slot = 0 \/ window[c].slot \in Slots
           /\ \A s \in Slots : phase[s] # "NULL" => recordId[s] \in Ids
           /\ \A c \in Callers : window[c].slot # 0 => window[c].id \in Ids
BY WindowSlot DEF TypeInv, TypeOK, Shape

(* Published ids are below next_record_id and differ from those reserved. *)
LEMMA PublishedBelow ==
    ASSUME BaseInv
    PROVE  /\ \A i : Published(i) => i < nextRecordId
           /\ \A c \in Callers : window[c].slot # 0 => ~ Published(window[c].id)
BY ZenonT(30) DEF BaseInv, IdInv, Published

(* A step that moves a claimed record to another phase and nothing else that
   the order depends on. *)
LEMMA OrderMoved ==
    ASSUME TypeInv, OrderInv, FifoInv, NEW s \in Slots, NEW p \in Phases,
           phase[s] \in {"CLAIMED", "FAILED"},
           phase' = [phase EXCEPT ![s] = p],
           UNCHANGED <<offer, recordId, window, preceding, granted, forgotten>>
    PROVE  OrderInv' /\ FifoInv'
<1>1. \A i : Granted(i)' = Granted(i)
    BY DEF Granted
<1>2. \A t \in Slots : (phase'[t] # "NULL") = (phase[t] # "NULL")
    BY OrderTypes DEF Phases
<1>3. \A i : Published(i)' = Published(i)
    BY <1>2 DEF Published
<1>4. \A t \in Slots : phase'[t] \in {"CLAIMED", "FAILED", "TOMBSTONE"} =>
          phase[t] \in {"CLAIMED", "FAILED", "TOMBSTONE"}
    BY OrderTypes
<1>5. OrderInv'
    BY <1>1, <1>3, <1>4 DEF OrderInv
<1>6. FifoInv'
    BY <1>1, <1>2 DEF FifoInv
<1>. QED BY <1>5, <1>6

(* A step that touches none of it but may end a caller's reservation. *)
LEMMA OrderKept ==
    ASSUME TypeInv, OrderInv, FifoInv,
           UNCHANGED <<phase, offer, recordId, preceding, granted, forgotten>>,
           \A c \in Callers : window'[c] = window[c] \/ window'[c].slot = 0
    PROVE  OrderInv' /\ FifoInv'
<1>1. \A i : Granted(i)' = Granted(i) /\ Published(i)' = Published(i)
    BY DEF Granted, Published
<1>2. OrderInv'
    BY <1>1 DEF OrderInv
<1>3. FifoInv'
    BY <1>1 DEF FifoInv
<1>. QED BY <1>2, <1>3

LEMMA OrderStep ==
    BaseInv /\ OrderInv /\ FifoInv /\ [Next]_vars => OrderInv' /\ FifoInv'
<1> SUFFICES ASSUME BaseInv, OrderInv, FifoInv, [Next]_vars PROVE OrderInv' /\ FifoInv'
    OBVIOUS
<1>a. TypeInv /\ ResInv /\ IdInv
    BY DEF BaseInv
<1> USE <1>a DEF record, admission
<1>1. CASE UNCHANGED vars
    BY ZenonT(30), <1>1, OrderKept DEF vars
<1>2. ASSUME NEW c \in Callers, NEW o \in Offers, AdmitReturn(c, o)
      PROVE  OrderInv' /\ FifoInv'
    BY ZenonT(30), <1>2, OrderKept DEF AdmitReturn
<1>3. ASSUME NEW c \in Callers, NEW o \in Offers, AdmitReserve(c, o)
      PROVE  OrderInv' /\ FifoInv'
  <2>1. PICK s \in FreeSlots :
           window' = [window EXCEPT ![c] = [offer |-> o, slot |-> s,
                                            id |-> nextRecordId, seen |-> StoredIds]]
      BY Zenon, <1>3 DEF AdmitReserve
  <2>2. /\ window'[c].id = nextRecordId /\ window'[c].seen = StoredIds
        /\ \A d \in Callers : d # c => window'[d] = window[d]
        /\ UNCHANGED <<phase, offer, recordId, preceding, granted, forgotten>>
      BY ZenonT(30), <1>3, <2>1, OrderTypes DEF AdmitReserve
  <2>3. \A i : Granted(i)' = Granted(i) /\ Published(i)' = Published(i)
      BY ZenonT(30), <2>2 DEF Granted, Published
  <2>4. \A n \in StoredIds : Published(n) /\ n < nextRecordId
      BY PublishedBelow DEF StoredIds, Held, Published
  <2>5. OrderInv'
      BY ZenonT(30), <2>2, <2>3, <2>4 DEF OrderInv
  <2>6. FifoInv'
      BY <2>2, <2>3 DEF FifoInv
  <2>. QED BY <2>5, <2>6
<1>4. ASSUME NEW c \in Callers, AdmitCopyFails(c) \/ AdmitLoses(c)
      PROVE  OrderInv' /\ FifoInv'
  <2>1. \A d \in Callers : window'[d] = window[d] \/ window'[d].slot = 0
    <3>1. window' = [window EXCEPT ![c] = Outside]
        BY Zenon, <1>4 DEF AdmitCopyFails, AdmitLoses, ReleaseReservation
    <3>. QED BY <3>1, OrderTypes DEF Outside
  <2>. QED BY ZenonT(30), <1>4, <2>1, OrderKept DEF AdmitCopyFails, AdmitLoses
<1>5. ASSUME NEW c \in Callers, AdmitPublish(c)
      PROVE  OrderInv' /\ FifoInv'
  <2>0. PICK new \in Slots, i \in Ids : new = window[c].slot /\ i = window[c].id
      BY ZenonT(30), <1>5, OrderTypes DEF AdmitPublish
  <2>1. /\ phase[new] = "NULL"
        /\ phase'[new] = "PENDING" /\ recordId'[new] = i
        /\ \A s \in Slots : s # new =>
              phase'[s] = phase[s] /\ recordId'[s] = recordId[s] /\ offer'[s] = offer[s]
        /\ granted' = granted /\ forgotten' = forgotten
        /\ preceding'[i] = window[c].seen
        /\ \A n \in Ids : n # i => preceding'[n] = preceding[n]
      BY ZenonT(30), <1>5, <2>0, OrderTypes DEF AdmitPublish, SlotUsable
  <2>2. \A d \in Callers : window'[d] = window[d] \/ window'[d].slot = 0
      BY ZenonT(30), <1>5, OrderTypes DEF AdmitPublish, ReleaseReservation, Outside
  <2>3. window[c].slot # 0
      BY ZenonT(30), <1>5 DEF AdmitPublish
  <2>4. \A n : Granted(n)' = Granted(n)
      BY ZenonT(30), <2>1 DEF Granted
  <2>5. \A n : Published(n) => Published(n)'
      BY ZenonT(30), <2>1 DEF Published
  <2>6. Published(i)' /\ ~ Published(i)
      BY ZenonT(60), <2>0, <2>1, <2>3, PublishedBelow DEF Published
  <2>7. ~ Granted(i) /\ \A n \in Ids : i \notin preceding[n]
    <3>1. ~ Granted(i)
        BY Zenon, <2>6 DEF OrderInv
    <3>2. \A n \in Ids : i \notin preceding[n]
        BY Zenon, <2>6 DEF OrderInv
    <3>. QED BY Zenon, <3>1, <3>2
  <2>8. OrderInv'
    <3>1. \A n \in Ids : Granted(n)' => Published(n)'
        BY ZenonT(30), <2>4, <2>5 DEF OrderInv
    <3>2. \A n \in Ids : \A m \in preceding'[n] : Published(m)' /\ m < n
        BY ZenonT(30), <2>0, <2>1, <2>3, <2>5 DEF OrderInv
    <3>3. \A d \in Callers : window'[d].slot # 0 =>
             \A n \in window'[d].seen : Published(n)' /\ n < window'[d].id
        BY ZenonT(30), <2>2, <2>5 DEF OrderInv
    <3>4. \A s \in Slots : phase'[s] \in {"CLAIMED", "FAILED", "TOMBSTONE"} =>
             Granted(recordId'[s])
        BY <2>1 DEF OrderInv
    <3>. QED BY ZenonT(30), <2>4, <3>1, <3>2, <3>3, <3>4 DEF OrderInv
  <2>9. FifoInv'
    <3> SUFFICES ASSUME NEW s \in Slots, NEW t \in Slots,
                        phase'[s] # "NULL", phase'[t] # "NULL",
                        offer'[s].key = offer'[t].key,
                        recordId'[s] \in preceding'[recordId'[t]],
                        Granted(recordId'[t])
                 PROVE  Granted(recordId'[s])
        BY ZenonT(30), <2>4 DEF FifoInv
    <3>1. t # new
        BY SMTT(30), <2>1, <2>7
    <3>2. recordId[t] \in Ids /\ recordId[t] # i /\ phase[t] # "NULL"
        BY ZenonT(30), <3>1, <2>1, <2>6, OrderTypes DEF Published
    <3>3. recordId'[s] \in preceding[recordId[t]]
        BY ZenonT(30), <3>1, <3>2, <2>1
    <3>4. s # new
        BY <3>2, <3>3, <2>1, <2>7
    <3>. QED BY ZenonT(30), <3>1, <3>2, <3>3, <3>4, <2>1 DEF FifoInv
  <2>. QED BY SMTT(30), <2>8, <2>9
<1>6. ASSUME NEW excluded \in SUBSET Keys, Claim(excluded)
      PROVE  OrderInv' /\ FifoInv'
  <2>1. PICK x \in Oldest(Claimable(excluded)) :
           /\ phase' = [phase EXCEPT ![x] = "CLAIMED"]
           /\ granted' = granted \cup {<<recordId[x], nextClaimToken>>}
      BY Zenon, <1>6 DEF Claim
  <2>2. /\ x \in Slots /\ phase[x] = "PENDING" /\ offer[x].key \notin excluded
        /\ \A t \in Slots : phase[t] = "PENDING" /\ offer[t].key \notin excluded =>
              recordId[x] <= recordId[t]
      BY DEF Oldest, Claimable, InPhase
  <2>3. nextClaimToken \in Tokens
      BY ZenonT(30), <1>6, Ranges DEF Claim, TypeInv, TypeOK
  <2>4. UNCHANGED <<offer, recordId, window, preceding, forgotten>>
      BY <1>6 DEF Claim
  <2>5. \A n : Granted(n)' <=> Granted(n) \/ n = recordId[x]
      BY <2>1, <2>3 DEF Granted
  <2>6. \A t \in Slots : /\ (phase'[t] # "NULL") = (phase[t] # "NULL")
                         /\ t # x => phase'[t] = phase[t]
      BY ZenonT(30), <2>1, <2>2, OrderTypes
  <2>7. \A n : Published(n)' = Published(n)
      BY ZenonT(30), <2>4, <2>6 DEF Published
  <2>8. Published(recordId[x])
      BY ZenonT(30), <2>2 DEF Published
  <2>9. OrderInv'
      BY ZenonT(30), <2>2, <2>4, <2>5, <2>6, <2>7, <2>8 DEF OrderInv
  <2>10. FifoInv'
    <3> SUFFICES ASSUME NEW s \in Slots, NEW t \in Slots,
                        phase[s] # "NULL", phase[t] # "NULL",
                        offer[s].key = offer[t].key,
                        recordId[s] \in preceding[recordId[t]],
                        Granted(recordId[t]) \/ recordId[t] = recordId[x]
                 PROVE  Granted(recordId[s]) \/ recordId[s] = recordId[x]
        BY ZenonT(30), <2>4, <2>5, <2>6 DEF FifoInv
    <3>1. CASE Granted(recordId[t])
        BY <3>1 DEF FifoInv
    <3>2. CASE recordId[t] = recordId[x]
      <4>1. t = x
          BY ZenonT(30), <3>2, <2>2 DEF IdInv
      <4>2. recordId[s] \in Ids /\ recordId[x] \in Ids /\ recordId[s] < recordId[x]
          BY ZenonT(30), <4>1, <2>2, OrderTypes DEF OrderInv
      <4>3. phase[s] # "PENDING"
          BY <4>1, <4>2, <2>2 DEF Ids
      <4>4. phase[s] \in {"CLAIMED", "FAILED", "TOMBSTONE"}
          BY <4>3, OrderTypes DEF Phases
      <4>. QED BY ZenonT(30), <4>4 DEF OrderInv
    <3>. QED BY ZenonT(30), <3>1, <3>2
  <2>. QED BY <2>9, <2>10
<1>7. ASSUME NEW id \in Ids, NEW token \in Tokens, Complete(id, token)
      PROVE  OrderInv' /\ FifoInv'
    BY Zenon, <1>7, OrderMoved DEF Complete, Retire, Leases, Phases
<1>8. ASSUME NEW id \in Ids, NEW token \in Tokens, Fail(id, token)
      PROVE  OrderInv' /\ FifoInv'
    BY Zenon, <1>8, OrderMoved DEF Fail, Leases, Phases
<1>9. ASSUME NEW id \in Ids, Retry(id)
      PROVE  OrderInv' /\ FifoInv'
    BY Zenon, <1>9, OrderMoved DEF Retry, Find, Held, Phases
<1>10. ASSUME NEW id \in Ids, Discard(id)
       PROVE  OrderInv' /\ FifoInv'
    BY Zenon, <1>10, OrderMoved DEF Discard, Retire, Find, Held, Phases
<1>11. ASSUME NEW id \in Ids, Forget(id)
       PROVE  OrderInv' /\ FifoInv'
  <2>1. PICK s \in Slots : /\ phase[s] # "NULL" /\ recordId[s] = id
                           /\ phase' = [phase EXCEPT ![s] = "NULL"]
                           /\ offer' = [offer EXCEPT ![s] = NoOffer]
                           /\ recordId' = [recordId EXCEPT ![s] = 0]
      BY Zenon, <1>11 DEF Forget, Find, Held
  <2>2. /\ window' = window /\ preceding' = preceding /\ granted' = granted
        /\ forgotten' = forgotten \cup {id}
      BY <1>11 DEF Forget
  <2>3. /\ phase'[s] = "NULL"
        /\ \A t \in Slots : t # s =>
              phase'[t] = phase[t] /\ recordId'[t] = recordId[t] /\ offer'[t] = offer[t]
      BY <2>1, OrderTypes
  <2>4. \A n : Granted(n)' = Granted(n)
      BY <2>2 DEF Granted
  <2>5. \A n : Published(n) => Published(n)'
      BY SMTT(30), <2>1, <2>2, <2>3 DEF Published
  <2>6. OrderInv'
      BY ZenonT(30), <2>2, <2>3, <2>4, <2>5 DEF OrderInv
  <2>7. FifoInv'
      BY ZenonT(30), <2>2, <2>3, <2>4 DEF FifoInv
  <2>. QED BY <2>6, <2>7
<1>12. CASE Close \/ Destroy
    BY ZenonT(30), <1>12, OrderKept DEF Close, Destroy
<1>. QED BY Zenon, <1>1, <1>2, <1>3, <1>4, <1>5, <1>6, <1>7, <1>8, <1>9, <1>10, <1>11, <1>12
            DEF Next

(* No record is claimed before an older record of its partition was. *)
THEOREM ClaimsInOrder == Spec => []PartitionFifo
<1>1. Init => OrderInv /\ FifoInv
    BY SMTT(30) DEF Init, OrderInv, FifoInv, Granted, Outside
<1>2. FifoInv => PartitionFifo
    BY ZenonT(30) DEF FifoInv, PartitionFifo, Granted, Held
<1>. QED BY <1>1, <1>2, OrderStep, BaseInvariant, PTL DEF Spec
=============================================================================
