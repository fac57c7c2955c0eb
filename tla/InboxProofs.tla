---------------------------- MODULE InboxProofs ----------------------------
(***************************************************************************)
(* Safety of the memory Inbox provider for every number of callers, every  *)
(* set of offers and every configuration the provider accepts.             *)
(*                                                                         *)
(* The invariants are proved in layers, each relative to the ones before:  *)
(* types and record shapes, reservations, and record ids.  The admission   *)
(* promises of InboxAdmissionProofs rest on these, and so do the counters, *)
(* proved last.                                                            *)
(***************************************************************************)
EXTENDS Inbox, FiniteSetTheorems, TLAPS

(* An occupied slot holds a proper record; a caller inside the copy window
   holds a proper reservation. *)
Shape ==
    /\ \A s \in Slots : phase[s] # "NULL" => offer[s] \in Offers /\ recordId[s] \in Ids
    /\ \A c \in Callers : window[c].slot # 0 => window[c].offer \in Offers /\ window[c].id \in Ids

TypeInv == TypeOK /\ Shape

LEMMA OfferFacts ==
    ASSUME NEW o \in Offers
    PROVE  o.bytes \in Nat \ {0}
BY OffersValid

(* Facts about the number ranges that spare the provers the interval bounds. *)
LEMMA Ranges ==
    /\ 0 \in 0..U64Max /\ Ids \subseteq 0..U64Max /\ Tokens \subseteq 0..U64Max
    /\ 0 \in 0..MaxRecords /\ Slots \subseteq 0..MaxRecords
    /\ \A n \in 1..(U64Max + 1) : n <= U64Max => n \in Ids /\ n \in Tokens /\ n + 1 \in 1..(U64Max + 1)
    /\ 0 \notin Slots /\ 0 \notin Ids /\ 0 \notin Tokens
BY ConfigValid DEF Ids, Tokens, Slots

LEMMA Defaults == Outside \in WindowType /\ NoReceipt \in ReceiptType
BY Ranges DEF Outside, NoReceipt, WindowType, ReceiptType, OfferOrNone

(* The fields of a window of the right type. *)
LEMMA WindowFields ==
    ASSUME NEW w \in WindowType
    PROVE  /\ w.offer \in OfferOrNone /\ w.slot \in 0..MaxRecords
           /\ w.id \in 0..U64Max /\ w.seen \in SUBSET Ids
BY DEF WindowType

LEMMA NewReceipt ==
    ASSUME NEW o \in Offers, NEW n \in 0..U64Max
    PROVE  [offer |-> o, id |-> n] \in ReceiptType
BY DEF ReceiptType, OfferOrNone

LEMMA ReplayReceiptType ==
    ASSUME TypeOK, NEW o \in Offers, NEW s \in FindAdmission(o)
    PROVE  ReplayReceipt(s, o) \in ReceiptType
<1>1. recordId[s] \in 0..U64Max
    BY DEF TypeOK, FindAdmission, Held
<1>. QED BY <1>1, NewReceipt, Defaults DEF ReplayReceipt

LEMMA NewWindow ==
    ASSUME NEW o \in Offers, NEW s \in Slots, NEW n \in Ids, NEW T \in SUBSET Ids
    PROVE  [offer |-> o, slot |-> s, id |-> n, seen |-> T] \in WindowType
BY Ranges DEF WindowType, OfferOrNone

(* Releasing a reservation keeps the types of what it touches. *)
LEMMA ReleaseType ==
    ASSUME TypeOK, NEW c \in Callers, ReleaseReservation(c), window[c].offer.bytes \in Nat
    PROVE  /\ window' \in [Callers -> WindowType]
           /\ reserved' \subseteq Slots
           /\ reservedRecords' \in Int
           /\ reservedBytes' \in Int
<1>1. /\ window \in [Callers -> WindowType] /\ reserved \subseteq Slots
      /\ reservedRecords \in Int /\ reservedBytes \in Int
    BY DEF TypeOK
<1>. QED BY <1>1, Defaults DEF ReleaseReservation

(* What the first section of admit has checked when it reserves. *)
LEMMA ReserveGuard ==
    ASSUME NEW o \in Offers, AdmitStatus(o) = "RESERVE"
    PROVE  /\ FindAdmission(o) = {}
           /\ lifecycle = "ACCEPTING"
           /\ admitted # U64Max
           /\ ~(nextRecordId > U64Max)
           /\ ~(liveRecords + historyRecords >= MaxRecords)
           /\ ~(reservedRecords >= MaxRecords - liveRecords - historyRecords)
           /\ ~(o.bytes > MaxTotalBytes - retainedBytes - reservedBytes)
BY DEF AdmitStatus, IdsExhausted, Contended

(* TypeInv is inductive: one step per action. *)
LEMMA TypeInvStep == TypeInv /\ [Next]_vars => TypeInv'
<1> SUFFICES ASSUME TypeInv, [Next]_vars PROVE TypeInv'
    OBVIOUS
<1> USE Ranges, Defaults DEF TypeInv, TypeOK, Shape, OfferOrNone, Phases, record, counters, tallies,
        admission
<1>1. CASE UNCHANGED vars
    BY <1>1 DEF vars
<1>2. ASSUME NEW c \in Callers, NEW o \in Offers, AdmitReturn(c, o)
      PROVE  TypeInv'
  <2>1. TypeOK'
      BY <1>2, ReplayReceiptType DEF AdmitReturn
  <2>2. Shape'
      BY <1>2 DEF AdmitReturn
  <2>. QED BY <2>1, <2>2
<1>3. ASSUME NEW c \in Callers, NEW o \in Offers, AdmitReserve(c, o)
      PROVE  TypeInv'
  <2>1. o.bytes \in Nat /\ nextRecordId \in Ids
      BY <1>3, OfferFacts, ReserveGuard, ConfigValid DEF AdmitReserve
  <2>2. StoredIds \subseteq Ids
      BY DEF StoredIds, Held
  <2>3. \A s \in Slots : [offer |-> o, slot |-> s, id |-> nextRecordId, seen |-> StoredIds]
                           \in WindowType
      BY <2>1, <2>2, NewWindow
  <2>4. window' \in [Callers -> WindowType] /\ reserved' \subseteq Slots
      BY <1>3, <2>3 DEF AdmitReserve, FreeSlots
  <2>5. nextRecordId' \in 1..(U64Max + 1) /\ reservedRecords' \in Int /\ reservedBytes' \in Int
      BY <1>3, <2>1 DEF AdmitReserve, Ids
  <2>6. TypeOK'
      BY <1>3, <2>4, <2>5 DEF AdmitReserve
  <2>7. Shape'
      BY <1>3, <2>1, <2>2 DEF AdmitReserve, FreeSlots
  <2>. QED BY <2>6, <2>7
<1>4. ASSUME NEW c \in Callers, AdmitCopyFails(c)
      PROVE  TypeInv'
  <2>1. window[c].offer.bytes \in Nat
      BY <1>4, OfferFacts DEF AdmitCopyFails
  <2>2. /\ window' \in [Callers -> WindowType] /\ reserved' \subseteq Slots
        /\ reservedRecords' \in Int /\ reservedBytes' \in Int
      BY <1>4, <2>1, ReleaseType DEF AdmitCopyFails
  <2>3. receipt' \in [Callers -> ReceiptType]
      BY <1>4 DEF AdmitCopyFails
  <2>4. TypeOK'
      BY <1>4, <2>2, <2>3 DEF AdmitCopyFails
  <2>5. Shape'
      BY <1>4, <2>1 DEF AdmitCopyFails, ReleaseReservation, Outside
  <2>. QED BY <2>4, <2>5
<1>5. ASSUME NEW c \in Callers, AdmitLoses(c)
      PROVE  TypeInv'
  <2>1. window[c].offer.bytes \in Nat /\ window[c].offer \in Offers
      BY <1>5, OfferFacts DEF AdmitLoses
  <2>2. /\ window' \in [Callers -> WindowType] /\ reserved' \subseteq Slots
        /\ reservedRecords' \in Int /\ reservedBytes' \in Int
      BY <1>5, <2>1, ReleaseType DEF AdmitLoses
  <2>3. receipt' \in [Callers -> ReceiptType]
      BY <1>5, <2>1, ReplayReceiptType DEF AdmitLoses
  <2>4. TypeOK'
      BY <1>5, <2>2, <2>3 DEF AdmitLoses
  <2>5. Shape'
      BY ZenonT(30), <1>5, <2>1 DEF AdmitLoses, ReleaseReservation, Outside
  <2>. QED BY <2>4, <2>5
<1>6. ASSUME NEW c \in Callers, AdmitPublish(c)
      PROVE  TypeInv'
  <2>1. window[c].offer.bytes \in Nat
      BY ZenonT(30), <1>6, OfferFacts DEF AdmitPublish
  <2>2. /\ window' \in [Callers -> WindowType] /\ reserved' \subseteq Slots
        /\ reservedRecords' \in Int /\ reservedBytes' \in Int
      BY ZenonT(30), <1>6, <2>1, ReleaseType DEF AdmitPublish
  <2>3. receipt' \in [Callers -> ReceiptType] /\ preceding' \in [Ids -> SUBSET Ids]
      BY ZenonT(30), <1>6, NewReceipt, WindowFields DEF AdmitPublish
  <2>4. TypeOK'
    <3>1. window[c].slot \in Slots
        BY ZenonT(30), <1>6, WindowFields DEF AdmitPublish, SlotUsable
    <3>2. /\ phase' \in [Slots -> Phases \cup {"NULL"}] /\ offer' \in [Slots -> OfferOrNone]
          /\ recordId' \in [Slots -> 0..U64Max]
        BY Zenon, <1>6, <3>1 DEF AdmitPublish
    <3>3. retainedBytes' \in Int /\ liveRecords' \in Int /\ admitted' \in Int
        BY <1>6, <2>1 DEF AdmitPublish
    <3>. QED BY ZenonT(30), <1>6, <2>2, <2>3, <3>2, <3>3 DEF AdmitPublish
  <2>5. Shape'
      BY ZenonT(30), <1>6, <2>1 DEF AdmitPublish, ReleaseReservation, Outside
  <2>. QED BY <2>4, <2>5
<1>7. ASSUME NEW excluded \in SUBSET Keys, Claim(excluded)
      PROVE  TypeInv'
  <2>1. TypeOK'
      BY <1>7 DEF Claim, Oldest, Claimable, InPhase
  <2>2. Shape'
      BY <1>7 DEF Claim, Oldest, Claimable, InPhase
  <2>. QED BY <2>1, <2>2
<1>8. ASSUME NEW id \in Ids, NEW token \in Tokens, Complete(id, token)
      PROVE  TypeInv'
  <2>1. TypeOK'
      BY <1>8 DEF Complete, Retire, Leases, Find, Held
  <2>2. Shape'
      BY <1>8 DEF Complete, Retire, Leases, Find, Held
  <2>. QED BY <2>1, <2>2
<1>9. ASSUME NEW id \in Ids, NEW token \in Tokens, Fail(id, token)
      PROVE  TypeInv'
  <2>1. TypeOK'
      BY <1>9 DEF Fail, Leases, Find, Held
  <2>2. Shape'
      BY <1>9 DEF Fail, Leases, Find, Held
  <2>. QED BY <2>1, <2>2
<1>10. ASSUME NEW id \in Ids, Retry(id)
      PROVE  TypeInv'
  <2>1. TypeOK'
      BY <1>10 DEF Retry, Find, Held
  <2>2. Shape'
      BY <1>10 DEF Retry, Find, Held
  <2>. QED BY <2>1, <2>2
<1>11. ASSUME NEW id \in Ids, Discard(id)
      PROVE  TypeInv'
  <2>1. TypeOK'
      BY <1>11 DEF Discard, Retire, Find, Held
  <2>2. Shape'
      BY <1>11 DEF Discard, Retire, Find, Held
  <2>. QED BY <2>1, <2>2
<1>12. ASSUME NEW id \in Ids, Forget(id)
      PROVE  TypeInv'
  <2>1. \A s \in Find(id) : offer[s].bytes \in Nat
      BY OfferFacts DEF Find, Held
  <2>2. TypeOK'
      BY <1>12, <2>1 DEF Forget, Find, Held
  <2>3. Shape'
      BY ZenonT(60), <1>12, <2>1 DEF Forget, Find, Held
  <2>. QED BY <2>2, <2>3
<1>13. CASE Close
    BY <1>13 DEF Close
<1>14. CASE Destroy
    BY <1>14 DEF Destroy
<1>. HIDE DEF TypeInv
<1>. QED BY Zenon, <1>1, <1>2, <1>3, <1>4, <1>5, <1>6, <1>7, <1>8, <1>9, <1>10, <1>11, <1>12,
            <1>13, <1>14 DEF Next

LEMMA InitTypeInv == Init => TypeInv
<1>1. 1 \in 1..(U64Max + 1)
    BY ConfigValid
<1>2. Init => TypeOK
    BY <1>1, Ranges, Defaults DEF Init, TypeOK, OfferOrNone, Phases
<1>3. Init => Shape
    BY DEF Init, Shape, Outside
<1>. QED BY <1>2, <1>3 DEF TypeInv

(* TypeOK is an invariant of the provider, whatever its configuration. *)
THEOREM TypeCorrect == Spec => []TypeOK
<1>1. TypeInv => TypeOK
    BY DEF TypeInv
<1>. QED BY <1>1, InitTypeInv, TypeInvStep, PTL DEF Spec

-----------------------------------------------------------------------------
(* Reservations. *)

(* A slot is reserved exactly while one caller is inside admit with it, and it
   is empty all that time. *)
ResInv ==
    /\ \A s \in Slots : s \in reserved <=> \E c \in Callers : window[c].slot = s
    /\ \A c \in Callers : window[c].slot # 0 => phase[window[c].slot] = "NULL"
    /\ \A c, d \in Callers : window[c].slot # 0 /\ window[c].slot = window[d].slot => c = d

LEMMA WindowSlot ==
    ASSUME TypeOK, NEW c \in Callers
    PROVE  window[c].slot = 0 \/ window[c].slot \in Slots
<1>1. window[c] \in WindowType
    BY DEF TypeOK
<1>. QED BY <1>1, WindowFields, ConfigValid DEF Slots

LEMMA ResInvStep == TypeInv /\ ResInv /\ [Next]_vars => ResInv'
<1> SUFFICES ASSUME TypeInv, ResInv, [Next]_vars PROVE ResInv'
    OBVIOUS
<1>a. /\ phase \in [Slots -> Phases \cup {"NULL"}]
      /\ window \in [Callers -> WindowType]
      /\ reserved \subseteq Slots
      /\ 0 \notin Slots
    BY Ranges DEF TypeInv, TypeOK
<1>b. \A c \in Callers : window[c].slot = 0 \/ window[c].slot \in Slots
    BY WindowSlot DEF TypeInv
<1> USE <1>a, <1>b DEF ResInv, record, admission
<1>1. CASE UNCHANGED vars
    BY <1>1 DEF vars
<1>2. ASSUME NEW c \in Callers, NEW o \in Offers, AdmitReturn(c, o)
      PROVE  ResInv'
    BY <1>2 DEF AdmitReturn
<1>3. ASSUME NEW c \in Callers, NEW o \in Offers, AdmitReserve(c, o)
      PROVE  ResInv'
  <2>1. PICK s \in FreeSlots : /\ reserved' = reserved \cup {s}
                               /\ window' = [window EXCEPT ![c] = [offer |-> o, slot |-> s,
                                              id |-> nextRecordId, seen |-> StoredIds]]
      BY Zenon, <1>3 DEF AdmitReserve
  <2>2. /\ s \in Slots /\ phase[s] = "NULL" /\ s \notin reserved
        /\ window'[c].slot = s
        /\ \A d \in Callers : d # c => window'[d] = window[d]
        /\ phase' = phase
        /\ window[c].slot = 0
      BY ZenonT(60), <1>3, <2>1 DEF AdmitReserve, FreeSlots
  <2>. QED BY <2>1, <2>2
<1>4. ASSUME NEW c \in Callers, ReleaseReservation(c), window[c].slot # 0,
             phase' = phase \/ phase' = [phase EXCEPT ![window[c].slot] = "PENDING"]
      PROVE  ResInv'
  <2>1. /\ window'[c].slot = 0
        /\ \A d \in Callers : d # c => window'[d] = window[d]
        /\ reserved' = reserved \ {window[c].slot}
      BY <1>4 DEF ReleaseReservation, Outside
  <2>2. \A s \in Slots : s # window[c].slot => phase'[s] = phase[s]
      BY SMTT(30), <1>4
  <2>. QED BY <1>4, <2>1, <2>2
<1>5. ASSUME NEW c \in Callers, AdmitCopyFails(c)
      PROVE  ResInv'
    BY ZenonT(30), <1>4, <1>5 DEF AdmitCopyFails
<1>6. ASSUME NEW c \in Callers, AdmitLoses(c)
      PROVE  ResInv'
    BY ZenonT(30), <1>4, <1>6 DEF AdmitLoses
<1>7. ASSUME NEW c \in Callers, AdmitPublish(c)
      PROVE  ResInv'
    BY Zenon, <1>4, <1>7 DEF AdmitPublish
<1>8. ASSUME NEW s \in Slots, NEW p \in Phases \cup {"NULL"},
             phase[s] # "NULL", phase' = [phase EXCEPT ![s] = p],
             window' = window, reserved' = reserved
      PROVE  ResInv'
    BY SMTT(30), <1>8
<1>9. ASSUME NEW excluded \in SUBSET Keys, Claim(excluded)
      PROVE  ResInv'
    BY ZenonT(30), <1>8, <1>9 DEF Claim, Oldest, Claimable, InPhase, Phases
<1>10. ASSUME NEW id \in Ids, NEW token \in Tokens, Complete(id, token)
       PROVE  ResInv'
    BY ZenonT(30), <1>8, <1>10 DEF Complete, Retire, Leases, Phases
<1>11. ASSUME NEW id \in Ids, NEW token \in Tokens, Fail(id, token)
       PROVE  ResInv'
    BY ZenonT(30), <1>8, <1>11 DEF Fail, Leases, Phases
<1>12. ASSUME NEW id \in Ids, Retry(id)
       PROVE  ResInv'
    BY ZenonT(30), <1>8, <1>12 DEF Retry, Find, Held, Phases
<1>13. ASSUME NEW id \in Ids, Discard(id)
       PROVE  ResInv'
    BY ZenonT(30), <1>8, <1>13 DEF Discard, Retire, Find, Held, Phases
<1>14. ASSUME NEW id \in Ids, Forget(id)
       PROVE  ResInv'
    BY ZenonT(30), <1>8, <1>14 DEF Forget, Find, Held
<1>15. CASE Close
    BY <1>15 DEF Close
<1>16. CASE Destroy
    BY <1>16 DEF Destroy
<1>. HIDE DEF ResInv
<1>. QED BY Zenon, <1>1, <1>2, <1>3, <1>5, <1>6, <1>7, <1>9, <1>10, <1>11, <1>12, <1>13, <1>14,
            <1>15, <1>16 DEF Next

-----------------------------------------------------------------------------
(* Record ids and admission identities. *)

(* Ids are handed out in increasing order: the ids of stored records, of open
   reservations and of forgotten records are pairwise different and lie below
   next_record_id. *)
IdInv ==
    /\ \A s \in Slots : phase[s] # "NULL" =>
          recordId[s] < nextRecordId /\ recordId[s] \notin forgotten
    /\ \A s, t \in Slots :
          phase[s] # "NULL" /\ phase[t] # "NULL" /\ recordId[s] = recordId[t] => s = t
    /\ \A c \in Callers : window[c].slot # 0 =>
          /\ window[c].id < nextRecordId /\ window[c].id \notin forgotten
          /\ \A s \in Slots : phase[s] # "NULL" => recordId[s] # window[c].id
    /\ \A c, d \in Callers :
          window[c].slot # 0 /\ window[d].slot # 0 /\ window[c].id = window[d].id => c = d
    /\ \A n \in forgotten : n < nextRecordId

LEMMA IdInvStep == TypeInv /\ ResInv /\ IdInv /\ [Next]_vars => IdInv'
<1> SUFFICES ASSUME TypeInv, ResInv, IdInv, [Next]_vars PROVE IdInv'
    OBVIOUS
<1>a. /\ phase \in [Slots -> Phases \cup {"NULL"}]
      /\ recordId \in [Slots -> 0..U64Max]
      /\ window \in [Callers -> WindowType]
      /\ nextRecordId \in 1..(U64Max + 1)
      /\ forgotten \subseteq Ids
      /\ 0 \notin Slots
    BY Ranges DEF TypeInv, TypeOK
<1>b. \A c \in Callers : window[c].slot = 0 \/ window[c].slot \in Slots
    BY WindowSlot DEF TypeInv
<1> USE <1>a, <1>b DEF IdInv, record, admission
<1>1. CASE UNCHANGED vars
    BY <1>1 DEF vars
<1>2. ASSUME NEW c \in Callers, NEW o \in Offers, AdmitReturn(c, o)
      PROVE  IdInv'
    BY ZenonT(30), <1>2 DEF AdmitReturn
<1>3. ASSUME NEW c \in Callers, NEW o \in Offers, AdmitReserve(c, o)
      PROVE  IdInv'
  <2>1. PICK s \in FreeSlots :
           window' = [window EXCEPT ![c] = [offer |-> o, slot |-> s,
                                            id |-> nextRecordId, seen |-> StoredIds]]
      BY Zenon, <1>3 DEF AdmitReserve
  <2>2. /\ window'[c].id = nextRecordId
        /\ \A d \in Callers : d # c => window'[d] = window[d]
        /\ phase' = phase /\ recordId' = recordId /\ forgotten' = forgotten
        /\ nextRecordId' = nextRecordId + 1
      BY ZenonT(30), <1>3, <2>1 DEF AdmitReserve
  <2>3. \A n \in 0..U64Max : n < nextRecordId => n < nextRecordId' /\ n # nextRecordId
      BY <2>2, ConfigValid
  <2>4. \A d \in Callers : window[d].id \in 0..U64Max
      BY ZenonT(30), WindowFields
  <2>5. forgotten \subseteq 0..U64Max /\ nextRecordId \notin forgotten
      BY Ranges
  <2>. QED BY <2>2, <2>3, <2>4, <2>5
<1>4. ASSUME NEW c \in Callers, AdmitCopyFails(c)
      PROVE  IdInv'
    BY ZenonT(30), <1>4 DEF AdmitCopyFails, ReleaseReservation, Outside
<1>5. ASSUME NEW c \in Callers, AdmitLoses(c)
      PROVE  IdInv'
    BY ZenonT(30), <1>5 DEF AdmitLoses, ReleaseReservation, Outside
<1>6. ASSUME NEW c \in Callers, AdmitPublish(c)
      PROVE  IdInv'
  <2>1. /\ window[c].slot \in Slots /\ window[c].slot # 0
        /\ window'[c].slot = 0
        /\ \A d \in Callers : d # c => window'[d] = window[d]
        /\ nextRecordId' = nextRecordId /\ forgotten' = forgotten
      BY ZenonT(30), <1>6 DEF AdmitPublish, ReleaseReservation, Outside
  <2>2. /\ recordId'[window[c].slot] = window[c].id
        /\ \A s \in Slots : s # window[c].slot =>
              phase'[s] = phase[s] /\ recordId'[s] = recordId[s]
      BY ZenonT(30), <1>6, <2>1 DEF AdmitPublish
  <2>. QED BY SMTT(30), <2>1, <2>2
<1>7. ASSUME NEW s \in Slots, NEW p \in Phases,
             phase[s] # "NULL", phase' = [phase EXCEPT ![s] = p],
             UNCHANGED <<recordId, window, nextRecordId, forgotten>>
      PROVE  IdInv'
    BY SMTT(30), <1>7 DEF Phases
<1>8. ASSUME NEW excluded \in SUBSET Keys, Claim(excluded)
      PROVE  IdInv'
    BY ZenonT(30), <1>7, <1>8 DEF Claim, Oldest, Claimable, InPhase, Phases
<1>9. ASSUME NEW id \in Ids, NEW token \in Tokens, Complete(id, token)
      PROVE  IdInv'
    BY ZenonT(30), <1>7, <1>9 DEF Complete, Retire, Leases, Phases
<1>10. ASSUME NEW id \in Ids, NEW token \in Tokens, Fail(id, token)
       PROVE  IdInv'
    BY ZenonT(30), <1>7, <1>10 DEF Fail, Leases, Phases
<1>11. ASSUME NEW id \in Ids, Retry(id)
       PROVE  IdInv'
    BY ZenonT(30), <1>7, <1>11 DEF Retry, Find, Held, Phases
<1>12. ASSUME NEW id \in Ids, Discard(id)
       PROVE  IdInv'
    BY ZenonT(30), <1>7, <1>12 DEF Discard, Retire, Find, Held, Phases
<1>13. ASSUME NEW id \in Ids, Forget(id)
       PROVE  IdInv'
  <2>1. PICK s \in Slots : /\ phase[s] # "NULL" /\ recordId[s] = id
                           /\ phase' = [phase EXCEPT ![s] = "NULL"]
                           /\ recordId' = [recordId EXCEPT ![s] = 0]
      BY Zenon, <1>13 DEF Forget, Find, Held
  <2>2. /\ window' = window /\ nextRecordId' = nextRecordId
        /\ forgotten' = forgotten \cup {id}
      BY ZenonT(30), <1>13 DEF Forget
  <2>. QED BY ZenonT(30), <2>1, <2>2
<1>14. CASE Close
    BY ZenonT(30), <1>14 DEF Close
<1>15. CASE Destroy
    BY ZenonT(30), <1>15 DEF Destroy
<1>. HIDE DEF IdInv
<1>. QED BY Zenon, <1>1, <1>2, <1>3, <1>4, <1>5, <1>6, <1>8, <1>9, <1>10, <1>11, <1>12, <1>13,
            <1>14, <1>15 DEF Next

(* The three layers together. *)
BaseInv == TypeInv /\ ResInv /\ IdInv

LEMMA BaseInvariant == Spec => []BaseInv
<1>1. Init => BaseInv
  <2>1. Init => TypeInv
      BY InitTypeInv
  <2>2. Init => ResInv
      BY Ranges DEF Init, ResInv, Outside
  <2>3. Init => IdInv
      BY DEF Init, IdInv, Outside
  <2>. QED BY <2>1, <2>2, <2>3 DEF BaseInv
<1>2. BaseInv /\ [Next]_vars => BaseInv'
    BY TypeInvStep, ResInvStep, IdInvStep DEF BaseInv
<1>. QED BY <1>1, <1>2, PTL DEF Spec

-----------------------------------------------------------------------------
(***************************************************************************)
(* The provider's counters are the cardinalities of the sets they count.   *)
(* Each step moves one slot between two phases, adds or removes one        *)
(* reservation, or changes nothing that is counted.                        *)
(***************************************************************************)

(* Changing the phase of one slot moves it between two of the phase sets. *)
LEMMA PhaseEntered ==
    ASSUME TypeInv, NEW s \in Slots, NEW p, NEW q, p # q,
           phase[s] = p, phase' = [phase EXCEPT ![s] = q]
    PROVE  Cardinality(InPhase(q)') = Cardinality(InPhase(q)) + 1
<1>0. IsFiniteSet(Slots) /\ InPhase(q) \in SUBSET Slots
    BY FS_Interval, ConfigValid DEF InPhase, Slots
<1>1. IsFiniteSet(InPhase(q))
    BY <1>0, FS_Subset
<1>2. InPhase(q)' = InPhase(q) \cup {s} /\ s \notin InPhase(q)
    BY DEF InPhase, TypeInv, TypeOK
<1>. QED BY Zenon, <1>1, <1>2, FS_AddElement

LEMMA PhaseLeft ==
    ASSUME TypeInv, NEW s \in Slots, NEW p, NEW q, p # q,
           phase[s] = p, phase' = [phase EXCEPT ![s] = q]
    PROVE  Cardinality(InPhase(p)') = Cardinality(InPhase(p)) - 1
<1>0. IsFiniteSet(Slots) /\ InPhase(p) \in SUBSET Slots
    BY FS_Interval, ConfigValid DEF InPhase, Slots
<1>1. IsFiniteSet(InPhase(p))
    BY <1>0, FS_Subset
<1>2. InPhase(p)' = InPhase(p) \ {s} /\ s \in InPhase(p)
    BY DEF InPhase, TypeInv, TypeOK
<1>. QED BY <1>1, <1>2, FS_RemoveElement

LEMMA PhaseKept ==
    ASSUME TypeInv, NEW s \in Slots, NEW p, NEW q, NEW r, r # p, r # q,
           phase[s] = p, phase' = [phase EXCEPT ![s] = q]
    PROVE  Cardinality(InPhase(r)') = Cardinality(InPhase(r))
<1>1. InPhase(r)' = InPhase(r)
    BY DEF InPhase, TypeInv, TypeOK
<1>. QED BY <1>1

LEMMA FiniteParts ==
    ASSUME TypeInv
    PROVE  /\ IsFiniteSet(Slots) /\ Cardinality(Slots) = MaxRecords
           /\ IsFiniteSet(reserved) /\ Cardinality(reserved) \in Nat
           /\ IsFiniteSet(forgotten) /\ Cardinality(forgotten) \in Nat
           /\ IsFiniteSet(Held)
           /\ \A p \in Phases : IsFiniteSet(InPhase(p)) /\ Cardinality(InPhase(p)) \in Nat
<1>1. IsFiniteSet(Slots) /\ Cardinality(Slots) = MaxRecords
    BY FS_Interval, ConfigValid DEF Slots
<1>2. IsFiniteSet(Ids)
    BY FS_Interval, ConfigValid DEF Ids
<1>3. reserved \in SUBSET Slots /\ forgotten \in SUBSET Ids /\ Held \in SUBSET Slots
    BY DEF TypeInv, TypeOK, Held
<1>4. \A p : InPhase(p) \in SUBSET Slots
    BY DEF InPhase
<1>. QED BY <1>1, <1>2, <1>3, <1>4, FS_Subset, FS_CardinalityType

(* The seven moves of the provider, each with its effect on the four counts. *)
LEMMA CountAdmit ==
    ASSUME TypeInv, NEW s \in Slots, phase[s] = "NULL", phase' = [phase EXCEPT ![s] = "PENDING"]
    PROVE  /\ Cardinality(InPhase("PENDING")') = Cardinality(InPhase("PENDING")) + 1
           /\ Cardinality(InPhase("CLAIMED")') = Cardinality(InPhase("CLAIMED"))
           /\ Cardinality(InPhase("FAILED")') = Cardinality(InPhase("FAILED"))
           /\ Cardinality(InPhase("TOMBSTONE")') = Cardinality(InPhase("TOMBSTONE"))
<1>1. Cardinality(InPhase("PENDING")') = Cardinality(InPhase("PENDING")) + 1
    BY Zenon, PhaseEntered
<1>2. Cardinality(InPhase("CLAIMED")') = Cardinality(InPhase("CLAIMED"))
    BY Zenon, PhaseKept
<1>3. Cardinality(InPhase("FAILED")') = Cardinality(InPhase("FAILED"))
    BY Zenon, PhaseKept
<1>4. Cardinality(InPhase("TOMBSTONE")') = Cardinality(InPhase("TOMBSTONE"))
    BY Zenon, PhaseKept
<1>. QED BY <1>1, <1>2, <1>3, <1>4

LEMMA CountClaim ==
    ASSUME TypeInv, NEW s \in Slots, phase[s] = "PENDING", phase' = [phase EXCEPT ![s] = "CLAIMED"]
    PROVE  /\ Cardinality(InPhase("PENDING")') = Cardinality(InPhase("PENDING")) - 1
           /\ Cardinality(InPhase("CLAIMED")') = Cardinality(InPhase("CLAIMED")) + 1
           /\ Cardinality(InPhase("FAILED")') = Cardinality(InPhase("FAILED"))
           /\ Cardinality(InPhase("TOMBSTONE")') = Cardinality(InPhase("TOMBSTONE"))
<1>1. Cardinality(InPhase("PENDING")') = Cardinality(InPhase("PENDING")) - 1
    BY Zenon, PhaseLeft
<1>2. Cardinality(InPhase("CLAIMED")') = Cardinality(InPhase("CLAIMED")) + 1
    BY Zenon, PhaseEntered
<1>3. Cardinality(InPhase("FAILED")') = Cardinality(InPhase("FAILED"))
    BY Zenon, PhaseKept
<1>4. Cardinality(InPhase("TOMBSTONE")') = Cardinality(InPhase("TOMBSTONE"))
    BY Zenon, PhaseKept
<1>. QED BY <1>1, <1>2, <1>3, <1>4

LEMMA CountComplete ==
    ASSUME TypeInv, NEW s \in Slots, phase[s] = "CLAIMED", phase' = [phase EXCEPT ![s] = "TOMBSTONE"]
    PROVE  /\ Cardinality(InPhase("PENDING")') = Cardinality(InPhase("PENDING"))
           /\ Cardinality(InPhase("CLAIMED")') = Cardinality(InPhase("CLAIMED")) - 1
           /\ Cardinality(InPhase("FAILED")') = Cardinality(InPhase("FAILED"))
           /\ Cardinality(InPhase("TOMBSTONE")') = Cardinality(InPhase("TOMBSTONE")) + 1
<1>1. Cardinality(InPhase("PENDING")') = Cardinality(InPhase("PENDING"))
    BY Zenon, PhaseKept
<1>2. Cardinality(InPhase("CLAIMED")') = Cardinality(InPhase("CLAIMED")) - 1
    BY Zenon, PhaseLeft
<1>3. Cardinality(InPhase("FAILED")') = Cardinality(InPhase("FAILED"))
    BY Zenon, PhaseKept
<1>4. Cardinality(InPhase("TOMBSTONE")') = Cardinality(InPhase("TOMBSTONE")) + 1
    BY Zenon, PhaseEntered
<1>. QED BY <1>1, <1>2, <1>3, <1>4

LEMMA CountFail ==
    ASSUME TypeInv, NEW s \in Slots, phase[s] = "CLAIMED", phase' = [phase EXCEPT ![s] = "FAILED"]
    PROVE  /\ Cardinality(InPhase("PENDING")') = Cardinality(InPhase("PENDING"))
           /\ Cardinality(InPhase("CLAIMED")') = Cardinality(InPhase("CLAIMED")) - 1
           /\ Cardinality(InPhase("FAILED")') = Cardinality(InPhase("FAILED")) + 1
           /\ Cardinality(InPhase("TOMBSTONE")') = Cardinality(InPhase("TOMBSTONE"))
<1>1. Cardinality(InPhase("PENDING")') = Cardinality(InPhase("PENDING"))
    BY Zenon, PhaseKept
<1>2. Cardinality(InPhase("CLAIMED")') = Cardinality(InPhase("CLAIMED")) - 1
    BY Zenon, PhaseLeft
<1>3. Cardinality(InPhase("FAILED")') = Cardinality(InPhase("FAILED")) + 1
    BY Zenon, PhaseEntered
<1>4. Cardinality(InPhase("TOMBSTONE")') = Cardinality(InPhase("TOMBSTONE"))
    BY Zenon, PhaseKept
<1>. QED BY <1>1, <1>2, <1>3, <1>4

LEMMA CountRetry ==
    ASSUME TypeInv, NEW s \in Slots, phase[s] = "FAILED", phase' = [phase EXCEPT ![s] = "PENDING"]
    PROVE  /\ Cardinality(InPhase("PENDING")') = Cardinality(InPhase("PENDING")) + 1
           /\ Cardinality(InPhase("CLAIMED")') = Cardinality(InPhase("CLAIMED"))
           /\ Cardinality(InPhase("FAILED")') = Cardinality(InPhase("FAILED")) - 1
           /\ Cardinality(InPhase("TOMBSTONE")') = Cardinality(InPhase("TOMBSTONE"))
<1>1. Cardinality(InPhase("PENDING")') = Cardinality(InPhase("PENDING")) + 1
    BY Zenon, PhaseEntered
<1>2. Cardinality(InPhase("CLAIMED")') = Cardinality(InPhase("CLAIMED"))
    BY Zenon, PhaseKept
<1>3. Cardinality(InPhase("FAILED")') = Cardinality(InPhase("FAILED")) - 1
    BY Zenon, PhaseLeft
<1>4. Cardinality(InPhase("TOMBSTONE")') = Cardinality(InPhase("TOMBSTONE"))
    BY Zenon, PhaseKept
<1>. QED BY <1>1, <1>2, <1>3, <1>4

LEMMA CountDiscard ==
    ASSUME TypeInv, NEW s \in Slots, phase[s] = "FAILED", phase' = [phase EXCEPT ![s] = "TOMBSTONE"]
    PROVE  /\ Cardinality(InPhase("PENDING")') = Cardinality(InPhase("PENDING"))
           /\ Cardinality(InPhase("CLAIMED")') = Cardinality(InPhase("CLAIMED"))
           /\ Cardinality(InPhase("FAILED")') = Cardinality(InPhase("FAILED")) - 1
           /\ Cardinality(InPhase("TOMBSTONE")') = Cardinality(InPhase("TOMBSTONE")) + 1
<1>1. Cardinality(InPhase("PENDING")') = Cardinality(InPhase("PENDING"))
    BY Zenon, PhaseKept
<1>2. Cardinality(InPhase("CLAIMED")') = Cardinality(InPhase("CLAIMED"))
    BY Zenon, PhaseKept
<1>3. Cardinality(InPhase("FAILED")') = Cardinality(InPhase("FAILED")) - 1
    BY Zenon, PhaseLeft
<1>4. Cardinality(InPhase("TOMBSTONE")') = Cardinality(InPhase("TOMBSTONE")) + 1
    BY Zenon, PhaseEntered
<1>. QED BY <1>1, <1>2, <1>3, <1>4

LEMMA CountForget ==
    ASSUME TypeInv, NEW s \in Slots, phase[s] = "TOMBSTONE", phase' = [phase EXCEPT ![s] = "NULL"]
    PROVE  /\ Cardinality(InPhase("PENDING")') = Cardinality(InPhase("PENDING"))
           /\ Cardinality(InPhase("CLAIMED")') = Cardinality(InPhase("CLAIMED"))
           /\ Cardinality(InPhase("FAILED")') = Cardinality(InPhase("FAILED"))
           /\ Cardinality(InPhase("TOMBSTONE")') = Cardinality(InPhase("TOMBSTONE")) - 1
<1>1. Cardinality(InPhase("PENDING")') = Cardinality(InPhase("PENDING"))
    BY Zenon, PhaseKept
<1>2. Cardinality(InPhase("CLAIMED")') = Cardinality(InPhase("CLAIMED"))
    BY Zenon, PhaseKept
<1>3. Cardinality(InPhase("FAILED")') = Cardinality(InPhase("FAILED"))
    BY Zenon, PhaseKept
<1>4. Cardinality(InPhase("TOMBSTONE")') = Cardinality(InPhase("TOMBSTONE")) - 1
    BY Zenon, PhaseLeft
<1>. QED BY <1>1, <1>2, <1>3, <1>4

LEMMA CountersStep == BaseInv /\ CountersAgree /\ [Next]_vars => CountersAgree'
<1> SUFFICES ASSUME BaseInv, CountersAgree, [Next]_vars PROVE CountersAgree'
    OBVIOUS
<1>a. /\ reservedRecords \in Int /\ liveRecords \in Int /\ historyRecords \in Int
      /\ inFlight \in Int /\ admitted \in Int /\ completed \in Int /\ failed \in Int
      /\ retried \in Int /\ discarded \in Int
    BY DEF BaseInv, TypeInv, TypeOK
<1>b. /\ IsFiniteSet(reserved) /\ Cardinality(reserved) \in Nat
      /\ IsFiniteSet(forgotten) /\ Cardinality(forgotten) \in Nat
      /\ \A p \in Phases : Cardinality(InPhase(p)) \in Nat
    BY FiniteParts DEF BaseInv
<1>c. TypeInv
    BY DEF BaseInv
<1>1. ASSUME UNCHANGED <<phase, reserved, forgotten, counters, tallies>>
      PROVE  CountersAgree'
    BY ZenonT(30), <1>1 DEF CountersAgree, counters, tallies, InPhase
<1>2. ASSUME NEW c \in Callers, NEW o \in Offers, AdmitReserve(c, o)
      PROVE  CountersAgree'
  <2>0. PICK s : s \notin reserved /\ reserved' = reserved \cup {s}
      BY ZenonT(30), <1>2 DEF AdmitReserve, FreeSlots
  <2>1. Cardinality(reserved') = Cardinality(reserved) + 1
      BY ZenonT(30), <2>0, <1>b, FS_AddElement
  <2>2. /\ UNCHANGED <<phase, forgotten, liveRecords, historyRecords, inFlight, tallies>>
        /\ reservedRecords' = reservedRecords + 1
      BY ZenonT(30), <1>2 DEF AdmitReserve, record
  <2>. QED
      BY <2>1, <2>2, <1>a, <1>b DEF CountersAgree, InPhase, tallies
<1>3. ASSUME NEW c \in Callers, window[c].slot # 0, ReleaseReservation(c)
      PROVE  Cardinality(reserved') = Cardinality(reserved) - 1
  <2>1. window[c].slot \in reserved
      BY ZenonT(30), <1>3, WindowSlot DEF BaseInv, TypeInv, ResInv
  <2>. QED BY ZenonT(30), <1>3, <2>1, <1>b, FS_RemoveElement DEF ReleaseReservation
<1>4. ASSUME NEW c \in Callers, AdmitCopyFails(c) \/ AdmitLoses(c)
      PROVE  CountersAgree'
  <2>1. Cardinality(reserved') = Cardinality(reserved) - 1
      BY ZenonT(30), <1>3, <1>4 DEF AdmitCopyFails, AdmitLoses
  <2>2. /\ UNCHANGED <<phase, forgotten, liveRecords, historyRecords, inFlight, tallies>>
        /\ reservedRecords' = reservedRecords - 1
      BY ZenonT(30), <1>4 DEF AdmitCopyFails, AdmitLoses, ReleaseReservation, record
  <2>. QED
      BY <2>1, <2>2, <1>a, <1>b DEF CountersAgree, InPhase, tallies
<1>5. ASSUME NEW c \in Callers, AdmitPublish(c)
      PROVE  CountersAgree'
  <2>1. PICK s \in Slots : phase[s] = "NULL" /\ phase' = [phase EXCEPT ![s] = "PENDING"]
      BY ZenonT(30), <1>5, WindowSlot DEF AdmitPublish, SlotUsable, BaseInv, TypeInv
  <2>3. Cardinality(reserved') = Cardinality(reserved) - 1
      BY ZenonT(30), <1>3, <1>5 DEF AdmitPublish
  <2>2. /\ UNCHANGED <<forgotten, historyRecords, inFlight, completed, failed, retried,
                        discarded>>
        /\ reservedRecords' = reservedRecords - 1
        /\ liveRecords' = liveRecords + 1
        /\ admitted' = admitted + 1
      BY ZenonT(30), <1>5 DEF AdmitPublish, ReleaseReservation, counters, tallies
  <2>4. /\ Cardinality(InPhase("PENDING")') = Cardinality(InPhase("PENDING")) + 1
        /\ Cardinality(InPhase("CLAIMED")') = Cardinality(InPhase("CLAIMED"))
        /\ Cardinality(InPhase("FAILED")') = Cardinality(InPhase("FAILED"))
        /\ Cardinality(InPhase("TOMBSTONE")') = Cardinality(InPhase("TOMBSTONE"))
      BY Zenon, <2>1, <1>c, CountAdmit
  <2>. QED
      BY <2>2, <2>3, <2>4, <1>a, <1>b DEF CountersAgree, Phases
<1>6. ASSUME NEW excluded \in SUBSET Keys, Claim(excluded)
      PROVE  CountersAgree'
  <2>1. PICK s \in Slots : phase[s] = "PENDING" /\ phase' = [phase EXCEPT ![s] = "CLAIMED"]
      BY ZenonT(30), <1>6 DEF Claim, Oldest, Claimable, InPhase
  <2>2. /\ UNCHANGED <<reserved, forgotten, reservedRecords, liveRecords, historyRecords,
                        admitted, completed, failed, retried, discarded>>
        /\ inFlight' = inFlight + 1
      BY ZenonT(30), <1>6 DEF Claim, counters, tallies
  <2>4. /\ Cardinality(InPhase("PENDING")') = Cardinality(InPhase("PENDING")) - 1
        /\ Cardinality(InPhase("CLAIMED")') = Cardinality(InPhase("CLAIMED")) + 1
        /\ Cardinality(InPhase("FAILED")') = Cardinality(InPhase("FAILED"))
        /\ Cardinality(InPhase("TOMBSTONE")') = Cardinality(InPhase("TOMBSTONE"))
      BY Zenon, <2>1, <1>c, CountClaim
  <2>. QED
      BY <2>2, <2>4, <1>a, <1>b DEF CountersAgree, Phases
<1>7. ASSUME NEW id \in Ids, NEW token \in Tokens, Complete(id, token)
      PROVE  CountersAgree'
  <2>1. PICK s \in Slots : phase[s] = "CLAIMED" /\ phase' = [phase EXCEPT ![s] = "TOMBSTONE"]
      BY ZenonT(30), <1>7 DEF Complete, Retire, Leases
  <2>2. /\ UNCHANGED <<reserved, forgotten, reservedRecords, admitted, failed, retried,
                        discarded>>
        /\ liveRecords' = liveRecords - 1
        /\ historyRecords' = historyRecords + 1
        /\ inFlight' = inFlight - 1
        /\ completed' = completed + 1
      BY ZenonT(30), <1>7 DEF Complete, counters, tallies
  <2>4. /\ Cardinality(InPhase("PENDING")') = Cardinality(InPhase("PENDING"))
        /\ Cardinality(InPhase("CLAIMED")') = Cardinality(InPhase("CLAIMED")) - 1
        /\ Cardinality(InPhase("FAILED")') = Cardinality(InPhase("FAILED"))
        /\ Cardinality(InPhase("TOMBSTONE")') = Cardinality(InPhase("TOMBSTONE")) + 1
      BY Zenon, <2>1, <1>c, CountComplete
  <2>. QED
      BY <2>2, <2>4, <1>a, <1>b DEF CountersAgree, Phases
<1>8. ASSUME NEW id \in Ids, NEW token \in Tokens, Fail(id, token)
      PROVE  CountersAgree'
  <2>1. PICK s \in Slots : phase[s] = "CLAIMED" /\ phase' = [phase EXCEPT ![s] = "FAILED"]
      BY ZenonT(30), <1>8 DEF Fail, Leases
  <2>2. /\ UNCHANGED <<reserved, forgotten, reservedRecords, liveRecords, historyRecords,
                        admitted, completed, retried, discarded>>
        /\ inFlight' = inFlight - 1
        /\ failed' = failed + 1
      BY ZenonT(30), <1>8 DEF Fail, counters, tallies
  <2>4. /\ Cardinality(InPhase("PENDING")') = Cardinality(InPhase("PENDING"))
        /\ Cardinality(InPhase("CLAIMED")') = Cardinality(InPhase("CLAIMED")) - 1
        /\ Cardinality(InPhase("FAILED")') = Cardinality(InPhase("FAILED")) + 1
        /\ Cardinality(InPhase("TOMBSTONE")') = Cardinality(InPhase("TOMBSTONE"))
      BY Zenon, <2>1, <1>c, CountFail
  <2>. QED
      BY <2>2, <2>4, <1>a, <1>b DEF CountersAgree, Phases
<1>9. ASSUME NEW id \in Ids, Retry(id)
      PROVE  CountersAgree'
  <2>1. PICK s \in Slots : phase[s] = "FAILED" /\ phase' = [phase EXCEPT ![s] = "PENDING"]
      BY ZenonT(30), <1>9 DEF Retry, Find, Held
  <2>2. /\ UNCHANGED <<reserved, forgotten, reservedRecords, liveRecords, historyRecords,
                        inFlight, admitted, completed, failed, discarded>>
        /\ retried' = retried + 1
      BY ZenonT(30), <1>9 DEF Retry, counters, tallies
  <2>4. /\ Cardinality(InPhase("PENDING")') = Cardinality(InPhase("PENDING")) + 1
        /\ Cardinality(InPhase("CLAIMED")') = Cardinality(InPhase("CLAIMED"))
        /\ Cardinality(InPhase("FAILED")') = Cardinality(InPhase("FAILED")) - 1
        /\ Cardinality(InPhase("TOMBSTONE")') = Cardinality(InPhase("TOMBSTONE"))
      BY Zenon, <2>1, <1>c, CountRetry
  <2>. QED
      BY <2>2, <2>4, <1>a, <1>b DEF CountersAgree, Phases
<1>10. ASSUME NEW id \in Ids, Discard(id)
      PROVE  CountersAgree'
  <2>1. PICK s \in Slots : phase[s] = "FAILED" /\ phase' = [phase EXCEPT ![s] = "TOMBSTONE"]
      BY ZenonT(30), <1>10 DEF Discard, Retire, Find, Held
  <2>2. /\ UNCHANGED <<reserved, forgotten, reservedRecords, inFlight, admitted, completed,
                        failed, retried>>
        /\ liveRecords' = liveRecords - 1
        /\ historyRecords' = historyRecords + 1
        /\ discarded' = discarded + 1
      BY ZenonT(30), <1>10 DEF Discard, counters, tallies
  <2>4. /\ Cardinality(InPhase("PENDING")') = Cardinality(InPhase("PENDING"))
        /\ Cardinality(InPhase("CLAIMED")') = Cardinality(InPhase("CLAIMED"))
        /\ Cardinality(InPhase("FAILED")') = Cardinality(InPhase("FAILED")) - 1
        /\ Cardinality(InPhase("TOMBSTONE")') = Cardinality(InPhase("TOMBSTONE")) + 1
      BY Zenon, <2>1, <1>c, CountDiscard
  <2>. QED
      BY <2>2, <2>4, <1>a, <1>b DEF CountersAgree, Phases
<1>11. ASSUME NEW id \in Ids, Forget(id)
      PROVE  CountersAgree'
  <2>1. PICK s \in Slots : phase[s] = "TOMBSTONE" /\ phase' = [phase EXCEPT ![s] = "NULL"]
      BY ZenonT(30), <1>11 DEF Forget, Find, Held
  <2>3. Cardinality(forgotten') = Cardinality(forgotten) + 1
    <3>1. PICK r \in Slots : phase[r] # "NULL" /\ recordId[r] = id
        BY Zenon, <1>11 DEF Forget, Find, Held
    <3>2. id \notin forgotten
        BY <3>1 DEF BaseInv, IdInv
    <3>. QED
        BY ZenonT(30), <1>11, <3>2, <1>b, FS_AddElement DEF Forget
  <2>2. /\ UNCHANGED <<reserved, reservedRecords, liveRecords, inFlight, admitted,
                        completed, failed, retried, discarded>>
        /\ historyRecords' = historyRecords - 1
      BY ZenonT(30), <1>11 DEF Forget, counters, tallies
  <2>4. /\ Cardinality(InPhase("PENDING")') = Cardinality(InPhase("PENDING"))
        /\ Cardinality(InPhase("CLAIMED")') = Cardinality(InPhase("CLAIMED"))
        /\ Cardinality(InPhase("FAILED")') = Cardinality(InPhase("FAILED"))
        /\ Cardinality(InPhase("TOMBSTONE")') = Cardinality(InPhase("TOMBSTONE")) - 1
      BY Zenon, <2>1, <1>c, CountForget
  <2>. QED
      BY <2>2, <2>3, <2>4, <1>a, <1>b DEF CountersAgree, Phases
<1>. QED
    BY ZenonT(30), <1>1, <1>2, <1>4, <1>5, <1>6, <1>7, <1>8, <1>9, <1>10, <1>11
       DEF Next, AdmitReturn, Close, Destroy, vars, record

(* Every counter of the provider is the number of things it counts. *)
THEOREM CountersCorrect == Spec => []CountersAgree
<1>1. Init => CountersAgree
  <2>1. Init => reserved = {} /\ forgotten = {}
      BY DEF Init
  <2>2. Init => \A p \in Phases : InPhase(p) = {}
      BY DEF Init, InPhase, Phases
  <2>3. Init => /\ reservedRecords = 0 /\ liveRecords = 0 /\ historyRecords = 0 /\ inFlight = 0
                /\ admitted = 0 /\ completed = 0 /\ failed = 0 /\ retried = 0 /\ discarded = 0
      BY Zenon DEF Init
  <2>. QED BY <2>1, <2>2, <2>3, FS_EmptySet DEF CountersAgree, Phases
<1>. QED BY <1>1, CountersStep, BaseInvariant, PTL DEF Spec
=============================================================================
