------------------------- MODULE PublicationProofs -------------------------
(***************************************************************************)
(* An asynchronous publication ends once, when nobody holds it any more,   *)
(* and reports truthfully, for any number of stages that are completed by  *)
(* adapters.                                                               *)
(*                                                                         *)
(* The counter "pending" is the number of claims that are out, so the      *)
(* thread that brings it to zero is the last one; a graph run that may     *)
(* still offer claims keeps the publication from its end, by its own claim *)
(* or because the owner has not left.                                      *)
(***************************************************************************)
EXTENDS GraphExecution, FiniteSetTheorems, TLAPS

Statuses == Failures \cup {"OK"}

\* The claims an adapter or a submit call has in its hands.
Out == {c \in Publication!Claims : claim[c] \in {"OFFERED", "HELD", "TAKEN"}}

PublicationType ==
    /\ status \in Statuses
    /\ owner \in {"RUNNING", "SEALED", "LEFT"}
    /\ claim \in [Publication!Claims -> {"NONE", "OFFERED", "HELD", "TAKEN", "DONE"}]
    /\ call \in [Publication!Runners -> Publication!Claims \cup {Publication!NoClaim}]
    /\ graph \in [Publication!Runners -> Statuses]
    /\ due \in Nat

\* A submit call is part of a graph run that is not over.
CallsInGraph ==
    \A r \in Publication!Runners :
        call[r] # Publication!NoClaim =>
            IF r = Publication!Owner THEN owner = "RUNNING" ELSE claim[r] = "TAKEN"

\* Who finds the counter at zero, after the owner has left, is alone.
EndsLast == due > 0 => due = 1 /\ owner = "LEFT" /\ Out = {}

\* status is the first of the failures.
FirstError == IF failures = {} THEN status = "OK" ELSE status \in failures

Told == finished # {} => finished = {status} /\ due > 0

PublicationInv ==
    /\ PublicationType
    /\ pending = Cardinality(Out)
    /\ CallsInGraph /\ EndsLast /\ FirstError /\ Told

LEMMA OutFinite ==
    ASSUME PublicationType
    PROVE  IsFiniteSet(Out) /\ Cardinality(Out) \in Nat /\ (Cardinality(Out) = 0 <=> Out = {})
<1>1. IsFiniteSet(Publication!Claims)
    BY ZenonT(30), PublicationAssumption, FS_Union DEF Publication!Claims
<1>2. IsFiniteSet(Out)
    BY SMTT(30), <1>1, FS_Subset DEF Out
<1>3. QED
    BY SMTT(30), <1>2, FS_CardinalityType, FS_EmptySet

LEMMA PublicationInit == Publication!Init => PublicationInv
<1> SUFFICES ASSUME Publication!Init PROVE PublicationInv
    OBVIOUS
<1>1. PublicationType
    BY ZenonT(30) DEF Publication!Init, PublicationType, Statuses
<1>2. Out = {}
    BY ZenonT(30) DEF Publication!Init, Out
<1>3. Cardinality(Out) = 0
    BY ZenonT(30), <1>2, FS_EmptySet
<1>4. QED
    BY SMTT(30), <1>1, <1>2, <1>3 DEF PublicationInv, Publication!Init, CallsInGraph, EndsLast, FirstError, Told

\* flow_async_publication_release, by the thread that ends claim c.
LEMMA ReleaseStep ==
    ASSUME PublicationInv, NEW c \in Out, claim' = [claim EXCEPT ![c] = "DONE"],
           NEW st \in Statuses, Publication!Release(st)
    PROVE  /\ Out' = Out \ {c}
           /\ pending' = Cardinality(Out')
           /\ due = 0 /\ due' \in Nat
           /\ due' > 0 => due' = 1 /\ owner = "LEFT" /\ Out' = {}
           /\ finished = {}
           /\ owner' = owner
           /\ status' = (IF status = "OK" THEN st ELSE status) /\ status' \in Statuses
<1>1. IsFiniteSet(Out) /\ Cardinality(Out) \in Nat
    BY ZenonT(30), OutFinite DEF PublicationInv
<1>2. Out' = Out \ {c}
    BY ZenonT(30) DEF PublicationInv, PublicationType, Out
<1>3. /\ IsFiniteSet(Out \ {c}) /\ Cardinality(Out \ {c}) = Cardinality(Out) - 1
      /\ Cardinality(Out \ {c}) \in Nat /\ (Cardinality(Out \ {c}) = 0 <=> Out \ {c} = {})
    BY ZenonT(30), <1>1, FS_RemoveElement, FS_CardinalityType, FS_EmptySet
<1>4. pending' = Cardinality(Out')
    BY SMTT(30), <1>1, <1>2, <1>3 DEF PublicationInv, Publication!Release
<1>5. due = 0 /\ finished = {}
    BY DEF PublicationInv, PublicationType, EndsLast, Told
<1>6. status' = (IF status = "OK" THEN st ELSE status) /\ status' \in Statuses /\ owner' = owner
    BY ZenonT(30) DEF PublicationInv, PublicationType, Publication!Release, Publication!Note
<1>7. due' \in Nat /\ (due' > 0 => due' = 1 /\ owner = "LEFT" /\ pending' = 0)
    BY SMTT(30), <1>5 DEF Publication!Release
<1>8. pending' = 0 => Out' = {}
    BY ZenonT(30), <1>2, <1>3, <1>4
<1>9. QED
    BY ZenonT(30), <1>2, <1>4, <1>5, <1>6, <1>7, <1>8

LEMMA OfferKeeps ==
    ASSUME PublicationInv, NEW r \in Publication!Runners, NEW c \in Publication!Claims,
           Publication!Offer(r, c)
    PROVE  PublicationInv'
<1>1. PublicationType'
    BY ZenonT(30) DEF PublicationInv, PublicationType, Publication!Offer
<1>2. Out' = Out \cup {c} /\ c \notin Out
    BY ZenonT(30) DEF PublicationInv, PublicationType, Publication!Offer, Out
<1>3. pending' = Cardinality(Out')
    BY ZenonT(30), <1>2, OutFinite, FS_AddElement DEF PublicationInv, Publication!Offer
<1>4. CallsInGraph'
    BY SMTT(30) DEF PublicationInv, PublicationType, CallsInGraph, Publication!Offer, Publication!InGraph
<1>5. due = 0
    BY DEF PublicationInv, PublicationType, EndsLast, Publication!Offer, Publication!InGraph, Out,
           Publication!Runners, Publication!Claims
<1>6. QED
    BY SMTT(30), <1>1, <1>3, <1>4, <1>5 DEF PublicationInv, EndsLast, FirstError, Told, Publication!Offer

\* A claim that passes from hand to hand stays out.
LEMMA HandedOn ==
    ASSUME PublicationInv, NEW c \in Out, NEW hands \in {"HELD", "TAKEN"},
           claim[c] # "TAKEN", claim' = [claim EXCEPT ![c] = hands],
           UNCHANGED <<pending, status, owner, call, graph, due, finished, failures>>
    PROVE  PublicationInv'
<1>1. PublicationType'
    BY ZenonT(30) DEF PublicationInv, PublicationType
<1>2. Out' = Out
    BY ZenonT(30) DEF PublicationInv, PublicationType, Out
<1>3. CallsInGraph'
    BY SMTT(30) DEF PublicationInv, PublicationType, CallsInGraph
<1>4. QED
    BY ZenonT(30), <1>1, <1>2, <1>3 DEF PublicationInv, EndsLast, FirstError, Told

\* The submit call of a stage returns and leaves the claim to the adapter.
LEMMA SubmitReturns ==
    ASSUME PublicationInv, NEW r \in Publication!Runners,
           Publication!Accepted(r) \/ Publication!MovedAndRejected(r)
    PROVE  PublicationInv'
<1>1. PublicationType'
    BY ZenonT(30) DEF PublicationInv, PublicationType, Publication!Accepted, Publication!MovedAndRejected,
           Publication!StageFails, Statuses
<1>2. UNCHANGED <<pending, status, owner, claim, due, finished, failures>> /\ Out' = Out
    BY ZenonT(30) DEF Publication!Accepted, Publication!MovedAndRejected, Out
<1>3. CallsInGraph'
    BY ZenonT(30), <1>2 DEF PublicationInv, PublicationType, CallsInGraph, Publication!Accepted,
                Publication!MovedAndRejected
<1>4. QED
    BY ZenonT(30), <1>1, <1>2, <1>3 DEF PublicationInv, EndsLast, FirstError, Told

LEMMA AbandonedKeeps ==
    ASSUME PublicationInv, NEW r \in Publication!Runners, Publication!Abandoned(r)
    PROVE  PublicationInv'
<1>1. PICK c \in Out : c = call[r] /\ claim[c] = "OFFERED"
    BY ZenonT(30) DEF PublicationInv, PublicationType, Publication!Abandoned, Out
<1>2. claim' = [claim EXCEPT ![c] = "DONE"] /\ Publication!Release("OK") /\ UNCHANGED <<finished, failures>>
    BY ZenonT(30), <1>1 DEF Publication!Abandoned
<1>3. /\ Out' = Out \ {c} /\ pending' = Cardinality(Out')
      /\ due' \in Nat /\ (due' > 0 => due' = 1 /\ owner = "LEFT" /\ Out' = {})
      /\ finished = {} /\ owner' = owner /\ status' = status
    BY ZenonT(30), <1>2, ReleaseStep, "OK" \in Statuses DEF Statuses
<1>4. PublicationType'
    BY SMTT(30), <1>2, <1>3 DEF PublicationInv, PublicationType, Publication!Abandoned, Publication!StageFails, Statuses, Out
<1>5. CallsInGraph'
    BY SMTT(30), <1>1, <1>2, <1>3 DEF PublicationInv, PublicationType, CallsInGraph, Publication!Abandoned
<1>6. QED
    BY ZenonT(30), <1>2, <1>3, <1>4, <1>5 DEF PublicationInv, EndsLast, FirstError, Told

\* The end of a claim, with the status it reports.
LEMMA ClaimEnds ==
    ASSUME PublicationInv, NEW c \in Out, NEW st \in Statuses,
           claim[c] = "HELD" \/ (claim[c] = "TAKEN" /\ call[c] = Publication!NoClaim),
           claim' = [claim EXCEPT ![c] = "DONE"], Publication!Release(st),
           failures' = failures \cup Publication!Errors(st), UNCHANGED <<call, graph, finished>>
    PROVE  PublicationInv'
<1>1. /\ Out' = Out \ {c} /\ pending' = Cardinality(Out')
      /\ due' \in Nat /\ (due' > 0 => due' = 1 /\ owner = "LEFT" /\ Out' = {})
      /\ finished = {} /\ owner' = owner
      /\ status' = (IF status = "OK" THEN st ELSE status) /\ status' \in Statuses
    BY ZenonT(30), ReleaseStep
<1>2. PublicationType'
    BY ZenonT(30), <1>1 DEF PublicationInv, PublicationType, Out
<1>3. CallsInGraph'
    BY SMTT(30), <1>1 DEF PublicationInv, PublicationType, CallsInGraph
<1>4. FirstError'
    BY ZenonT(30), <1>1, PublicationAssumption DEF PublicationInv, FirstError, Publication!Errors, Statuses
<1>5. QED
    BY ZenonT(30), <1>1, <1>2, <1>3, <1>4 DEF PublicationInv, EndsLast, Told

LEMMA SealKeeps ==
    ASSUME PublicationInv, Publication!Seal
    PROVE  PublicationInv'
<1>1. PICK st \in Statuses :
          /\ Publication!SealWith(st) /\ failures' = failures \cup Publication!Errors(st)
    BY ZenonT(30) DEF Publication!Seal, PublicationInv, PublicationType, Statuses, Publication!Runners
<1>2. Out' = Out /\ due = 0
    BY SMTT(30) DEF Publication!Seal, PublicationInv, PublicationType, EndsLast, Out
<1>3. PublicationType'
    BY ZenonT(30), <1>1 DEF PublicationInv, PublicationType, Publication!Seal, Publication!SealWith, Publication!Note
<1>4. CallsInGraph'
    BY ZenonT(30), <1>1 DEF PublicationInv, CallsInGraph, Publication!Seal, Publication!SealWith
<1>5. FirstError'
    BY ZenonT(30), <1>1, PublicationAssumption DEF PublicationInv, PublicationType, FirstError, Publication!SealWith,
                                       Publication!Note, Publication!Errors, Statuses
<1>6. QED
    BY ZenonT(30), <1>2, <1>3, <1>4, <1>5 DEF PublicationInv, EndsLast, Told, Publication!Seal

LEMMA OwnerLeaveKeeps ==
    ASSUME PublicationInv, Publication!OwnerLeave
    PROVE  PublicationInv'
<1>1. Out' = Out /\ due = 0
    BY SMTT(30) DEF Publication!OwnerLeave, PublicationInv, PublicationType, EndsLast, Out
<1>2. PublicationType'
    BY SMTT(30), <1>1 DEF PublicationInv, PublicationType, Publication!OwnerLeave
<1>3. CallsInGraph'
    BY ZenonT(30) DEF PublicationInv, CallsInGraph, Publication!OwnerLeave
<1>4. EndsLast'
    BY SMTT(30), <1>1, OutFinite DEF PublicationInv, EndsLast, Publication!OwnerLeave
<1>5. QED
    BY SMTT(30), <1>1, <1>2, <1>3, <1>4 DEF PublicationInv, FirstError, Told, Publication!OwnerLeave

LEMMA FinalizeKeeps ==
    ASSUME PublicationInv, Publication!Finalize
    PROVE  PublicationInv'
  BY ZenonT(30) DEF PublicationInv, PublicationType, Publication!Finalize, Out, CallsInGraph, EndsLast, FirstError, Told

LEMMA PublicationNext ==
    ASSUME PublicationInv, Publication!Next
    PROVE  PublicationInv'
<1>1. CASE \E r \in Publication!Runners, c \in Publication!Claims : Publication!Offer(r, c)
    BY ZenonT(30), <1>1, OfferKeeps
<1>2. ASSUME NEW c \in Publication!Claims, Publication!Move(c)
      PROVE  PublicationInv'
    BY ZenonT(30), <1>2, HandedOn DEF Publication!Move, Out
<1>3. ASSUME NEW c \in Publication!Claims, Publication!Adapter(c)
      PROVE  PublicationInv'
  <2>1. ASSUME NEW st \in Statuses, Publication!CompleteClaim(c, st)
        PROVE  PublicationInv'
    BY ZenonT(30), <2>1, ClaimEnds DEF Publication!CompleteClaim, Out
  <2>2. CASE Publication!TakeOutput(c)
    BY ZenonT(30), <2>2, HandedOn DEF Publication!TakeOutput, Out
  <2>3. ASSUME c \in Emitters, Publication!OutputRan(c)
        PROVE  PublicationInv'
    <3>1. PICK st \in Statuses : Publication!Release(st) /\ failures' = failures \cup Publication!Errors(st)
      BY ZenonT(30), <2>3 DEF Publication!OutputRan, PublicationInv, PublicationType, Statuses, Publication!Runners
    <3>2. QED
      BY ZenonT(30), <2>3, <3>1, ClaimEnds DEF Publication!OutputRan, Out
  <2>4. QED
    BY ZenonT(30), <1>3, <2>1, <2>2, <2>3 DEF Publication!Adapter, Statuses
<1>4. CASE \E r \in Publication!Runners : Publication!Submit(r)
    BY ZenonT(30), <1>4, SubmitReturns, AbandonedKeeps DEF Publication!Submit
<1>5. CASE Publication!Seal \/ Publication!OwnerLeave \/ Publication!Finalize
    BY ZenonT(30), <1>5, SealKeeps, OwnerLeaveKeeps, FinalizeKeeps
<1>6. QED
    BY ZenonT(30), <1>1, <1>2, <1>3, <1>4, <1>5 DEF Publication!Next

(***************************************************************************)
(* One thread finishes an asynchronous publication, when its owner has     *)
(* left, no claim of it is out and no submit call is under way, and the    *)
(* status it hands to the finish callback is a failure that happened, or   *)
(* OK if none did (flow_async_terminal.c).                                 *)
(***************************************************************************)
THEOREM EndsOnce == Spec => []PublicationEndsOnce
<1> DEFINE Inv == mechanism = "PUBLICATION" => PublicationInv
<1>1. Init => Inv
    BY ZenonT(30), PublicationInit DEF Init
<1>2. Inv /\ [Next]_vars => Inv'
  <2> SUFFICES ASSUME Inv, [Next]_vars, mechanism' = "PUBLICATION"
               PROVE  PublicationInv'
    BY ZenonT(30)
  <2>1. CASE UNCHANGED vars
    BY ZenonT(30), <2>1 DEF vars, publicationVars, PublicationInv, PublicationType, Out, CallsInGraph, EndsLast,
                FirstError, Told
  <2>2. CASE Next
    BY ZenonT(30), <2>2, PublicationNext DEF Next, IngressStep, PublicationStep, BoundaryStep, GraphStep,
                                 ReactiveStep, BufferStep
  <2>3. QED
    BY ZenonT(30), <2>1, <2>2
<1>3. Inv => PublicationEndsOnce
  <2> SUFFICES ASSUME PublicationInv
               PROVE  Publication!FreedOnceUnheld /\ Publication!ReportTruthful
    BY ZenonT(30) DEF PublicationEndsOnce
  <2>1. Publication!FreedOnceUnheld
    BY SMTT(30) DEF PublicationInv, PublicationType, EndsLast, CallsInGraph, Out, Publication!FreedOnceUnheld,
           Publication!Runners, Publication!Claims, Publication!Owner
  <2>2. Publication!ReportTruthful
    BY ZenonT(30) DEF PublicationInv, FirstError, Told, Publication!ReportTruthful
  <2>3. QED
    BY ZenonT(30), <2>1, <2>2
<1>4. QED
    BY <1>1, <1>2, <1>3, PTL DEF Spec
=============================================================================
