-------------------------- MODULE AsyncPublication --------------------------
(***************************************************************************)
(* One asynchronous publication (turbo_flow/src/flow_async_terminal.c):    *)
(* the message of publish_async or of a run's value whose stages are       *)
(* completed later, by adapters, on any thread.                            *)
(*                                                                         *)
(* The owner runs the graph, seals the publication with what the graph     *)
(* returned and leaves.  Each asynchronous stage on the way offers its     *)
(* adapter a claim; the adapter moves the claim to itself and completes it *)
(* whenever it likes, even before submit has returned.  An emitting stage  *)
(* is completed with an output, which runs the graph below the stage in    *)
(* the adapter's thread and may offer more claims.  Whoever finds the      *)
(* publication sealed, left and without pending claims finishes and frees  *)
(* it.                                                                     *)
(***************************************************************************)
EXTENDS Integers, FiniteSets

CONSTANTS
    Terminals,     \* claims of asynchronous terminal stages
    Emitters,      \* claims of asynchronous emitting stages
    Failures       \* statuses other than OK

Claims == Terminals \cup Emitters

Owner == "owner"

(* The threads that run the graph: the owner, and who completes an emitter. *)
Runners == {Owner} \cup Emitters

NoClaim == "none"

VARIABLES
    pending,       \* pending claims of the publication
    status,        \* its first error, or "OK"
    owner,         \* "RUNNING", "SEALED" or "LEFT": sealed and owner_active
    claim,         \* claim -> who holds it
    call,          \* runner -> the claim its submit call is about
    graph,         \* runner -> "OK" or the failure its graph run returns
    due,           \* history: how many threads decided to finalize
    finished,      \* history: statuses the finish callback was given
    failures       \* history: failures of claims and of the graph

vars == <<pending, status, owner, claim, call, graph, due, finished, failures>>

Init ==
    /\ pending = 0 /\ status = "OK" /\ owner = "RUNNING"
    /\ claim = [c \in Claims |-> "NONE"]
    /\ call = [r \in Runners |-> NoClaim]
    /\ graph = [r \in Runners |-> "OK"]
    /\ due = 0 /\ finished = {} /\ failures = {}

Errors(st) == IF st = "OK" THEN {} ELSE {st}

(* The first error stands. *)
Note(st) == status' = IF status = "OK" THEN st ELSE status

(* Mutant: the publication is finished while its owner is still running. *)
ReleaseOwned(st) ==
    /\ Note(st)
    /\ pending' = IF pending > 0 THEN pending - 1 ELSE 0
    /\ due' = due + IF owner \in {"SEALED", "LEFT"} /\ pending' = 0 THEN 1 ELSE 0
    /\ UNCHANGED owner

(* flow_async_publication_release *)
Release(st) ==
    /\ Note(st)
    /\ pending' = IF pending > 0 THEN pending - 1 ELSE 0
    /\ due' = due + IF owner = "LEFT" /\ pending' = 0 THEN 1 ELSE 0
    /\ UNCHANGED owner

(***************************************************************************)
(* Offering a claim: flow_async_terminal_submit_stage and                  *)
(* flow_async_emit_submit_stage.                                           *)
(***************************************************************************)
InGraph(r) ==
    /\ IF r = Owner THEN owner = "RUNNING" ELSE claim[r] = "TAKEN"
    /\ call[r] = NoClaim /\ graph[r] = "OK"

Offer(r, c) ==
    /\ InGraph(r) /\ claim[c] = "NONE"
    /\ pending' = pending + 1
    /\ claim' = [claim EXCEPT ![c] = "OFFERED"]
    /\ call' = [call EXCEPT ![r] = c]
    /\ UNCHANGED <<status, owner, graph, due, finished, failures>>

(* turbo_flow_async_terminal_claim_move, turbo_flow_async_emit_claim_move *)
Move(c) ==
    /\ claim[c] = "OFFERED"
    /\ claim' = [claim EXCEPT ![c] = "HELD"]
    /\ UNCHANGED <<pending, status, owner, call, graph, due, finished, failures>>

(* submit returns OK and the adapter has the claim. *)
Accepted(r) ==
    /\ call[r] # NoClaim /\ claim[call[r]] # "OFFERED"
    /\ call' = [call EXCEPT ![r] = NoClaim]
    /\ UNCHANGED <<pending, status, owner, claim, graph, due, finished, failures>>

(* A failing stage ends the graph run, unless an edge routes its error. *)
StageFails(r) ==
    \E f \in Failures \cup {"OK"} : graph' = [graph EXCEPT ![r] = f]

(* submit rejects and leaves the claim, or returns OK and leaves it (EPROTO):
   the claim is abandoned. *)
Abandoned(r) ==
    /\ call[r] # NoClaim /\ claim[call[r]] = "OFFERED"
    /\ claim' = [claim EXCEPT ![call[r]] = "DONE"]
    /\ call' = [call EXCEPT ![r] = NoClaim]
    /\ StageFails(r)
    /\ Release("OK")
    /\ UNCHANGED <<finished, failures>>

(* submit rejects although the adapter has moved the claim (EPROTO): the claim
   stays with the adapter and keeps the publication. *)
MovedAndRejected(r) ==
    /\ call[r] # NoClaim /\ claim[call[r]] # "OFFERED"
    /\ call' = [call EXCEPT ![r] = NoClaim]
    /\ StageFails(r)
    /\ UNCHANGED <<pending, status, owner, claim, due, finished, failures>>

(***************************************************************************)
(* Completing a claim; on a claim that is empty it is EALREADY.            *)
(***************************************************************************)
(* turbo_flow_async_terminal_complete, and turbo_flow_async_emit_complete without
   an output: applying the settlement may turn the status into another one. *)
CompleteClaim(c, st) ==
    /\ claim[c] = "HELD"
    /\ claim' = [claim EXCEPT ![c] = "DONE"]
    /\ Release(st)
    /\ failures' = failures \cup Errors(st)
    /\ UNCHANGED <<call, graph, finished>>

(* turbo_flow_async_emit_complete with an output: the graph below the stage runs. *)
TakeOutput(c) ==
    /\ claim[c] = "HELD"
    /\ claim' = [claim EXCEPT ![c] = "TAKEN"]
    /\ UNCHANGED <<pending, status, owner, call, graph, due, finished, failures>>

(* The run is over; a stage that is not asynchronous may have failed it. *)
OutputRan(c) ==
    /\ claim[c] = "TAKEN" /\ call[c] = NoClaim
    /\ claim' = [claim EXCEPT ![c] = "DONE"]
    /\ \E st \in IF graph[c] = "OK" THEN Failures \cup {"OK"} ELSE {graph[c]} :
           Release(st) /\ failures' = failures \cup Errors(st)
    /\ UNCHANGED <<call, graph, finished>>

(***************************************************************************)
(* The owner and the end.                                                  *)
(***************************************************************************)
(* Mutant: what the graph returned is lost. *)
SealForgets(st) ==
    /\ owner' = "SEALED"
    /\ UNCHANGED status

(* flow_async_publication_seal; the owner has not left yet *)
SealWith(st) ==
    /\ owner' = "SEALED"
    /\ Note(st)

Seal ==
    /\ owner = "RUNNING" /\ call[Owner] = NoClaim
    /\ \E st \in IF graph[Owner] = "OK" THEN Failures \cup {"OK"} ELSE {graph[Owner]} :
           SealWith(st) /\ failures' = failures \cup Errors(st)
    /\ UNCHANGED <<pending, claim, call, graph, due, finished>>

(* flow_async_publication_owner_leave *)
OwnerLeave ==
    /\ owner = "SEALED"
    /\ owner' = "LEFT"
    /\ due' = due + IF pending = 0 THEN 1 ELSE 0
    /\ UNCHANGED <<pending, status, claim, call, graph, finished, failures>>

(* flow_async_publication_finalize *)
Finalize ==
    /\ due > 0 /\ finished = {}
    /\ finished' = {status}
    /\ UNCHANGED <<pending, status, owner, claim, call, graph, due, failures>>

Adapter(c) ==
    \/ \E st \in Failures \cup {"OK"} : CompleteClaim(c, st)
    \/ c \in Emitters /\ (TakeOutput(c) \/ OutputRan(c))

Submit(r) == Accepted(r) \/ Abandoned(r) \/ MovedAndRejected(r)

Next ==
    \/ \E r \in Runners, c \in Claims : Offer(r, c)
    \/ \E c \in Claims : Move(c) \/ Adapter(c)
    \/ \E r \in Runners : Submit(r)
    \/ Seal \/ OwnerLeave \/ Finalize

Spec == Init /\ [][Next]_vars

(* One thread at most decides to finish and free the publication, and then nobody
   holds it any more: its owner has left, no claim of it is offered, held or
   running, and no submit call is under way. *)
FreedOnceUnheld ==
    /\ due <= 1
    /\ due > 0 =>
        /\ owner = "LEFT"
        /\ \A c \in Claims : claim[c] \in {"NONE", "DONE"}
        /\ \A r \in Runners : call[r] = NoClaim

(* What the finish callback is told is OK exactly when nothing failed, and one of the
   failures otherwise. *)
ReportTruthful ==
    finished # {} => IF failures = {} THEN finished = {"OK"} ELSE finished \subseteq failures
=============================================================================
