------------------------ MODULE GraphExecutionProofs ------------------------
(***************************************************************************)
(* The reactive runs of a flow.  FlowRunProofs proves its properties of    *)
(* the runs by themselves; here they are the runs inside GraphExecution,   *)
(* whose steps are the steps FlowRunProofs is about or leave the runs      *)
(* alone.                                                                  *)
(***************************************************************************)
EXTENDS GraphExecution, FiniteSetTheorems, TLAPS

RunProofs ==
    INSTANCE FlowRunProofs WITH Runs <- FlowRunSet, Capacity <- RunCapacity, HasAsync <- HasAsyncStage

LEMMA RunsInit ==
    ASSUME Reactive!Init
    PROVE  RunProofs!RunsInv
<1>1. RunProofs!RunsAssumption
    BY ZenonT(30), RunsAssumption DEF RunProofs!RunsAssumption, RunProofs!IsFiniteSet, IsFiniteSet
<1>2. RunProofs!Init
    BY ZenonT(30) DEF Reactive!Init, Reactive!Opened, Reactive!Fresh, Reactive!ManagedRuns,
                 Reactive!Cardinality, RunProofs!Init, RunProofs!Opened, RunProofs!Fresh,
                 RunProofs!ManagedRuns, RunProofs!Cardinality
<1>3. QED
    BY <1>1, <1>2, RunProofs!InitInv

\* A step of the runs is a step of the runs that FlowRunProofs is about.
LEMMA RunsSame == Reactive!Next => RunProofs!Next
<1>1. \A r \in FlowRunSet :
       /\ Reactive!OpenEnter(r) => RunProofs!OpenEnter(r)
       /\ Reactive!OpenDrains(r) => RunProofs!OpenDrains(r)
       /\ Reactive!OpenRegister(r) => RunProofs!OpenRegister(r)
       /\ Reactive!OpenRefused(r) => RunProofs!OpenRefused(r)
       /\ Reactive!OpenSubscribes(r) => RunProofs!OpenSubscribes(r)
       /\ Reactive!OpenSubscribeFails(r) => RunProofs!OpenSubscribeFails(r)
    BY ZenonT(30) DEF Reactive!OpenEnter, Reactive!PublishEnter, Reactive!PublishEnterStatus,
        Reactive!OpenDrains, Reactive!Entering, Reactive!GateAdmits,
        RunProofs!OpenDrains, RunProofs!Entering, RunProofs!GateAdmits,
        Reactive!CommandsUnchanged, Reactive!OpenRegister, Reactive!Cardinality,
        Reactive!Registered, Reactive!OpenRefused, Reactive!Fresh, Reactive!PublishLeave,
        Reactive!OpenSubscribes, Reactive!Finish, Reactive!Terminal,
        Reactive!OpenSubscribeFails, RunProofs!OpenEnter, RunProofs!PublishEnter,
        RunProofs!PublishEnterStatus, RunProofs!CommandsUnchanged, RunProofs!OpenRegister,
        RunProofs!Cardinality, RunProofs!Registered, RunProofs!OpenRefused, RunProofs!Fresh,
        RunProofs!PublishLeave, RunProofs!OpenSubscribes, RunProofs!Finish,
        RunProofs!Terminal, RunProofs!OpenSubscribeFails
<1>2. \A r \in FlowRunSet :
       /\ Reactive!ValueArrives(r) => RunProofs!ValueArrives(r)
       /\ Reactive!ValueEnters(r) => RunProofs!ValueEnters(r)
       /\ Reactive!ValueTracked(r) => RunProofs!ValueTracked(r)
       /\ Reactive!ValueRefused(r) => RunProofs!ValueRefused(r)
       /\ Reactive!ValueEnds(r) => RunProofs!ValueEnds(r)
       /\ Reactive!OnError(r) => RunProofs!OnError(r)
       /\ Reactive!OnDone(r) => RunProofs!OnDone(r)
    BY ZenonT(30) DEF Reactive!ValueArrives, Reactive!IsTerminal, Reactive!Terminal,
        Reactive!CommandsUnchanged, Reactive!ValueEnters, Reactive!ManagedRuns,
        Reactive!PublishEnter, Reactive!ValueTracked, RunProofs!PublishEnter, RunProofs!ValueTracked,
        Reactive!PublishEnterStatus, Reactive!Tracked, Reactive!ValueRefused,
        Reactive!ValueEnds, Reactive!gateVars, Reactive!PublishLeave, Reactive!OnError,
        Reactive!Finish, Reactive!OnDone, RunProofs!ValueArrives, RunProofs!IsTerminal,
        RunProofs!Terminal, RunProofs!CommandsUnchanged, RunProofs!ValueEnters,
        RunProofs!ManagedRuns, RunProofs!PublishEnterStatus, RunProofs!Tracked,
        RunProofs!ValueRefused, RunProofs!ValueEnds, RunProofs!gateVars,
        RunProofs!PublishLeave, RunProofs!OnError, RunProofs!Finish, RunProofs!OnDone
<1>3. \A r \in FlowRunSet :
       /\ Reactive!AsyncValueEnds(r) => RunProofs!AsyncValueEnds(r)
       /\ Reactive!AsyncFailureEnds(r) => RunProofs!AsyncFailureEnds(r)
       /\ Reactive!PublicationLeaves(r) => RunProofs!PublicationLeaves(r)
    BY ZenonT(30) DEF Reactive!AsyncValueEnds, Reactive!Finish, Reactive!Terminal,
        Reactive!IsTerminal, Reactive!CommandsUnchanged, Reactive!AsyncFailureEnds,
        Reactive!PublicationLeaves, Reactive!PublishLeave, RunProofs!AsyncValueEnds,
        RunProofs!Finish, RunProofs!Terminal, RunProofs!IsTerminal,
        RunProofs!CommandsUnchanged, RunProofs!AsyncFailureEnds, RunProofs!PublicationLeaves,
        RunProofs!PublishLeave
<1>4. \A r \in FlowRunSet :
       /\ Reactive!Request(r) => RunProofs!Request(r)
       /\ Reactive!Deadline(r) => RunProofs!Deadline(r)
       /\ Reactive!Close(r) => RunProofs!Close(r)
       /\ Reactive!FinishRemoves(r) => RunProofs!FinishRemoves(r)
       /\ Reactive!FinishReleases(r) => RunProofs!FinishReleases(r)
       /\ Reactive!CancelBegin(r) => RunProofs!CancelBegin(r)
       /\ Reactive!CancelEnd(r) => RunProofs!CancelEnd(r)
    BY ZenonT(30) DEF Reactive!Request, Reactive!ManagedRuns, Reactive!IsTerminal,
        Reactive!Terminal, Reactive!CommandsUnchanged, Reactive!Deadline, Reactive!Finish,
        Reactive!Close, Reactive!FinishRemoves, Reactive!FinishReleases,
        Reactive!PublishLeave, Reactive!CancelBegin, Reactive!CancelEnd, RunProofs!Request,
        RunProofs!ManagedRuns, RunProofs!IsTerminal, RunProofs!Terminal,
        RunProofs!CommandsUnchanged, RunProofs!Deadline, RunProofs!Finish, RunProofs!Close,
        RunProofs!FinishRemoves, RunProofs!FinishReleases, RunProofs!PublishLeave,
        RunProofs!CancelBegin, RunProofs!CancelEnd
<1>5. \A r \in FlowRunSet :
       /\ Reactive!StopPicks(r) => RunProofs!StopPicks(r)
       /\ Reactive!StopCancelsManaged(r) => RunProofs!StopCancelsManaged(r)
    BY ZenonT(30) DEF Reactive!StopPicks, Reactive!Cancellable, Reactive!Registered,
        Reactive!StopCancelsManaged, Reactive!Finish, Reactive!Terminal, Reactive!ManagedRuns,
        Reactive!IsTerminal, RunProofs!StopPicks, RunProofs!Cancellable, RunProofs!Registered,
        RunProofs!StopCancelsManaged, RunProofs!Finish, RunProofs!Terminal,
        RunProofs!ManagedRuns, RunProofs!IsTerminal
<1>6. /\ Reactive!StopBegin => RunProofs!StopBegin
      /\ Reactive!StopClosesRun => RunProofs!StopClosesRun
      /\ Reactive!StopCancelled => RunProofs!StopCancelled
      /\ Reactive!StopWaits => RunProofs!StopWaits
      /\ Reactive!StopEnds => RunProofs!StopEnds
    BY ZenonT(30) DEF Reactive!StopBegin, Reactive!RunsUnchanged, Reactive!StopClosesRun,
        Reactive!Finish, Reactive!Terminal, Reactive!StopCancelled, Reactive!Cancellable,
        Reactive!Registered, Reactive!StopWaits, Reactive!ManagedRuns, Reactive!StopEnds,
        RunProofs!StopBegin, RunProofs!RunsUnchanged, RunProofs!StopClosesRun,
        RunProofs!Finish, RunProofs!Terminal, RunProofs!StopCancelled, RunProofs!Cancellable,
        RunProofs!Registered, RunProofs!StopWaits, RunProofs!ManagedRuns, RunProofs!StopEnds
<1>7. /\ Reactive!Drain => RunProofs!Drain
      /\ Reactive!DrainReturns => RunProofs!DrainReturns
      /\ Reactive!Resume => RunProofs!Resume
      /\ Reactive!PrepareRetire => RunProofs!PrepareRetire
      /\ Reactive!RetireReturns => RunProofs!RetireReturns
    BY ZenonT(30) DEF Reactive!Drain, Reactive!CloseGate, Reactive!CommandStatus,
        Reactive!DrainReturns, Reactive!gateVars, Reactive!DrainAnswers, Reactive!Resume,
        Reactive!OpenGate, Reactive!PrepareRetire, Reactive!RetireReturns, Reactive!Lifetimes,
        Reactive!ManagedRuns, Reactive!Cardinality, RunProofs!Drain, RunProofs!CloseGate,
        RunProofs!CommandStatus, RunProofs!DrainReturns, RunProofs!gateVars,
        RunProofs!DrainAnswers, RunProofs!Resume, RunProofs!OpenGate, RunProofs!PrepareRetire,
        RunProofs!RetireReturns, RunProofs!Lifetimes, RunProofs!ManagedRuns,
        RunProofs!Cardinality
<1>8. QED
    BY ZenonT(30), <1>1, <1>2, <1>3, <1>4, <1>5, <1>6, <1>7
       DEF Reactive!Next, Reactive!RunStep, Reactive!StopStep,
           RunProofs!Next, RunProofs!RunStep, RunProofs!StopStep

LEMMA RunsNext ==
    ASSUME mechanism = "RUNS" => RunProofs!RunsInv, [Next]_vars,
           SubscribeFailsWhen \cap {"DONE", "PICKED"} = {}
    PROVE  mechanism' = "RUNS" => RunProofs!RunsInv'
<1>1. CASE UNCHANGED vars
  <2>1. mechanism' = mechanism /\ UNCHANGED RunProofs!vars
    BY <1>1 DEF vars, gateVars, runVars, RunProofs!vars, RunProofs!gateVars
  <2>2. QED
    BY <2>1, RunProofs!NextInv
<1>2. CASE ReactiveStep
  <2>1. RunProofs!Next
    BY <1>2, RunsSame DEF ReactiveStep
  <2>2. QED
    BY <1>2, <2>1, RunProofs!NextInv DEF ReactiveStep
<1>3. CASE Next /\ ~ReactiveStep
    BY <1>3 DEF Next, IngressStep, PublicationStep, BoundaryStep, GraphStep, BufferStep
<1>4. QED
    BY <1>1, <1>2, <1>3

LEMMA RunsInductive ==
    ASSUME SubscribeFailsWhen \cap {"DONE", "PICKED"} = {}
    PROVE  Spec => [](mechanism = "RUNS" => RunProofs!RunsInv)
<1>1. Init => (mechanism = "RUNS" => RunProofs!RunsInv)
    BY RunsInit DEF Init
<1>2. (mechanism = "RUNS" => RunProofs!RunsInv) /\ [Next]_vars => (mechanism = "RUNS" => RunProofs!RunsInv)'
    BY RunsNext
<1>3. QED
    BY <1>1, <1>2, PTL DEF Spec

(* active_publishes is exactly what is under way: runs being opened, run lifetimes,
   managed values in the graph and asynchronous publications, however many runs and
   values there are, if CFlow refuses no subscription of a run that has ended or that
   stop is ending. *)
THEOREM ActiveCount ==
    ASSUME SubscribeFailsWhen \cap {"DONE", "PICKED"} = {}
    PROVE  Spec => []ActiveExact
<1>1. ASSUME RunProofs!RunsInv
      PROVE  Reactive!ActiveExact
  <2>1. RunProofs!ActiveExact
    BY <1>1, RunProofs!InvActive
  <2>2. QED
    BY ZenonT(30), <2>1 DEF Reactive!ActiveExact, Reactive!Holding, Reactive!Entering, Reactive!InGraph, Reactive!Unsettled,
       Reactive!ManagedRuns, Reactive!Cardinality, RunProofs!ActiveExact, RunProofs!Holding, RunProofs!Entering,
       RunProofs!InGraph, RunProofs!Unsettled, RunProofs!ManagedRuns, RunProofs!Cardinality
<1>2. (mechanism = "RUNS" => RunProofs!RunsInv) => ActiveExact
    BY <1>1 DEF ActiveExact
<1>3. QED
    BY <1>2, RunsInductive, PTL

(* turbo_flow_stop releases pools and executors only when no value is in the graph and
   none is settling, not even one whose run its deadline has ended. *)
THEOREM StopIsLast ==
    ASSUME SubscribeFailsWhen \cap {"DONE", "PICKED"} = {}
    PROVE  Spec => []StopWaitsForValues
<1>1. ASSUME RunProofs!RunsInv
      PROVE  Reactive!StopWaitsForValues
    BY <1>1, RunProofs!InvStop DEF Reactive!StopWaitsForValues, RunProofs!StopWaitsForValues
<1>2. (mechanism = "RUNS" => RunProofs!RunsInv) => StopWaitsForValues
    BY <1>1 DEF StopWaitsForValues
<1>3. QED
    BY <1>2, RunsInductive, PTL

(* When flow_run_prepare_buffer_retire reports quiet, no managed source has a value in
   the graph or settling, until the flow is resumed. *)
THEOREM RetireIsQuiet ==
    ASSUME SubscribeFailsWhen \cap {"DONE", "PICKED"} = {}
    PROVE  Spec => []RetireQuiet
<1>1. ASSUME RunProofs!RunsInv
      PROVE  Reactive!RetireQuiet
    BY <1>1, RunProofs!InvRetire DEF Reactive!RetireQuiet, Reactive!ManagedRuns,
       RunProofs!RetireQuiet, RunProofs!ManagedRuns
<1>2. (mechanism = "RUNS" => RunProofs!RunsInv) => RetireQuiet
    BY <1>1 DEF RetireQuiet
<1>3. QED
    BY <1>2, RunsInductive, PTL
=============================================================================
