------------------------- MODULE FlowLifecycleProofs -------------------------
(***************************************************************************)
(* The safety of the lifecycle of a flow, for any number of publishers,    *)
(* operators and adapters: stop, resize, reset and the rollback of a start *)
(* never pull the pools away from a publisher, the gate stands where it    *)
(* was commanded to stand, and no adapter that is on is forgotten.         *)
(*                                                                         *)
(* The argument is mutual exclusion without a lock: the state of the flow  *)
(* and the position of its gate say who may take the flow down, so at most *)
(* one thread does (OneTears), and what a thread has reached on its way    *)
(* down (ThreadInv) is not undone by the others.                           *)
(***************************************************************************)
EXTENDS FlowLifecycle, FiniteSetTheorems, TLAPS

Down == {"nonsource", "close", "wait", "source", "release", "commit"}
HostPlaces == {"starting", "resizing", "rebuild", "rebuild_old"}
Reasons == {"STOP", "RETRY", "ROLLBACK", "GIVEUP", "CLEAR"}

Frames ==
    [at : {"idle", "draining"} \cup Down \cup HostPlaces,
     why : {"NONE", "TIMED", "FOREVER"} \cup Reasons,
     status : {"OK", "EIO"} \cup Admissions,
     arg : Parallelism \cup {0}]

TypeInv ==
    /\ state \in FlowStates /\ admission \in Admissions
    /\ configured \in Parallelism
    /\ reactive \in {"UP", "DOWN"}
    /\ adapter \in [Adapters -> {"ON", "OFF"}]
    /\ managedRun \in {"NONE", "OPEN", "ENDED"}
    /\ retryable \in {"YES", "NO"}
    /\ IsFiniteSet(inside)
    /\ pc \in [Threads -> Frames]

\* active_publishes counts the publishers in the graph and the managed source's run.
CountInv == active = Cardinality(inside) + IF managedRun = "OPEN" THEN 1 ELSE 0

\* Nobody is in the graph and no run is open.
Quiet == inside = {} /\ managedRun # "OPEN"

\* On the way down; the rollback of a start releases its resources after its commit.
Tears(t) == pc[t].at \in Down /\ ~(pc[t].why = "ROLLBACK" /\ pc[t].at = "release")

OneTears == \A t, u \in Threads : Tears(t) /\ Tears(u) => t = u

AllOff(A) == \A a \in A : adapter[a] = "OFF"

\* What the state and the gate are while t takes the flow down.
TearInv(t) ==
    /\ pc[t].why = "STOP" => state = "STARTED" /\ admission = "STOPPING"
    /\ pc[t].why = "RETRY" => state = "FAILED" /\ retryable = "YES" /\ admission = "STOPPING"
    /\ pc[t].why = "ROLLBACK" => state \in {"COMPILED", "STOPPED"}
    /\ pc[t].why = "GIVEUP" => state = "STARTED" /\ admission = "RESIZING" /\ Quiet
    /\ pc[t].why = "CLEAR" => state # "STARTED" /\ retryable = "NO" /\ admission = "STOPPING"
    /\ pc[t].at \in {"source", "release", "commit"} => Quiet
    /\ pc[t].at \notin {"nonsource", "close"} => managedRun # "OPEN"
    /\ pc[t].status = "OK" /\ pc[t].at # "nonsource" => AllOff(Adapters \ Sources)
    /\ pc[t].status = "OK" /\ pc[t].at \in {"release", "commit"} => AllOff(Adapters)

ThreadInv(t) ==
    /\ pc[t].at \in Down => pc[t].why \in Reasons
    /\ pc[t].at \in HostPlaces => t = Host
    /\ pc[t].at \in Down /\ pc[t].why \in {"ROLLBACK", "GIVEUP", "CLEAR"} => t = Host
    /\ pc[t].at = "starting" => /\ state \in {"COMPILED", "STOPPED"}
                                /\ reactive = "UP" /\ built = configured
                                /\ managedRun # "OPEN"
    /\ pc[t].at \in {"resizing", "rebuild", "rebuild_old"} =>
           /\ state = "STARTED" /\ admission = "RESIZING" /\ reactive = "UP"
           /\ \/ pc[t].status = "OPEN" /\ intent = "OPEN"
              \/ pc[t].status = "PAUSED" /\ intent \in {"PAUSED", "GAVE_UP"}
           /\ pc[t].arg \in Parallelism
    /\ pc[t].at \in {"rebuild", "rebuild_old"} => Quiet
    /\ pc[t].at = "release" /\ pc[t].why = "ROLLBACK" => state # "STARTED"
    /\ Tears(t) => TearInv(t)

\* The host undoes a start; adapters it has started may be on.
RollsBack == pc[Host].why = "ROLLBACK" /\ pc[Host].at \in Down \ {"release"}

\* The pools are down, on purpose and with nobody in them.
PoolsDown ==
    \/ pc[Host].at \in {"rebuild", "rebuild_old"}
    \/ \E t \in Threads : Tears(t) /\ (pc[t].why = "GIVEUP" \/ (pc[t].why = "STOP" /\ pc[t].at = "commit"))

FlowInv ==
    /\ inside # {} => state = "STARTED"
    /\ state = "STARTED" => admission # "CLOSED"
    /\ retryable = "YES" => state = "FAILED"
    /\ state = "STARTED" => (built = configured /\ reactive = "UP") \/ PoolsDown
    /\ GateAsCommanded
    /\ AllOff(Adapters) \/ state = "STARTED" \/ (state = "FAILED" /\ retryable = "YES") \/ RollsBack
    /\ managedRun = "OPEN" => state = "STARTED" \/ (RollsBack /\ pc[Host].at \in {"nonsource", "close"})

IInv ==
    /\ TypeInv /\ CountInv /\ OneTears /\ FlowInv
    /\ \A t \in Threads : ThreadInv(t)

\* What the count of publications says about who is under way.
LEMMA Counted ==
    ASSUME TypeInv, CountInv
    PROVE  /\ Cardinality(inside) \in Nat /\ active \in Nat
           /\ active = 0 => Quiet
           /\ inside # {} => active > 0
           /\ \A p \in inside : /\ Cardinality(inside \ {p}) = Cardinality(inside) - 1
                                /\ IsFiniteSet(inside \ {p})
           /\ \A p : p \notin inside => /\ Cardinality(inside \cup {p}) = Cardinality(inside) + 1
                                        /\ IsFiniteSet(inside \cup {p})
<1>1. IsFiniteSet(inside) /\ Cardinality(inside) \in Nat
    BY FS_CardinalityType DEF TypeInv
<1>2. (Cardinality(inside) = 0) <=> inside = {}
    BY <1>1, FS_EmptySet
<1>3. \A p \in inside : /\ Cardinality(inside \ {p}) = Cardinality(inside) - 1
                       /\ IsFiniteSet(inside \ {p})
    BY <1>1, FS_RemoveElement
<1>4. ASSUME NEW p, p \notin inside
      PROVE  /\ Cardinality(inside \cup {p}) = Cardinality(inside) + 1
             /\ IsFiniteSet(inside \cup {p})
    BY <1>1, <1>4, FS_AddElement
<1>5. QED
    BY <1>1, <1>2, <1>3, <1>4 DEF CountInv, Quiet

\* While the gate is not closing, or the flow is down, nobody but the host is under way
\* with more than a drain.
LEMMA OthersAside ==
    ASSUME IInv, admission # "STOPPING" \/ state \in {"COMPILED", "STOPPED"},
           NEW u \in Threads, u # Host
    PROVE  pc[u].at \in {"idle", "draining"}
<1>1. pc[u].at \in {"idle", "draining"} \cup Down \cup HostPlaces
    BY DEF IInv, TypeInv, Frames
<1>2. ThreadInv(u)
    BY DEF IInv
<1>3. QED
    BY <1>1, <1>2 DEF ThreadInv, TearInv, Tears, Reasons

\* A phase of adapter stops keeps the types.
LEMMA StopPhaseTypes ==
    ASSUME TypeInv, NEW t \in Threads, NEW A, StopPhase(t, A)
    PROVE  adapter' \in [Adapters -> {"ON", "OFF"}] /\ pc' \in [Threads -> Frames]
<1>1. PICK place \in Down, st \in {"OK", "EIO"} \cup Admissions :
          pc' = [pc EXCEPT ![t].at = place, ![t].status = st]
    BY ZenonT(30) DEF TypeInv, Frames, StopPhase, Down
<1>2. pc' \in [Threads -> Frames]
    BY ZenonT(30), <1>1 DEF TypeInv, Frames
<1>3. adapter' \in [Adapters -> {"ON", "OFF"}]
    BY DEF TypeInv, StopPhase
<1>4. QED
    BY SMTT(30), <1>2, <1>3

\* A command that begins keeps the types.
LEMMA EnterTypes ==
    ASSUME TypeInv, NEW t \in Threads, NEW where \in {"draining", "nonsource", "starting"},
           NEW why \in {"NONE", "TIMED", "FOREVER"} \cup Reasons, Enter(t, where, why)
    PROVE  pc' \in [Threads -> Frames]
<1>1. [Idle EXCEPT !.at = where, !.why = why] \in Frames
    BY ZenonT(30) DEF Idle, Frames, Down, HostPlaces
<1>2. QED
    BY <1>1 DEF TypeInv, Enter

(***************************************************************************)
(* Publishers and the managed run.                                         *)
(***************************************************************************)
LEMMA PublishKeeps ==
    ASSUME IInv, NEW p \in Publishers, Publish(p)
    PROVE  IInv'
<1>1. TypeInv' /\ CountInv' /\ OneTears'
    BY Counted DEF IInv, Publish, TypeInv, CountInv, OneTears, PublishEnter, lifeVars, Frames,
       Tears
<1>2. FlowInv'
    BY DEF IInv, Publish, FlowInv, PublishEnter, lifeVars, PoolsDown, GateAsCommanded, Tears,
       PublishEnterStatus
<1>3. \A u \in Threads : ThreadInv(u)'
    BY ZenonT(30) DEF IInv, Publish, ThreadInv, PublishEnter, Reasons, Tears, TearInv, PublishEnterStatus
<1>4. QED
    BY <1>1, <1>2, <1>3 DEF IInv

LEMMA LeaveKeeps ==
    ASSUME IInv, NEW p \in Publishers, Leave(p)
    PROVE  IInv'
  BY Counted DEF IInv, Leave, TypeInv, CountInv, OneTears, ThreadInv, FlowInv, PublishLeave,
     lifeVars, FlowStates, Frames, Tears, Down, HostPlaces, Quiet, TearInv, PoolsDown,
     GateAsCommanded, AllOff

LEMMA ManagedRunEndsKeeps ==
    ASSUME IInv, ManagedRunEnds
    PROVE  IInv'
  BY Counted DEF IInv, ManagedRunEnds, TypeInv, CountInv, OneTears, ThreadInv, FlowInv,
     PublishLeave, Tears, Quiet, TearInv, PoolsDown, GateAsCommanded, AllOff, RollsBack

(***************************************************************************)
(* Pause, resume and drain.                                                *)
(***************************************************************************)
LEMMA PauseKeeps ==
    ASSUME IInv, NEW t \in Threads, Pause(t)
    PROVE  IInv'
  BY DEF IInv, Pause, TypeInv, CountInv, OneTears, ThreadInv, FlowInv, CloseGate, lifeVars,
     Admissions, Tears, Quiet, TearInv, PoolsDown, GateAsCommanded, AllOff, CommandStatus

LEMMA ResumeKeeps ==
    ASSUME IInv, NEW t \in Threads, Resume(t)
    PROVE  IInv'
  BY DEF IInv, Resume, TypeInv, CountInv, OneTears, ThreadInv, FlowInv, OpenGate, lifeVars,
     Admissions, Tears, Quiet, TearInv, PoolsDown, GateAsCommanded, AllOff, CommandStatus

LEMMA DrainKeeps ==
    ASSUME IInv, NEW t \in Threads, NEW timed \in DrainTimed, Drain(t, timed)
    PROVE  IInv'
<1>1. TypeInv'
    BY EnterTypes DEF IInv, TypeInv, Drain, CloseGate, lifeVars, Admissions
<1>2. CountInv' /\ OneTears'
    BY DEF IInv, Drain, CountInv, OneTears, CloseGate, Enter, lifeVars, Tears, Down
<1>3. FlowInv'
    BY DEF IInv, Drain, FlowInv, ThreadInv, CloseGate, Enter, lifeVars, PoolsDown,
       GateAsCommanded, TearInv, CommandStatus
<1>4. \A u \in Threads : ThreadInv(u)'
    BY SMTT(30) DEF IInv, Drain, ThreadInv, CloseGate, Enter, Down, Reasons, HostPlaces, Tears, TearInv,
       CommandStatus
<1>5. QED
    BY <1>1, <1>2, <1>3, <1>4 DEF IInv

LEMMA DrainReturnsKeeps ==
    ASSUME IInv, NEW t \in Threads, DrainReturns(t)
    PROVE  IInv'
  BY DEF IInv, DrainReturns, TypeInv, CountInv, OneTears, ThreadInv, FlowInv, At, Return,
     gateVars, lifeVars, Frames, Tears, Down, HostPlaces, Quiet, TearInv, PoolsDown,
     GateAsCommanded, AllOff, RollsBack, Idle

(***************************************************************************)
(* Taking the flow down: a thread that tears is alone (OneTears).          *)
(***************************************************************************)
LEMMA StopKeeps ==
    ASSUME IInv, NEW t \in Threads, Stop(t)
    PROVE  IInv'
<1>1. TypeInv'
    BY EnterTypes DEF IInv, TypeInv, Stop, lifeVars, Admissions, Reasons
<1>2. CountInv' /\ OneTears'
    BY DEF IInv, Stop, CountInv, OneTears, ThreadInv, Enter, lifeVars, Tears, Reasons, TearInv
<1>3. FlowInv'
    BY DEF IInv, Stop, FlowInv, ThreadInv, At, Enter, lifeVars, PoolsDown, GateAsCommanded,
       RollsBack, TearInv
<1>4. \A u \in Threads : ThreadInv(u)'
    BY DEF IInv, Stop, ThreadInv, Enter, lifeVars, Reasons, HostPlaces, Tears, TearInv
<1>5. QED
    BY <1>1, <1>2, <1>3, <1>4 DEF IInv

LEMMA StopNonSourcesKeeps ==
    ASSUME IInv, NEW t \in Threads, StopNonSources(t)
    PROVE  IInv'
<1>1. TypeInv' /\ CountInv' /\ OneTears'
    BY DEF IInv, StopNonSources, TypeInv, CountInv, OneTears, At, StopPhase, gateVars, Threads,
       Frames, Tears, Down
<1>2. FlowInv'
    BY DEF IInv, StopNonSources, FlowInv, TypeInv, At, StopPhase, gateVars, PoolsDown,
       GateAsCommanded, AllOff, RollsBack, Down, Tears, Threads
<1>3. \A u \in Threads : ThreadInv(u)'
    BY DEF IInv, StopNonSources, ThreadInv, TypeInv, At, StopPhase, gateVars, Down, HostPlaces,
       Quiet, Tears, TearInv, AllOff
<1>4. QED
    BY <1>1, <1>2, <1>3 DEF IInv

LEMMA CloseManagedRunKeeps ==
    ASSUME IInv, NEW t \in Threads, CloseManagedRun(t)
    PROVE  IInv'
  BY Counted DEF IInv, CloseManagedRun, TypeInv, CountInv, OneTears, ThreadInv, FlowInv, At, Goto,
     PublishLeave, gateVars, Frames, Tears, Down, HostPlaces, Quiet, TearInv, PoolsDown,
     GateAsCommanded, AllOff, RollsBack

LEMMA WaitForPublishesKeeps ==
    ASSUME IInv, NEW t \in Threads, WaitForPublishes(t)
    PROVE  IInv'
<1>1. TypeInv' /\ CountInv' /\ OneTears'
    BY DEF IInv, WaitForPublishes, TypeInv, CountInv, OneTears, At, Goto, gateVars, lifeVars,
       Frames, Tears, Down
<1>2. FlowInv'
    BY DEF IInv, WaitForPublishes, FlowInv, At, Goto, gateVars, lifeVars, PoolsDown,
       GateAsCommanded, AllOff, RollsBack, Down, Tears
<1>3. \A u \in Threads : ThreadInv(u)'
    BY Counted DEF IInv, WaitForPublishes, ThreadInv, At, Goto, gateVars, lifeVars, Down,
       HostPlaces, Quiet, Tears, TearInv, AllOff
<1>4. QED
    BY <1>1, <1>2, <1>3 DEF IInv

LEMMA StopSourcesKeeps ==
    ASSUME IInv, NEW t \in Threads, StopSources(t)
    PROVE  IInv'
<1>1. TypeInv'
    BY StopPhaseTypes DEF IInv, StopSources, TypeInv, gateVars
<1>2. CountInv' /\ OneTears'
    BY SMTT(30) DEF IInv, StopSources, CountInv, TypeInv, OneTears, At, StopPhase, gateVars, Tears, Down
<1>3. FlowInv'
    BY SMTT(30) DEF IInv, StopSources, FlowInv, TypeInv, At, StopPhase, gateVars, PoolsDown,
       GateAsCommanded, AllOff, RollsBack, Down, Tears, Threads
<1>4. \A u \in Threads : ThreadInv(u)'
    BY DEF IInv, StopSources, ThreadInv, TypeInv, At, StopPhase, gateVars, Down, HostPlaces,
       Quiet, Tears, TearInv, AllOff
<1>5. QED
    BY <1>1, <1>2, <1>3, <1>4 DEF IInv

LEMMA ReleaseResourcesKeeps ==
    ASSUME IInv, NEW t \in Threads, ReleaseResources(t)
    PROVE  IInv'
  BY DEF IInv, ReleaseResources, TypeInv, CountInv, OneTears, ThreadInv, FlowInv, At, Return,
     Goto, gateVars, Frames, Tears, Down, Reasons, HostPlaces, Quiet, TearInv, PoolsDown,
     GateAsCommanded, AllOff, RollsBack, Idle

LEMMA CommitStopKeeps ==
    ASSUME IInv, NEW t \in Threads, CommitStop(t)
    PROVE  IInv'
  BY DEF IInv, CommitStop, TypeInv, CountInv, OneTears, ThreadInv, FlowInv, At, Return,
     FlowStates, Admissions, Frames, Tears, Down, HostPlaces, Quiet, TearInv, GateAsCommanded,
     AllOff, Idle

LEMMA CommitRollbackKeeps ==
    ASSUME IInv, NEW t \in Threads, CommitRollback(t)
    PROVE  IInv'
  BY DEF IInv, CommitRollback, TypeInv, CountInv, OneTears, ThreadInv, FlowInv, At, Goto,
     FlowStates, Admissions, Frames, Tears, Down, TearInv, GateAsCommanded, AllOff

LEMMA CommitGiveUpKeeps ==
    ASSUME IInv, NEW t \in Threads, CommitGiveUp(t)
    PROVE  IInv'
  BY DEF IInv, CommitGiveUp, TypeInv, CountInv, OneTears, ThreadInv, FlowInv, At, Return,
     FlowStates, Admissions, Frames, Tears, Down, Quiet, TearInv, GateAsCommanded, AllOff, Idle

LEMMA CommitResetKeeps ==
    ASSUME IInv, NEW t \in Threads, CommitReset(t)
    PROVE  IInv'
  BY DEF IInv, CommitReset, TypeInv, CountInv, OneTears, ThreadInv, FlowInv, At, Return,
     FlowStates, Frames, Tears, Down, TearInv, GateAsCommanded, AllOff, Idle

(***************************************************************************)
(* Start, its rollback, reset and compile.                                 *)
(***************************************************************************)
LEMMA StartKeeps ==
    ASSUME IInv, Start
    PROVE  IInv'
<1>1. TypeInv'
    BY EnterTypes DEF IInv, TypeInv, Start, MayStart, At, gateVars, Threads
<1>2. CountInv' /\ OneTears'
    BY DEF IInv, Start, CountInv, OneTears, Enter, gateVars, Tears, Down
<1>3. FlowInv'
    BY DEF IInv, Start, FlowInv, MayStart, gateVars, GateAsCommanded, AllOff, RollsBack, Down,
       At
<1>4. \A u \in Threads : ThreadInv(u)'
    BY DEF IInv, Start, ThreadInv, FlowInv, MayStart, Enter, gateVars, Down, Quiet, Tears,
       TearInv, AllOff, At
<1>5. QED
    BY <1>1, <1>2, <1>3, <1>4 DEF IInv

LEMMA StartAdaptersFailKeeps ==
    ASSUME IInv, StartAdaptersFail
    PROVE  IInv'
<1>1. TypeInv'
    BY EnterTypes DEF IInv, TypeInv, StartAdaptersFail, OpenManagedRun, Threads, Reasons
<1>2. CountInv' /\ OneTears'
    BY Counted DEF IInv, StartAdaptersFail, CountInv, OneTears, ThreadInv, At, OpenManagedRun,
       Enter, Threads, Tears, Reasons, TearInv
<1>3. FlowInv'
    BY DEF IInv, StartAdaptersFail, FlowInv, ThreadInv, TypeInv, At, Enter, GateAsCommanded,
       RollsBack, Down, Threads
<1>4. \A u \in Threads : ThreadInv(u)'
    BY SMTT(30) DEF IInv, StartAdaptersFail, ThreadInv, TypeInv, At, Enter, Reasons, Tears, TearInv,
       Threads, Frames
<1>5. QED
    BY <1>1, <1>2, <1>3, <1>4 DEF IInv

LEMMA StartCommitsKeeps ==
    ASSUME IInv, StartCommits
    PROVE  IInv'
<1>1. TypeInv'
    BY DEF IInv, StartCommits, TypeInv, ThreadInv, At, OpenManagedRun, Return, FlowStates,
       Admissions, Threads, Frames, Down, Reasons, Idle
<1>2. CountInv' /\ OneTears'
    BY Counted DEF IInv, StartCommits, TypeInv, CountInv, OneTears, ThreadInv, At,
       OpenManagedRun, Return, Threads, Tears, Down, Reasons, TearInv, Idle
<1>3. FlowInv'
    BY Counted DEF IInv, StartCommits, TypeInv, ThreadInv, FlowInv, At, OpenManagedRun,
       Return, Threads, Tears, Down, Reasons, TearInv, GateAsCommanded, Idle
<1>4. ASSUME NEW u \in Threads
      PROVE  ThreadInv(u)'
  <2>1. CASE u = Host
      BY <2>1 DEF IInv, TypeInv, StartCommits, Return, Idle, ThreadInv, Tears, Down, HostPlaces
  <2>2. CASE u # Host
    <3>1. pc'[u] = pc[u]
        BY <2>2 DEF IInv, TypeInv, StartCommits, Return
    <3>2. admission # "STOPPING" \/ state \in {"COMPILED", "STOPPED"}
        BY DEF IInv, ThreadInv, StartCommits, At, Threads
    <3>3. pc'[u].at \in {"idle", "draining"}
        BY <2>2, <3>1, <3>2, OthersAside
    <3>4. QED
        BY <3>3 DEF ThreadInv, Tears, Down, HostPlaces
  <2>3. QED
      BY <2>1, <2>2
<1>5. QED
    BY <1>1, <1>2, <1>3, <1>4 DEF IInv

LEMMA ResetKeeps ==
    ASSUME IInv, Reset
    PROVE  IInv'
<1>1. TypeInv'
    BY EnterTypes DEF IInv, TypeInv, Reset, lifeVars, Admissions, Threads, Reasons
<1>2. CountInv' /\ OneTears'
    BY DEF IInv, Reset, CountInv, OneTears, ThreadInv, Enter, lifeVars, Tears, Reasons, TearInv
<1>3. FlowInv'
    BY DEF IInv, Reset, FlowInv, At, lifeVars, GateAsCommanded, AllOff, RollsBack, Down
<1>4. \A u \in Threads : ThreadInv(u)'
    BY SMTT(30) DEF IInv, Reset, ThreadInv, At, Enter, lifeVars, Down, Reasons, Tears, TearInv
<1>5. QED
    BY <1>1, <1>2, <1>3, <1>4 DEF IInv

LEMMA CompileKeeps ==
    ASSUME IInv, Compile
    PROVE  IInv'
  BY DEF IInv, Compile, TypeInv, CountInv, OneTears, ThreadInv, FlowInv, At, FlowStates, Tears,
     Down, HostPlaces, Quiet, TearInv, GateAsCommanded, AllOff, RollsBack

(***************************************************************************)
(* Resize.                                                                 *)
(***************************************************************************)
LEMMA ResizeKeeps ==
    ASSUME IInv, NEW q \in Parallelism, NEW timed \in DrainTimed, Resize(q, timed)
    PROVE  IInv'
<1>1. TypeInv'
    BY DEF IInv, Resize, TypeInv, ThreadInv, CommandStatus, lifeVars, Admissions, Threads,
       Frames, Down, Reasons, HostPlaces
<1>2. CountInv' /\ OneTears'
    BY DEF IInv, Resize, TypeInv, CountInv, OneTears, ThreadInv, CommandStatus, lifeVars,
       Threads, Tears, Down, Reasons, HostPlaces, TearInv
<1>3. FlowInv'
    BY DEF IInv, Resize, TypeInv, ThreadInv, FlowInv, CommandStatus, lifeVars, Threads, Tears,
       Down, Reasons, HostPlaces, TearInv, PoolsDown, GateAsCommanded
<1>4. ASSUME NEW u \in Threads
      PROVE  ThreadInv(u)'
  <2>1. CASE u = Host
    <3>1. state = "STARTED" /\ admission \in {"OPEN", "PAUSED"} /\ pc[Host].at = "idle"
        BY DEF IInv, TypeInv, Resize, CommandStatus, At, Admissions, FlowInv
    <3>2. ~PoolsDown
        BY <3>1, OthersAside DEF PoolsDown, Tears, Down
    <3>3. /\ reactive = "UP"
          /\ \/ admission = "OPEN" /\ intent = "OPEN"
             \/ admission = "PAUSED" /\ intent \in {"PAUSED", "GAVE_UP"}
        BY <3>1, <3>2 DEF IInv, FlowInv, GateAsCommanded
    <3>4. pc'[Host] = [at |-> "resizing", why |-> IF timed THEN "TIMED" ELSE "FOREVER",
                       status |-> admission, arg |-> q]
        BY DEF IInv, TypeInv, Resize, Threads
    <3>5. state' = state /\ reactive' = reactive /\ intent' = intent /\ admission' = "RESIZING"
        BY DEF Resize, lifeVars
    <3>6. QED
        BY <2>1, <3>1, <3>3, <3>4, <3>5 DEF ThreadInv, Tears, Down, HostPlaces
  <2>2. CASE u # Host
    <3>1. pc'[u] = pc[u]
        BY <2>2 DEF IInv, TypeInv, Resize
    <3>2. admission # "STOPPING" \/ state \in {"COMPILED", "STOPPED"}
        BY DEF IInv, ThreadInv, Resize, CommandStatus
    <3>3. pc'[u].at \in {"idle", "draining"}
        BY <2>2, <3>1, <3>2, OthersAside
    <3>4. QED
        BY <3>3 DEF ThreadInv, Tears, Down, HostPlaces
  <2>3. QED
      BY <2>1, <2>2
<1>5. QED
    BY <1>1, <1>2, <1>3, <1>4 DEF IInv

LEMMA ResizeTimesOutKeeps ==
    ASSUME IInv, ResizeTimesOut
    PROVE  IInv'
<1>1. TypeInv'
    BY DEF IInv, ResizeTimesOut, TypeInv, ThreadInv, At, Return, lifeVars, Admissions,
       Threads, Frames, Down, Idle
<1>2. CountInv' /\ OneTears'
    BY DEF IInv, ResizeTimesOut, TypeInv, CountInv, OneTears, ThreadInv, At, Return, lifeVars,
       Threads, Tears, Down, Quiet, TearInv, Idle
<1>3. FlowInv'
    BY DEF IInv, ResizeTimesOut, TypeInv, ThreadInv, FlowInv, At, Return, lifeVars, Threads,
       Tears, Down, Quiet, TearInv, PoolsDown, GateAsCommanded, AllOff, Idle
<1>4. ASSUME NEW u \in Threads
      PROVE  ThreadInv(u)'
  <2>1. CASE u = Host
      BY <2>1 DEF IInv, TypeInv, ResizeTimesOut, Return, Idle, ThreadInv, Tears, Down, HostPlaces
  <2>2. CASE u # Host
    <3>1. pc'[u] = pc[u]
        BY <2>2 DEF IInv, TypeInv, ResizeTimesOut, Return
    <3>2. admission # "STOPPING" \/ state \in {"COMPILED", "STOPPED"}
        BY DEF IInv, ThreadInv, ResizeTimesOut, At, Threads
    <3>3. pc'[u].at \in {"idle", "draining"}
        BY <2>2, <3>1, <3>2, OthersAside
    <3>4. QED
        BY <3>3 DEF ThreadInv, Tears, Down, HostPlaces
  <2>3. QED
      BY <2>1, <2>2
<1>5. QED
    BY <1>1, <1>2, <1>3, <1>4 DEF IInv

LEMMA ResizeAppliesKeeps ==
    ASSUME IInv, ResizeApplies
    PROVE  IInv'
<1>1. TypeInv'
  <2>1. Host \in Threads /\ pc[Host].arg \in Parallelism
      BY DEF IInv, ThreadInv, ResizeApplies, At, Threads
  <2>2. [pc[Host] EXCEPT !.at = "rebuild", !.arg = configured] \in Frames
      BY ZenonT(30), <2>1 DEF IInv, TypeInv, Frames, HostPlaces
  <2>3. pc' = [pc EXCEPT ![Host] = [pc[Host] EXCEPT !.at = "rebuild", !.arg = configured]]
      BY ZenonT(30), <2>1 DEF IInv, TypeInv, ResizeApplies
  <2>4. pc' \in [Threads -> Frames]
      BY <2>1, <2>2, <2>3 DEF IInv, TypeInv
  <2>5. QED
      BY <2>1, <2>4 DEF IInv, TypeInv, ResizeApplies, gateVars
<1>2. CountInv' /\ OneTears'
    BY DEF IInv, ResizeApplies, CountInv, TypeInv, OneTears, gateVars, Tears, Down
<1>3. FlowInv'
    BY DEF IInv, ResizeApplies, FlowInv, ThreadInv, TypeInv, At, gateVars, PoolsDown,
       GateAsCommanded, Threads
<1>4. \A u \in Threads : ThreadInv(u)'
    BY SMTT(30), Counted DEF IInv, ResizeApplies, ThreadInv, TypeInv, At, gateVars, Down, HostPlaces,
       Quiet, Tears, TearInv, AllOff
<1>5. QED
    BY <1>1, <1>2, <1>3, <1>4 DEF IInv

LEMMA RebuildKeeps ==
    ASSUME IInv, Rebuild
    PROVE  IInv'
<1>1. TypeInv'
    BY DEF IInv, Rebuild, TypeInv, ThreadInv, At, Return, Threads, Frames, Down, Idle
<1>2. CountInv' /\ OneTears'
    BY DEF IInv, Rebuild, TypeInv, CountInv, OneTears, ThreadInv, At, Return, Threads, Tears,
       Down, Quiet, TearInv, Idle
<1>3. FlowInv'
    BY DEF IInv, Rebuild, TypeInv, ThreadInv, FlowInv, At, Return, Threads, Tears, Down,
       Quiet, TearInv, GateAsCommanded, AllOff, Idle
<1>4. ASSUME NEW u \in Threads
      PROVE  ThreadInv(u)'
  <2>1. CASE u = Host
      BY <2>1 DEF IInv, TypeInv, Rebuild, Return, Idle, ThreadInv, Tears, Down, HostPlaces
  <2>2. CASE u # Host
    <3>1. pc'[u] = pc[u]
        BY <2>2 DEF IInv, TypeInv, Rebuild, Return
    <3>2. admission # "STOPPING" \/ state \in {"COMPILED", "STOPPED"}
        BY DEF IInv, ThreadInv, Rebuild, At, Threads
    <3>3. pc'[u].at \in {"idle", "draining"}
        BY <2>2, <3>1, <3>2, OthersAside
    <3>4. QED
        BY <3>3 DEF ThreadInv, Tears, Down, HostPlaces
  <2>3. QED
      BY <2>1, <2>2
<1>5. QED
    BY <1>1, <1>2, <1>3, <1>4 DEF IInv

LEMMA RebuildFailsKeeps ==
    ASSUME IInv, RebuildFails
    PROVE  IInv'
<1>1. TypeInv'
    BY DEF IInv, RebuildFails, TypeInv, ThreadInv, At, Goto, gateVars, Threads, Frames, Down,
       HostPlaces
<1>2. CountInv' /\ OneTears'
    BY DEF IInv, RebuildFails, TypeInv, CountInv, OneTears, ThreadInv, At, Goto, gateVars,
       Threads, Tears, Down, HostPlaces, Quiet, TearInv
<1>3. FlowInv'
    BY DEF IInv, RebuildFails, TypeInv, ThreadInv, FlowInv, At, Goto, gateVars, Threads,
       Tears, Down, HostPlaces, Quiet, TearInv, PoolsDown, GateAsCommanded, AllOff
<1>4. \A u \in Threads : ThreadInv(u)'
    BY DEF IInv, RebuildFails, TypeInv, CountInv, ThreadInv, FlowInv, At, Goto, gateVars,
       Threads, Tears, Down, HostPlaces, Quiet, TearInv, AllOff
<1>5. QED
    BY <1>1, <1>2, <1>3, <1>4 DEF IInv

LEMMA RollbackFailsKeeps ==
    ASSUME IInv, RollbackFails
    PROVE  IInv'
<1>1. TypeInv'
    BY EnterTypes DEF IInv, TypeInv, RollbackFails, gateVars, lifeVars, Threads, Reasons
<1>2. CountInv' /\ OneTears'
    BY DEF IInv, RollbackFails, CountInv, OneTears, ThreadInv, At, Enter, gateVars, lifeVars,
       Tears, Reasons, TearInv
<1>3. FlowInv'
    BY DEF IInv, RollbackFails, FlowInv, At, Enter, gateVars, lifeVars, PoolsDown,
       GateAsCommanded, AllOff, RollsBack, Down, Tears, Threads
<1>4. \A u \in Threads : ThreadInv(u)'
    BY DEF IInv, RollbackFails, ThreadInv, At, Enter, gateVars, lifeVars, Reasons, Quiet, Tears,
       TearInv, AllOff
<1>5. QED
    BY <1>1, <1>2, <1>3, <1>4 DEF IInv

LEMMA InitIInv == Init => IInv
<1> SUFFICES ASSUME Init PROVE IInv
    OBVIOUS
<1>1. IsFiniteSet(inside) /\ Cardinality(inside) = 0
    BY FS_EmptySet DEF Init
<1>2. pc = [t \in Threads |-> Idle] /\ Idle \in Frames /\ Idle.at = "idle"
    BY DEF Init, Idle, Frames
<1>3. TypeInv
    BY <1>1, <1>2 DEF Init, TypeInv, FlowStates, Admissions
<1>4. CountInv
    BY <1>1 DEF Init, CountInv
<1>5. \A t \in Threads : pc[t].at = "idle" /\ ~Tears(t)
    BY <1>2 DEF Tears, Down
<1>6. OneTears /\ FlowInv /\ \A t \in Threads : ThreadInv(t)
    BY <1>5 DEF Init, OneTears, FlowInv, ThreadInv, AllOff, GateAsCommanded, Down, HostPlaces
<1>7. QED
    BY <1>3, <1>4, <1>6 DEF IInv

LEMMA NextIInv ==
    ASSUME IInv, [Next]_vars
    PROVE  IInv'
<1>1. ASSUME NEW p \in Publishers, Publish(p) \/ Leave(p)
      PROVE  IInv'
    BY <1>1, PublishKeeps, LeaveKeeps
<1>2. ASSUME NEW t \in Threads, Teardown(t)
      PROVE  IInv'
    BY <1>2, StopNonSourcesKeeps, CloseManagedRunKeeps, WaitForPublishesKeeps, StopSourcesKeeps,
       ReleaseResourcesKeeps, CommitStopKeeps, CommitRollbackKeeps, CommitGiveUpKeeps, CommitResetKeeps
       DEF Teardown
<1>3. ASSUME NEW t \in Threads, Pause(t) \/ Resume(t) \/ Stop(t) \/ DrainReturns(t)
      PROVE  IInv'
    BY <1>3, PauseKeeps, ResumeKeeps, StopKeeps, DrainReturnsKeeps
<1>4. ASSUME NEW t \in Threads, NEW timed \in DrainTimed, Drain(t, timed)
      PROVE  IInv'
    BY <1>4, DrainKeeps
<1>5. ASSUME NEW q \in Parallelism, NEW timed \in DrainTimed, Resize(q, timed)
      PROVE  IInv'
    BY <1>5, ResizeKeeps
<1>6. CASE ManagedRunEnds \/ Start \/ Reset \/ Compile
    BY <1>6, ManagedRunEndsKeeps, StartKeeps, ResetKeeps, CompileKeeps
<1>7. CASE HostStep
    BY SMTT(30), <1>7, StartAdaptersFailKeeps, StartCommitsKeeps, ResizeTimesOutKeeps, ResizeAppliesKeeps,
       RebuildKeeps, RebuildFailsKeeps, RollbackFailsKeeps DEF HostStep
<1>8. CASE UNCHANGED vars
  <2>1. TypeInv' /\ CountInv' /\ OneTears'
      BY <1>8 DEF IInv, TypeInv, CountInv, OneTears, Tears, vars, lifeVars
  <2>2. FlowInv'
      BY <1>8 DEF IInv, FlowInv, Tears, PoolsDown, RollsBack, AllOff, GateAsCommanded, vars, lifeVars
  <2>3. \A t \in Threads : ThreadInv(t)'
      BY <1>8 DEF IInv, ThreadInv, TearInv, Tears, Quiet, AllOff, vars, lifeVars
  <2>4. QED
      BY <2>1, <2>2, <2>3 DEF IInv
<1>9. QED
    BY <1>1, <1>2, <1>3, <1>4, <1>5, <1>6, <1>7, <1>8 DEF Next

LEMMA Lifecycle == Spec => []IInv
  BY InitIInv, NextIInv, PTL DEF Spec

(***************************************************************************)
(* Whatever stop, resize, reset or the rollback of a start is under way, a *)
(* publisher that executes the graph has its pools, the reactive scheduler *)
(* and a started flow (turbo_flow_stop, turbo_flow_resize_pool).           *)
(***************************************************************************)
THEOREM PoolsOutlivePublishers == Spec => []PublishersKeepTheirPools
<1>1. IInv => PublishersKeepTheirPools
    BY ZenonT(30), LifecycleAssumption
       DEF IInv, TypeInv, FlowInv, PoolsDown, ThreadInv, TearInv, Tears, Quiet, PublishersKeepTheirPools,
           Threads, Reasons
<1>2. QED
    BY <1>1, Lifecycle, PTL

(***************************************************************************)
(* The gate stands where pause, resume, drain or start last put it, or is  *)
(* paused because the drain of a later resize timed out: a resize that     *)
(* rebuilds, well or badly, neither reopens a paused gate nor closes an    *)
(* open one.                                                               *)
(***************************************************************************)
THEOREM GateObeys == Spec => []GateAsCommanded
<1>1. IInv => GateAsCommanded
    BY DEF IInv, FlowInv
<1>2. QED
    BY <1>1, Lifecycle, PTL

(***************************************************************************)
(* When no command is under way, an adapter that is on belongs to a        *)
(* started flow, or to a failed one whose stop may be called again.        *)
(***************************************************************************)
THEOREM AdaptersKept == Spec => []AdaptersAccounted
<1>1. IInv => AdaptersAccounted
    BY DEF IInv, FlowInv, RollsBack, AllOff, AdaptersAccounted, At, Threads, Down
<1>2. QED
    BY <1>1, Lifecycle, PTL
=============================================================================
