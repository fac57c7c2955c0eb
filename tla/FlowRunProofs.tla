----------------------------- MODULE FlowRunProofs -----------------------------
(***************************************************************************)
(* The count of publications under way is exact, and the commands that     *)
(* wait for it, stop and the retirement of buffers, wait long enough, for  *)
(* any number of runs and values.                                          *)
(*                                                                         *)
(* Every step changes one run, and active_publishes by the difference of   *)
(* what that run holds (SoundStep).  What a run holds follows from where   *)
(* it is (RecordInv): who ends it, and whether its publication has been    *)
(* given back, can be told from its record at any time.                    *)
(***************************************************************************)
EXTENDS FlowRuns, FiniteSetTheorems, TLAPS

\* The constants are as the code has them: a value of turbo_flow_publish has no deadline.
RunsAssumption ==
    /\ IsFiniteSet(Runs) /\ Values \in Nat
    /\ Kind \in [Runs -> {"CALLER", "MANAGED", "FACADE"}]
    /\ \A r \in Timed \cap Runs : Kind[r] # "FACADE"

Subs == {"OPEN", "CANCELLED", "CLOSED"}
Deadlines == {"NONE", "ARMED", "EARLY", "FIRED", "OFF"}

RunRecords ==
    [phase : {"NONE", "ENTERED", "DRAINING", "REGISTERED", "OPEN", "RELEASED"},
     st : {"OPEN", "ACTIVE"} \cup Terminal,
     registered : {"YES", "NO"}, counted : {"YES", "NO"},
     sub : Subs, pump : {"IDLE", "VALUE", "ENTERED", "REGION", "FAILED"},
     demand : Int, left : Int, pending : Nat, pubs : Nat, upstream : {"MORE", "DONE"},
     deadline : Deadlines, failing : Nat, cancel : {"YES", "NO"},
     fin : {"NO", "WON", "REMOVED", "EXPIRED", "DONE"}]

RunsType ==
    /\ RunsAssumption
    /\ run \in [Runs -> RunRecords]
    /\ active \in Nat /\ IsFiniteSet(Unsettled)
    /\ stopRun \in Runs \cup {"NONE"}

\* Of the record x of a run: a value is on its way into the graph or in it.
Delivers(x) == x.pump \in {"VALUE", "ENTERED", "REGION"}

Idle(x) == x.pump = "IDLE" /\ x.pubs = 0 /\ x.pending = 0 /\ x.failing = 0

\* The registry has seen the run.
Known(x) == x.phase \notin {"NONE", "ENTERED", "DRAINING"}

\* What the record x of run r says about how the run ends and what it holds.
RecordInv(r, x) ==
    /\ ~Known(x) => /\ x.st = "OPEN" /\ x.fin = "NO"
                    /\ x.registered = "NO" /\ x.counted = "NO" /\ x.cancel = "NO"
    /\ ~Known(x) \/ x.phase = "REGISTERED" => Idle(x) /\ x.upstream = "MORE"
    /\ Known(x) /\ x.st \notin Terminal =>
           x.fin = "NO" /\ x.counted = "YES" /\ x.registered = "YES" /\ x.phase # "RELEASED"
    /\ x.st \in Terminal => x.fin # "NO" /\ (x.counted = "YES" <=> x.fin # "DONE")
    /\ x.pubs >= x.pending + x.failing
    /\ Delivers(x) => x.phase = "OPEN" /\ x.registered = "YES" /\ x.fin \notin {"WON", "REMOVED"}
    /\ x.upstream = "DONE" => x.sub = "CLOSED" /\ ~Delivers(x)
    /\ r \notin Timed => /\ x.deadline = "NONE" /\ x.fin # "EXPIRED"
                         /\ Delivers(x) => x.fin = "NO"

\* The publications the run has entered and not left.
Holds(x) == x.phase \in {"ENTERED", "DRAINING"} \/ x.counted = "YES"
Executes(r, x) == r \in ManagedRuns /\ x.pump \in {"ENTERED", "REGION"}
Weight(r, x) == (IF Holds(x) THEN 1 ELSE 0) + (IF Executes(r, x) THEN 1 ELSE 0) + x.pubs

Exact == active = Cardinality(Holding) + Cardinality(InGraph) + Cardinality(Unsettled)

\* What a stop has brought about.
StopInv ==
    /\ stopper \in {"CANCELLING", "MANAGED", "RELEASING"} => admission = "STOPPING"
    /\ stopper = "DONE" => state = "STOPPED"
    /\ stopRun # "NONE" => Known(run[stopRun])
    /\ stopper \in {"MANAGED", "RELEASING", "DONE"} =>
           \A r \in Runs : Kind[r] = "CALLER" => run[r].registered = "NO"
    /\ stopper \in {"RELEASING", "DONE"} => active = 0 /\ \A r \in Runs : ~Delivers(run[r])

\* What the wait before a retirement has seen.
RetireInv ==
    operator = "RETIRED" /\ admission = "PAUSED"
        => \A r \in ManagedRuns : ~Executes(r, run[r]) /\ run[r].pubs = 0

RunsInv ==
    /\ RunsType /\ Exact /\ StopInv /\ RetireInv
    /\ \A r \in Runs : RecordInv(r, run[r])

(***************************************************************************)
(* A step of one run, from record x to record y.                           *)
(***************************************************************************)
GateOpen == state = "STARTED" /\ admission = "OPEN"
GateLive == state = "STARTED" /\ admission \in {"OPEN", "PAUSED"}

\* What a step leaves alone, and what it does to the count.
Calm == UNCHANGED <<state, admission, stopper, operator>>
Quiet == Calm /\ UNCHANGED <<active, stopRun>>
Enters == Calm /\ GateOpen /\ active' = active + 1 /\ UNCHANGED stopRun
Leaves == Calm /\ active' = (IF active > 0 THEN active - 1 ELSE 0) /\ UNCHANGED stopRun

Only(r, y) == y \in RunRecords /\ run' = [run EXCEPT ![r] = y]

\* What all the steps of run r have in common.
SoundStep(r, x, y) ==
    /\ RecordInv(r, y)
    /\ y.pubs \in {x.pubs - 1, x.pubs, x.pubs + 1}
    /\ active' = active + Weight(r, y) - Weight(r, x)
    /\ stopRun' \in {stopRun, "NONE"} \/ (stopRun' = r /\ Known(y))
    /\ stopRun = r /\ Known(x) => Known(y)
    /\ x.registered = "NO" /\ y.registered = "YES" => GateLive
    /\ Delivers(y) => Delivers(x) \/ Holds(x)
    /\ Holds(y) /\ ~Holds(x) => GateLive
    /\ Executes(r, y) /\ ~Executes(r, x) => GateOpen
    /\ y.pubs > x.pubs => IF r \in ManagedRuns THEN Executes(r, x) ELSE Delivers(x)

LEMMA OneMore ==
    ASSUME NEW S, IsFiniteSet(S), NEW e, e \notin S, NEW T, T = S \cup {e}
    PROVE  IsFiniteSet(T) /\ Cardinality(S) \in Nat /\ Cardinality(T) = Cardinality(S) + 1
  BY FS_AddElement, FS_CardinalityType

LEMMA OneLess ==
    ASSUME NEW S, IsFiniteSet(S), NEW e \in S, NEW T, T = S \ {e}
    PROVE  /\ IsFiniteSet(T) /\ Cardinality(S) \in Nat /\ Cardinality(T) \in Nat
           /\ Cardinality(T) = Cardinality(S) - 1
  BY FS_RemoveElement, FS_CardinalityType

LEMMA Some ==
    ASSUME NEW S, IsFiniteSet(S), S # {}
    PROVE  Cardinality(S) > 0
  BY FS_EmptySet, FS_CardinalityType

LEMMA HoldingStep ==
    ASSUME RunsType, NEW r \in Runs, NEW y, Only(r, y)
    PROVE  /\ Cardinality(Holding) \in Nat /\ Cardinality(Holding') \in Nat
           /\ Cardinality(Holding') = Cardinality(Holding)
                  + (IF Holds(y) THEN 1 ELSE 0) - (IF Holds(run[r]) THEN 1 ELSE 0)
<1>1. IsFiniteSet(Holding) /\ Cardinality(Holding) \in Nat
    BY FS_Subset, FS_CardinalityType DEF RunsType, RunsAssumption, Holding
<1>2. r \in Holding <=> Holds(run[r])
    BY DEF Holding, Entering, Holds
<1>3. Holding' = IF Holds(y) THEN Holding \cup {r} ELSE Holding \ {r}
    BY DEF RunsType, Holding, Entering, Holds, Only
<1>4. QED
    BY <1>1, <1>2, <1>3, FS_AddElement, FS_RemoveElement, FS_CardinalityType

LEMMA InGraphStep ==
    ASSUME RunsType, NEW r \in Runs, NEW y, Only(r, y)
    PROVE  /\ Cardinality(InGraph) \in Nat /\ Cardinality(InGraph') \in Nat
           /\ Cardinality(InGraph') = Cardinality(InGraph)
                  + (IF Executes(r, y) THEN 1 ELSE 0) - (IF Executes(r, run[r]) THEN 1 ELSE 0)
<1>1. IsFiniteSet(InGraph) /\ Cardinality(InGraph) \in Nat
    BY FS_Subset, FS_CardinalityType DEF RunsType, RunsAssumption, InGraph, ManagedRuns
<1>2. r \in InGraph <=> Executes(r, run[r])
    BY DEF InGraph, Executes, ManagedRuns
<1>3. InGraph' = IF Executes(r, y) THEN InGraph \cup {r} ELSE InGraph \ {r}
    BY DEF RunsType, InGraph, ManagedRuns, Executes, ManagedRuns, Only
<1>4. QED
    BY <1>1, <1>2, <1>3, FS_AddElement, FS_RemoveElement, FS_CardinalityType

LEMMA UnsettledStep ==
    ASSUME RunsType, NEW r \in Runs, NEW y, Only(r, y),
           y.pubs \in {run[r].pubs - 1, run[r].pubs, run[r].pubs + 1}
    PROVE  /\ IsFiniteSet(Unsettled')
           /\ Cardinality(Unsettled) \in Nat /\ Cardinality(Unsettled') \in Nat
           /\ Cardinality(Unsettled') = Cardinality(Unsettled) + y.pubs - run[r].pubs
<1> DEFINE U == Unsettled
<1>1. run[r].pubs \in Nat /\ y.pubs \in Nat /\ IsFiniteSet(U)
    BY DEF RunsType, Only, RunRecords
<1>2. run' \in [Runs -> RunRecords] /\ run'[r] = y
    BY DEF RunsType, Only
<1>3. ASSUME NEW q \in Runs, NEW i \in Nat
      PROVE  /\ <<q, i>> \in U <=> i \in 1 .. run[q].pubs
             /\ <<q, i>> \in U' <=> i \in 1 .. run'[q].pubs
    BY <1>2 DEF Unsettled, RunsType, RunRecords
<1>4. /\ \A z \in U : \E q \in Runs, i \in Nat : z = <<q, i>>
      /\ \A z \in U' : \E q \in Runs, i \in Nat : z = <<q, i>>
    BY DEF Unsettled
<1>5. \A q \in Runs \ {r} : run'[q] = run[q]
    BY DEF RunsType, Only
<1>6. CASE y.pubs = run[r].pubs
  <2>1. \A q \in Runs : run'[q].pubs = run[q].pubs
    BY <1>2, <1>5, <1>6
  <2>2. ASSUME NEW z PROVE z \in U' <=> z \in U
    BY <1>3, <1>4, <2>1
  <2>3. U' = U
    BY ZenonT(30), <2>2
  <2>4. QED
    BY <1>1, <1>6, <2>3, FS_CardinalityType
<1>7. CASE y.pubs = run[r].pubs + 1
  <2>1. U' = U \cup {<<r, run[r].pubs + 1>>} /\ <<r, run[r].pubs + 1>> \notin U
    BY <1>1, <1>2, <1>3, <1>4, <1>5, <1>7
  <2>2. IsFiniteSet(U') /\ Cardinality(U) \in Nat /\ Cardinality(U') = Cardinality(U) + 1
    BY <1>1, <2>1, OneMore
  <2>3. QED
    BY <1>1, <1>7, <2>2
<1>8. CASE y.pubs = run[r].pubs - 1
  <2>1. U' = U \ {<<r, run[r].pubs>>} /\ <<r, run[r].pubs>> \in U
    BY <1>1, <1>2, <1>3, <1>4, <1>5, <1>8
  <2>2. QED
    BY <1>1, <1>8, <2>1, OneLess
<1>9. QED
    BY <1>6, <1>7, <1>8

\* The count follows the run that moves.
LEMMA CountStep ==
    ASSUME RunsType, Exact, NEW r \in Runs, NEW y, Only(r, y),
           y.pubs \in {run[r].pubs - 1, run[r].pubs, run[r].pubs + 1},
           active' = active + Weight(r, y) - Weight(r, run[r])
    PROVE  Exact' /\ active' \in Nat /\ IsFiniteSet(Unsettled')
<1>1. run[r].pubs \in Nat /\ y.pubs \in Nat
    BY DEF RunsType, Only, RunRecords
<1>2. PICK h \in {0, 1}, h1 \in {0, 1} :
          /\ h = (IF Holds(run[r]) THEN 1 ELSE 0) /\ h1 = (IF Holds(y) THEN 1 ELSE 0)
          /\ Cardinality(Holding') = Cardinality(Holding) + h1 - h
    BY HoldingStep
<1>3. PICK g \in {0, 1}, g1 \in {0, 1} :
          /\ g = (IF Executes(r, run[r]) THEN 1 ELSE 0) /\ g1 = (IF Executes(r, y) THEN 1 ELSE 0)
          /\ Cardinality(InGraph') = Cardinality(InGraph) + g1 - g
    BY InGraphStep
<1>4. /\ IsFiniteSet(Unsettled')
      /\ Cardinality(Unsettled') = Cardinality(Unsettled) + y.pubs - run[r].pubs
    BY UnsettledStep
<1>5. /\ Cardinality(Holding) \in Nat /\ Cardinality(Holding') \in Nat
      /\ Cardinality(InGraph) \in Nat /\ Cardinality(InGraph') \in Nat
      /\ Cardinality(Unsettled) \in Nat /\ Cardinality(Unsettled') \in Nat
    BY HoldingStep, InGraphStep, UnsettledStep
<1>6. Weight(r, run[r]) = h + g + run[r].pubs /\ Weight(r, y) = h1 + g1 + y.pubs
    BY <1>2, <1>3 DEF Weight
<1>7. QED
    BY <1>1, <1>2, <1>3, <1>4, <1>5, <1>6 DEF Exact

LEMMA Words ==
    /\ {"OPEN", "CANCELLED", "CLOSED"} \subseteq Subs
    /\ {"ARMED", "NONE", "EARLY", "FIRED", "OFF"} \subseteq Deadlines
    /\ {"COMPLETED", "CANCELED", "FAILED"} \subseteq Terminal
  BY DEF Subs, Deadlines, Terminal

\* The end of a run keeps the types.
LEMMA FinishTyped ==
    ASSUME NEW x \in RunRecords, NEW st \in Terminal
    PROVE  Finish(x, st) \in RunRecords
<1>1. [x EXCEPT !.st = st, !.fin = "WON"] \in RunRecords
    BY ZenonT(30) DEF RunRecords
<1>2. QED
    BY <1>1 DEF Finish

\* What a run holds is counted.
LEMMA Held ==
    ASSUME RunsType, Exact, NEW r \in Runs,
           Holds(run[r]) \/ Executes(r, run[r]) \/ run[r].pubs > 0
    PROVE  active > 0
<1>1. /\ IsFiniteSet(Holding) /\ Cardinality(Holding) \in Nat
      /\ IsFiniteSet(InGraph) /\ Cardinality(InGraph) \in Nat
      /\ IsFiniteSet(Unsettled) /\ Cardinality(Unsettled) \in Nat
  <2>1. IsFiniteSet(Holding) /\ IsFiniteSet(InGraph) /\ IsFiniteSet(Unsettled)
    BY FS_Subset DEF Holding, InGraph, ManagedRuns, RunsType, RunsAssumption
  <2>2. QED
    BY <2>1, FS_CardinalityType
<1>2. run[r].pubs \in Nat
    BY DEF RunsType, RunRecords
<1>3. CASE Holds(run[r])
  <2>1. Holding # {}
    BY <1>3 DEF Holds, Holding, Entering
  <2>2. QED
    BY <1>1, <2>1, Some DEF Exact
<1>4. CASE Executes(r, run[r])
  <2>1. InGraph # {}
    BY <1>4 DEF Executes, ManagedRuns, InGraph
  <2>2. QED
    BY <1>1, <2>1, Some DEF Exact
<1>5. CASE run[r].pubs > 0
  <2>1. <<r, 1>> \in {r} \X (1 .. run[r].pubs)
    BY <1>2, <1>5
  <2>2. Unsettled # {}
    BY <2>1 DEF Unsettled
  <2>3. QED
    BY <1>1, <2>2, Some DEF Exact
<1>6. QED
    BY <1>3, <1>4, <1>5

LEMMA RecordOf ==
    ASSUME RunsInv, NEW r \in Runs
    PROVE  \E x \in RunRecords :
               /\ x = run[r] /\ RecordInv(r, x) /\ active \in Nat
               /\ Holds(x) \/ Executes(r, x) \/ x.pubs > 0 => active > 0
<1>1. run[r] \in RunRecords /\ RecordInv(r, run[r]) /\ active \in Nat
    BY DEF RunsInv, RunsType
<1>2. Holds(run[r]) \/ Executes(r, run[r]) \/ run[r].pubs > 0 => active > 0
    BY Held DEF RunsInv
<1>3. QED
    BY <1>1, <1>2

LEMMA SoundStepKeeps ==
    ASSUME RunsInv, NEW r \in Runs, NEW y, Only(r, y), SoundStep(r, run[r], y), Calm
    PROVE  RunsInv'
<1> UNCHANGED <<state, admission, stopper, operator>>
    BY DEF Calm
<1>1. PICK x \in RunRecords : x = run[r]
    BY DEF RunsInv, RunsType
<1>2. /\ run' \in [Runs -> RunRecords] /\ run'[r] = y /\ y \in RunRecords
      /\ \A q \in Runs : q # r => run'[q] = run[q]
    BY DEF RunsInv, RunsType, Only
<1>3. SoundStep(r, x, y) /\ x.pubs \in Nat /\ y.pubs \in Nat
    BY <1>1, <1>2 DEF RunRecords
<1>4. Exact' /\ active' \in Nat /\ IsFiniteSet(Unsettled')
    BY CountStep DEF RunsInv, SoundStep
<1>5. RunsType'
    BY <1>2, <1>4 DEF RunsInv, RunsType, SoundStep
<1>6. \A q \in Runs : RecordInv(q, run'[q])
    BY <1>2 DEF RunsInv, SoundStep
<1>7. StopInv'
  <2>1. stopRun' # "NONE" => Known(run'[stopRun'])
    BY <1>1, <1>2, <1>3 DEF RunsInv, RunsType, StopInv, SoundStep
  <2>2. stopper' \in {"MANAGED", "RELEASING", "DONE"} =>
           \A q \in Runs : Kind[q] = "CALLER" => run'[q].registered = "NO"
    <3>1. x.registered = "NO" => y.registered = "NO" \/ GateLive
      BY <1>2, <1>3 DEF SoundStep, RunRecords
    <3>2. QED
      BY <1>1, <1>2, <3>1 DEF RunsInv, StopInv, GateLive
  <2>3. ASSUME stopper' \in {"RELEASING", "DONE"}
        PROVE  active' = 0 /\ \A q \in Runs : ~Delivers(run'[q])
    <3>1. active = 0 /\ (\A q \in Runs : ~Delivers(run[q])) /\ ~GateOpen /\ ~GateLive
      BY <2>3 DEF RunsInv, StopInv, GateOpen, GateLive
    <3>2. ~Holds(x) /\ ~Executes(r, x) /\ ~(x.pubs > 0) /\ ~Delivers(x)
      BY <1>1, <3>1, Held DEF RunsInv
    <3>3. ~Holds(y) /\ ~Executes(r, y) /\ ~(y.pubs > x.pubs) /\ ~Delivers(y)
      BY <1>3, <3>1, <3>2 DEF SoundStep
    <3>4. Weight(r, x) = 0 /\ Weight(r, y) = 0
      BY <1>3, <3>2, <3>3 DEF Weight
    <3>5. active' = active + Weight(r, y) - Weight(r, x)
      BY <1>3 DEF SoundStep
    <3>6. active' = 0
      BY <3>1, <3>4, <3>5
    <3>7. QED
      BY <1>2, <3>1, <3>3, <3>6
  <2>4. QED
    BY <2>1, <2>2, <2>3 DEF RunsInv, StopInv
<1>8. RetireInv'
  <2> SUFFICES ASSUME operator' = "RETIRED", admission' = "PAUSED", NEW q \in ManagedRuns
               PROVE  ~Executes(q, run'[q]) /\ run'[q].pubs = 0
    BY DEF RetireInv, ManagedRuns
  <2>1. ~Executes(q, run[q]) /\ run[q].pubs = 0 /\ ~GateOpen /\ q \in Runs
    BY DEF RunsInv, RetireInv, ManagedRuns, GateOpen
  <2>2. CASE q # r
    BY <1>2, <2>1, <2>2
  <2>3. CASE q = r
    <3>1. ~Executes(r, y) /\ ~(y.pubs > x.pubs)
      BY ZenonT(30), <1>1, <1>3, <2>1, <2>3 DEF SoundStep
    <3>2. QED
      BY <1>1, <1>2, <1>3, <2>1, <2>3, <3>1
  <2>4. QED
    BY <2>2, <2>3
<1>9. QED
    BY <1>4, <1>5, <1>6, <1>7, <1>8 DEF RunsInv

LEMMA OpenEnterKeeps ==
    ASSUME RunsInv, NEW r \in Runs, OpenEnter(r)
    PROVE  RunsInv'
<1>0. RunsAssumption
    BY DEF RunsInv, RunsType
<1>1. PICK x \in RunRecords :
          /\ x = run[r] /\ RecordInv(r, x) /\ active \in Nat
          /\ Holds(x) \/ Executes(r, x) \/ x.pubs > 0 => active > 0
    BY RecordOf
<1>2. x.phase = "NONE" /\ r \notin ManagedRuns /\ Enters /\ Calm
    BY <1>1 DEF OpenEnter, PublishEnter, CommandsUnchanged, PublishEnterStatus, Calm, Enters,
       GateOpen, ManagedRuns
<1>3. PICK n \in Int, d \in Deadlines :
        n = (IF Kind[r] = "FACADE" THEN 1 ELSE Values) /\ d = (IF r \in Timed THEN "ARMED" ELSE "NONE")
    BY <1>0, Words DEF RunsAssumption, Deadlines
<1>4. [x EXCEPT !.phase = "ENTERED", !.left = n, !.deadline = d] \in RunRecords
    BY ZenonT(30), Words DEF RunRecords
<1>5. PICK y \in RunRecords : y = [x EXCEPT !.phase = "ENTERED", !.left = n, !.deadline = d]
    BY <1>4
<1>6. run' = [run EXCEPT ![r] = y]
    BY ZenonT(30), <1>1, <1>3, <1>5 DEF OpenEnter
<1>7. SoundStep(r, x, y)
    BY SMTT(30), <1>0, <1>1, <1>2, <1>3, <1>5 DEF RunsAssumption, ManagedRuns, RunRecords, Subs,
       Deadlines, Terminal, RecordInv, Known, Idle, Delivers, Holds, Executes, Weight, GateOpen, GateLive,
       SoundStep, Calm, Quiet, Enters, Leaves
<1>8. QED
    BY Zenon, <1>1, <1>2, <1>5, <1>6, <1>7, SoundStepKeeps DEF Only

LEMMA OpenDrainsKeeps ==
    ASSUME RunsInv, NEW r \in Runs, OpenDrains(r)
    PROVE  RunsInv'
<1>0. RunsAssumption
    BY DEF RunsInv, RunsType
<1>1. PICK x \in RunRecords :
          /\ x = run[r] /\ RecordInv(r, x) /\ active \in Nat
          /\ Holds(x) \/ Executes(r, x) \/ x.pubs > 0 => active > 0
    BY RecordOf
<1>2. /\ x.phase = "NONE" /\ r \notin ManagedRuns /\ GateLive /\ Calm
      /\ active' = active + 1 /\ stopRun' = stopRun
    BY <1>1 DEF OpenDrains, CommandsUnchanged, Calm, GateLive, ManagedRuns
<1>3. Values \in Int
    BY <1>0 DEF RunsAssumption
<1>4. [x EXCEPT !.phase = "DRAINING", !.left = Values, !.deadline = "NONE"] \in RunRecords
    BY ZenonT(30), <1>3, Words DEF RunRecords
<1>5. PICK y \in RunRecords : y = [x EXCEPT !.phase = "DRAINING", !.left = Values, !.deadline = "NONE"]
    BY <1>4
<1>6. run' = [run EXCEPT ![r] = y]
    BY ZenonT(30), <1>1, <1>5 DEF OpenDrains
<1>7. SoundStep(r, x, y)
    BY SMTT(30), <1>1, <1>2, <1>5 DEF RunRecords, Subs, Deadlines, Terminal, RecordInv, Known, Idle,
       Delivers, Holds, Executes, Weight, SoundStep
<1>8. QED
    BY Zenon, <1>1, <1>2, <1>5, <1>6, <1>7, SoundStepKeeps DEF Only

LEMMA OpenRegisterKeeps ==
    ASSUME RunsInv, NEW r \in Runs, OpenRegister(r)
    PROVE  RunsInv'
<1>1. PICK x \in RunRecords :
          /\ x = run[r] /\ RecordInv(r, x) /\ active \in Nat
          /\ Holds(x) \/ Executes(r, x) \/ x.pubs > 0 => active > 0
    BY RecordOf
<1>2. x.phase \in {"ENTERED", "DRAINING"} /\ GateLive /\ Quiet /\ Calm
    BY <1>1 DEF OpenRegister, Entering, GateAdmits, CommandsUnchanged, Calm, Quiet, GateLive
<1>3. [x EXCEPT !.phase = "REGISTERED", !.registered = "YES", !.counted = "YES"] \in RunRecords
    BY ZenonT(30) DEF RunRecords
<1>4. PICK y \in RunRecords : y = [x EXCEPT !.phase = "REGISTERED", !.registered = "YES", !.counted = "YES"]
    BY <1>3
<1>5. run' = [run EXCEPT ![r] = y]
    BY ZenonT(30), <1>1, <1>4 DEF OpenRegister
<1>6. SoundStep(r, x, y)
    BY SMTT(30), <1>1, <1>2, <1>4 DEF RunRecords, Subs, Deadlines, Terminal, RecordInv, Known, Idle,
       Delivers, Holds, Executes, Weight, GateOpen, GateLive, SoundStep, Calm, Quiet, Enters, Leaves
<1>7. QED
    BY Zenon, <1>1, <1>2, <1>4, <1>5, <1>6, SoundStepKeeps DEF Only

LEMMA OpenSubscribesKeeps ==
    ASSUME RunsInv, NEW r \in Runs, OpenSubscribes(r)
    PROVE  RunsInv'
<1>1. PICK x \in RunRecords :
          /\ x = run[r] /\ RecordInv(r, x) /\ active \in Nat
          /\ Holds(x) \/ Executes(r, x) \/ x.pubs > 0 => active > 0
    BY RecordOf
<1>2. x.phase = "REGISTERED" /\ Quiet /\ Calm
    BY <1>1 DEF OpenSubscribes, CommandsUnchanged, Calm, Quiet
<1>3. CASE x.deadline # "EARLY"
  <2>1. [x EXCEPT !.phase = "OPEN", !.sub = "OPEN"] \in RunRecords
      BY ZenonT(30), Words DEF RunRecords
  <2>2. PICK y \in RunRecords : y = [x EXCEPT !.phase = "OPEN", !.sub = "OPEN"]
      BY <2>1
  <2>3. run' = [run EXCEPT ![r] = y]
      BY SMTT(30), <1>1, <1>3, <2>2 DEF OpenSubscribes, RunRecords, Terminal
  <2>4. SoundStep(r, x, y)
      BY SMTT(30), <1>1, <1>3, <1>2, <2>2 DEF RunRecords, Subs, Deadlines, Terminal, RecordInv,
         Known, Idle, Delivers, Holds, Executes, Weight, GateOpen, GateLive, SoundStep, Calm, Quiet, Enters,
         Leaves
  <2>5. QED
      BY Zenon, <1>1, <1>2, <2>2, <2>3, <2>4, SoundStepKeeps DEF Only
<1>4. CASE x.deadline = "EARLY"
  <2>1. [[x EXCEPT !.phase = "OPEN", !.sub = "OPEN"] EXCEPT !.sub = "CLOSED", !.deadline = "FIRED"] \in RunRecords
      BY ZenonT(30), Words DEF RunRecords
  <2>2. PICK y \in RunRecords :
           y = Finish([[x EXCEPT !.phase = "OPEN", !.sub = "OPEN"]
                          EXCEPT !.sub = "CLOSED", !.deadline = "FIRED"], "FAILED")
      BY <2>1, FinishTyped, Words
  <2>3. [x EXCEPT !.phase = "OPEN", !.sub = "OPEN"].deadline = "EARLY"
      BY <1>1, <1>4 DEF RunRecords, Subs, Deadlines
  <2>4. run' = [run EXCEPT ![r] = y]
      BY ZenonT(30), <1>1, <1>4, <2>2, <2>3 DEF OpenSubscribes
  <2>5. SoundStep(r, x, y)
      BY SMTT(30), <1>1, <1>4, <1>2, <2>2 DEF Finish, RunRecords, Subs, Deadlines, Terminal,
         RecordInv, Known, Idle, Delivers, Holds, Executes, Weight, GateOpen, GateLive, SoundStep, Calm,
         Quiet, Enters, Leaves
  <2>6. QED
      BY Zenon, <1>1, <1>2, <2>2, <2>4, <2>5, SoundStepKeeps DEF Only
<1>5. QED
    BY <1>1, <1>3, <1>4

LEMMA OpenSubscribeFailsKeeps ==
    ASSUME RunsInv, NEW r \in Runs, SubscribeFailsWhen \cap {"DONE", "PICKED"} = {}, OpenSubscribeFails(r)
    PROVE  RunsInv'
<1>0. RunsAssumption
    BY DEF RunsInv, RunsType
<1>1. PICK x \in RunRecords :
          /\ x = run[r] /\ RecordInv(r, x) /\ active \in Nat
          /\ Holds(x) \/ Executes(r, x) \/ x.pubs > 0 => active > 0
    BY RecordOf
<1>2. x.phase = "REGISTERED" /\ x.fin # "DONE" /\ stopRun # r /\ Leaves /\ Calm
    BY <1>1 DEF OpenSubscribeFails, PublishLeave, CommandsUnchanged, Calm, Leaves
<1>3. Fresh \in RunRecords
    BY <1>0, Words DEF RunsAssumption, RunRecords, Fresh
<1>4. PICK y \in RunRecords : y = Fresh
    BY <1>3
<1>5. run' = [run EXCEPT ![r] = y]
    BY ZenonT(30), <1>1, <1>2, <1>4 DEF OpenSubscribeFails
<1>6. SoundStep(r, x, y)
    BY SMTT(30), <1>1, <1>2, <1>4 DEF Fresh, RunRecords, Subs, Deadlines, Terminal, RecordInv,
       Known, Idle, Delivers, Holds, Executes, Weight, GateOpen, GateLive, SoundStep, Calm, Quiet, Enters,
       Leaves
<1>7. QED
    BY Zenon, <1>1, <1>2, <1>4, <1>5, <1>6, SoundStepKeeps DEF Only

LEMMA OpenRefusedSound ==
    ASSUME RunsInv, NEW r \in Runs, OpenRefused(r)
    PROVE  RunsInv'
<1>0. RunsAssumption
    BY DEF RunsInv, RunsType
<1>1. PICK x \in RunRecords :
          /\ x = run[r] /\ RecordInv(r, x) /\ active \in Nat
          /\ Holds(x) \/ Executes(r, x) \/ x.pubs > 0 => active > 0
    BY RecordOf
<1>2. x.phase \in {"ENTERED", "DRAINING"} /\ Leaves /\ Calm
    BY <1>1 DEF OpenRefused, Entering, PublishLeave, CommandsUnchanged, Calm, Leaves
<1>3. Fresh \in RunRecords
    BY <1>0, Words DEF RunsAssumption, RunRecords, Fresh
<1>4. PICK y \in RunRecords : y = Fresh
    BY <1>3
<1>5. run' = [run EXCEPT ![r] = y]
    BY ZenonT(30), <1>1, <1>4 DEF OpenRefused
<1>6. SoundStep(r, x, y)
    BY SMTT(30), <1>1, <1>2, <1>4 DEF Fresh, RunRecords, Subs, Deadlines, Terminal, RecordInv,
       Known, Idle, Delivers, Holds, Executes, Weight, GateOpen, GateLive, SoundStep, Calm, Quiet, Enters,
       Leaves
<1>7. QED
    BY Zenon, <1>1, <1>2, <1>4, <1>5, <1>6, SoundStepKeeps DEF Only

LEMMA RequestKeeps ==
    ASSUME RunsInv, NEW r \in Runs, Request(r)
    PROVE  RunsInv'
<1>1. PICK x \in RunRecords :
          /\ x = run[r] /\ RecordInv(r, x) /\ active \in Nat
          /\ Holds(x) \/ Executes(r, x) \/ x.pubs > 0 => active > 0
    BY RecordOf
<1>2. x.phase = "OPEN" /\ x.st \notin Terminal /\ Quiet /\ Calm
    BY <1>1 DEF Request, IsTerminal, ManagedRuns, CommandsUnchanged, Calm, Quiet
<1>3. x.demand + 1 \in Int
    BY <1>1, <1>2 DEF RunRecords
<1>4. [x EXCEPT !.st = "ACTIVE", !.demand = x.demand + 1] \in RunRecords
    BY ZenonT(30), <1>3 DEF RunRecords
<1>5. PICK y \in RunRecords : y = [x EXCEPT !.st = "ACTIVE", !.demand = x.demand + 1]
    BY <1>4
<1>6. run' = [run EXCEPT ![r] = y]
    BY ZenonT(30), <1>1, <1>5 DEF Request, IsTerminal
<1>7. SoundStep(r, x, y)
    BY SMTT(30), <1>1, <1>2, <1>5 DEF RunRecords, Subs, Deadlines, Terminal, RecordInv, Known, Idle,
       Delivers, Holds, Executes, Weight, GateOpen, GateLive, SoundStep, Calm, Quiet, Enters, Leaves
<1>8. QED
    BY Zenon, <1>1, <1>2, <1>5, <1>6, <1>7, SoundStepKeeps DEF Only

LEMMA ValueArrivesKeeps ==
    ASSUME RunsInv, NEW r \in Runs, ValueArrives(r)
    PROVE  RunsInv'
<1>1. PICK x \in RunRecords :
          /\ x = run[r] /\ RecordInv(r, x) /\ active \in Nat
          /\ Holds(x) \/ Executes(r, x) \/ x.pubs > 0 => active > 0
    BY RecordOf
<1>2. x.phase = "OPEN" /\ x.sub = "OPEN" /\ x.pump = "IDLE" /\ Quiet /\ Calm
    BY <1>1 DEF ValueArrives, IsTerminal, CommandsUnchanged, Calm, Quiet
<1>3. PICK p \in {"FAILED", "VALUE"} : p = IF x.st \in Terminal THEN "FAILED" ELSE "VALUE"
    BY <1>1, Words DEF RunRecords, Subs, Deadlines
<1>4. x.demand - 1 \in Int /\ x.left - 1 \in Int
    BY <1>1, <1>2 DEF RunRecords
<1>5. [x EXCEPT !.demand = x.demand - 1, !.left = x.left - 1, !.pump = p] \in RunRecords
    BY ZenonT(30), <1>4 DEF RunRecords
<1>6. PICK y \in RunRecords : y = [x EXCEPT !.demand = x.demand - 1, !.left = x.left - 1, !.pump = p]
    BY <1>5
<1>7. run' = [run EXCEPT ![r] = y]
    BY ZenonT(30), <1>1, <1>3, <1>6 DEF ValueArrives, IsTerminal
<1>8. SoundStep(r, x, y)
    BY SMTT(30), <1>1, <1>2, <1>3, <1>6 DEF RunRecords, Subs, Deadlines, Terminal, RecordInv, Known,
       Idle, Delivers, Holds, Executes, Weight, GateOpen, GateLive, SoundStep, Calm, Quiet, Enters, Leaves
<1>9. QED
    BY Zenon, <1>1, <1>2, <1>6, <1>7, <1>8, SoundStepKeeps DEF Only

LEMMA ValueEntersKeeps ==
    ASSUME RunsInv, NEW r \in Runs, ValueEnters(r)
    PROVE  RunsInv'
<1>1. PICK x \in RunRecords :
          /\ x = run[r] /\ RecordInv(r, x) /\ active \in Nat
          /\ Holds(x) \/ Executes(r, x) \/ x.pubs > 0 => active > 0
    BY RecordOf
<1>2. x.pump = "VALUE" /\ r \in ManagedRuns /\ Enters /\ Calm
    BY <1>1 DEF ValueEnters, PublishEnter, CommandsUnchanged, PublishEnterStatus, Calm, Enters,
       GateOpen
<1>3. [x EXCEPT !.pump = "ENTERED"] \in RunRecords
    BY ZenonT(30) DEF RunRecords
<1>4. PICK y \in RunRecords : y = [x EXCEPT !.pump = "ENTERED"]
    BY <1>3
<1>5. run' = [run EXCEPT ![r] = y]
    BY ZenonT(30), <1>1, <1>4 DEF ValueEnters
<1>6. SoundStep(r, x, y)
    BY SMTT(30), <1>1, <1>2, <1>4 DEF RunRecords, Subs, Deadlines, Terminal, RecordInv, Known, Idle,
       Delivers, Holds, Executes, Weight, GateOpen, GateLive, SoundStep, Calm, Quiet, Enters, Leaves
<1>7. QED
    BY Zenon, <1>1, <1>2, <1>4, <1>5, <1>6, SoundStepKeeps DEF Only

LEMMA ValueTrackedKeeps ==
    ASSUME RunsInv, NEW r \in Runs, ValueTracked(r)
    PROVE  RunsInv'
<1>1. PICK x \in RunRecords :
          /\ x = run[r] /\ RecordInv(r, x) /\ active \in Nat
          /\ Holds(x) \/ Executes(r, x) \/ x.pubs > 0 => active > 0
    BY RecordOf
<1>2. /\ x.pump = IF r \in ManagedRuns THEN "ENTERED" ELSE "VALUE"
      /\ Calm /\ stopRun' = stopRun
    BY <1>1 DEF ValueTracked, CommandsUnchanged, Calm
<1>3. CASE Tracked(r)
  <2>1. x.pending + 1 \in Nat /\ x.pubs + 1 \in Nat
      BY <1>1, <1>2 DEF RunRecords
  <2>2. [x EXCEPT !.pump = "REGION", !.pending = x.pending + 1, !.pubs = x.pubs + 1] \in RunRecords
      BY ZenonT(30), <2>1 DEF RunRecords
  <2>3. PICK y \in RunRecords : y = [x EXCEPT !.pump = "REGION", !.pending = x.pending + 1, !.pubs = x.pubs + 1]
      BY <2>2
  <2>4. run' = [run EXCEPT ![r] = y]
      BY ZenonT(30), <1>1, <1>3, <2>3 DEF ValueTracked, Tracked
  <2>5. RecordInv(r, y)
      BY SMTT(30), <1>1, <1>3, <1>2, <2>3 DEF Tracked, RunRecords, Subs, Deadlines, Terminal,
         RecordInv, Known, Idle, Delivers
  <2>6. SoundStep(r, x, y)
      BY SMTT(30), <1>1, <1>3, <1>2, <2>3, <2>5 DEF ValueTracked, Tracked, CommandsUnchanged,
         RunRecords, Subs, Deadlines, Terminal, Known, Idle, Delivers, Holds, Executes, Weight,
         GateOpen, GateLive, SoundStep, Calm, Quiet, Enters, Leaves
  <2>7. QED
      BY Zenon, <1>1, <1>2, <2>3, <2>4, <2>6, SoundStepKeeps DEF Only
<1>4. CASE ~Tracked(r)
  <2>1. [x EXCEPT !.pump = "REGION"] \in RunRecords
      BY ZenonT(30) DEF RunRecords
  <2>2. PICK y \in RunRecords : y = [x EXCEPT !.pump = "REGION"]
      BY <2>1
  <2>3. run' = [run EXCEPT ![r] = y]
      BY ZenonT(30), <1>1, <1>4, <2>2 DEF ValueTracked, Tracked
  <2>4. SoundStep(r, x, y)
      BY SMTT(30), <1>1, <1>4, <1>2, <2>2 DEF ValueTracked, Tracked, CommandsUnchanged, RunRecords,
         Subs, Deadlines, Terminal, RecordInv, Known, Idle, Delivers, Holds, Executes, Weight,
         GateOpen, GateLive, SoundStep, Calm, Quiet, Enters, Leaves
  <2>5. QED
      BY Zenon, <1>1, <1>2, <2>2, <2>3, <2>4, SoundStepKeeps DEF Only
<1>5. QED
    BY <1>3, <1>4

LEMMA ValueRefusedKeeps ==
    ASSUME RunsInv, NEW r \in Runs, ValueRefused(r)
    PROVE  RunsInv'
<1>1. PICK x \in RunRecords :
          /\ x = run[r] /\ RecordInv(r, x) /\ active \in Nat
          /\ Holds(x) \/ Executes(r, x) \/ x.pubs > 0 => active > 0
    BY RecordOf
<1>2. x.pump = "VALUE" /\ Quiet /\ Calm
    BY <1>1 DEF ValueRefused, ManagedRuns, PublishEnterStatus, CommandsUnchanged, Calm, Quiet
<1>3. [x EXCEPT !.pump = "FAILED"] \in RunRecords
    BY ZenonT(30) DEF RunRecords
<1>4. PICK y \in RunRecords : y = [x EXCEPT !.pump = "FAILED"]
    BY <1>3
<1>5. run' = [run EXCEPT ![r] = y]
    BY ZenonT(30), <1>1, <1>4 DEF ValueRefused
<1>6. SoundStep(r, x, y)
    BY SMTT(30), <1>1, <1>2, <1>4 DEF RunRecords, Subs, Deadlines, Terminal, RecordInv, Known, Idle,
       Delivers, Holds, Executes, Weight, GateOpen, GateLive, SoundStep, Calm, Quiet, Enters, Leaves
<1>7. QED
    BY Zenon, <1>1, <1>2, <1>4, <1>5, <1>6, SoundStepKeeps DEF Only

LEMMA ValueEndsKeeps ==
    ASSUME RunsInv, NEW r \in Runs, ValueEnds(r)
    PROVE  RunsInv'
<1>1. PICK x \in RunRecords :
          /\ x = run[r] /\ RecordInv(r, x) /\ active \in Nat
          /\ Holds(x) \/ Executes(r, x) \/ x.pubs > 0 => active > 0
    BY RecordOf
<1>2. /\ x.pump = "REGION" /\ stopRun' = stopRun
      /\ r \notin ManagedRuns => Quiet
      /\ r \in ManagedRuns => Leaves
      /\ Calm
    BY <1>1 DEF ValueEnds, ManagedRuns, PublishLeave, gateVars, CommandsUnchanged, Calm, Quiet,
       Leaves
<1>3. CASE run' = [run EXCEPT ![r].pump = "IDLE"]
  <2>1. [x EXCEPT !.pump = "IDLE"] \in RunRecords
      BY ZenonT(30) DEF RunRecords
  <2>2. PICK y \in RunRecords : y = [x EXCEPT !.pump = "IDLE"]
      BY <2>1
  <2>3. run' = [run EXCEPT ![r] = y]
      BY ZenonT(30), <1>1, <1>3, <2>2 DEF ValueEnds
  <2>4. SoundStep(r, x, y)
      BY SMTT(30), <1>1, <1>3, <1>2, <2>2 DEF RunRecords, Subs, Deadlines, Terminal, RecordInv,
         Known, Idle, Delivers, Holds, Executes, Weight, GateOpen, GateLive, SoundStep, Calm, Quiet, Enters,
         Leaves
  <2>5. QED
      BY Zenon, <1>1, <1>2, <2>2, <2>3, <2>4, SoundStepKeeps DEF Only
<1>4. CASE run' = [run EXCEPT ![r].pump = "FAILED"]
  <2>1. [x EXCEPT !.pump = "FAILED"] \in RunRecords
      BY ZenonT(30) DEF RunRecords
  <2>2. PICK y \in RunRecords : y = [x EXCEPT !.pump = "FAILED"]
      BY <2>1
  <2>3. run' = [run EXCEPT ![r] = y]
      BY ZenonT(30), <1>1, <1>4, <2>2 DEF ValueEnds
  <2>4. SoundStep(r, x, y)
      BY SMTT(30), <1>1, <1>4, <1>2, <2>2 DEF RunRecords, Subs, Deadlines, Terminal, RecordInv,
         Known, Idle, Delivers, Holds, Executes, Weight, GateOpen, GateLive, SoundStep, Calm, Quiet, Enters,
         Leaves
  <2>5. QED
      BY Zenon, <1>1, <1>2, <2>2, <2>3, <2>4, SoundStepKeeps DEF Only
<1>5. QED
    BY <1>1, <1>3, <1>4 DEF ValueEnds, RunRecords

LEMMA OnErrorKeeps ==
    ASSUME RunsInv, NEW r \in Runs, OnError(r)
    PROVE  RunsInv'
<1>1. PICK x \in RunRecords :
          /\ x = run[r] /\ RecordInv(r, x) /\ active \in Nat
          /\ Holds(x) \/ Executes(r, x) \/ x.pubs > 0 => active > 0
    BY RecordOf
<1>2. x.pump = "FAILED" /\ Quiet /\ Calm
    BY <1>1 DEF OnError, CommandsUnchanged, Calm, Quiet
<1>3. [x EXCEPT !.pump = "IDLE", !.sub = "CLOSED"] \in RunRecords
    BY ZenonT(30), Words DEF RunRecords
<1>4. PICK y \in RunRecords : y = Finish([x EXCEPT !.pump = "IDLE", !.sub = "CLOSED"], "FAILED")
    BY <1>3, FinishTyped, Words
<1>5. run' = [run EXCEPT ![r] = y]
    BY ZenonT(30), <1>1, <1>4 DEF OnError
<1>6. SoundStep(r, x, y)
    BY SMTT(30), <1>1, <1>2, <1>4 DEF Finish, RunRecords, Subs, Deadlines, Terminal, RecordInv,
       Known, Idle, Delivers, Holds, Executes, Weight, GateOpen, GateLive, SoundStep, Calm, Quiet, Enters,
       Leaves
<1>7. QED
    BY Zenon, <1>1, <1>2, <1>4, <1>5, <1>6, SoundStepKeeps DEF Only

LEMMA OnDoneKeeps ==
    ASSUME RunsInv, NEW r \in Runs, OnDone(r)
    PROVE  RunsInv'
<1>1. PICK x \in RunRecords :
          /\ x = run[r] /\ RecordInv(r, x) /\ active \in Nat
          /\ Holds(x) \/ Executes(r, x) \/ x.pubs > 0 => active > 0
    BY RecordOf
<1>2. x.phase = "OPEN" /\ x.pump = "IDLE" /\ Quiet /\ Calm
    BY <1>1 DEF OnDone, CommandsUnchanged, Calm, Quiet
<1>3. CASE x.pending # 0
  <2>1. [x EXCEPT !.sub = "CLOSED", !.upstream = "DONE"] \in RunRecords
      BY ZenonT(30), Words DEF RunRecords
  <2>2. PICK y \in RunRecords : y = [x EXCEPT !.sub = "CLOSED", !.upstream = "DONE"]
      BY <2>1
  <2>3. run' = [run EXCEPT ![r] = y]
      BY SMTT(30), <1>1, <1>3, <2>2 DEF OnDone, RunRecords, Terminal
  <2>4. SoundStep(r, x, y)
      BY SMTT(30), <1>1, <1>3, <1>2, <2>2 DEF RunRecords, Subs, Deadlines, Terminal, RecordInv,
         Known, Idle, Delivers, Holds, Executes, Weight, GateOpen, GateLive, SoundStep, Calm, Quiet, Enters,
         Leaves
  <2>5. QED
      BY Zenon, <1>1, <1>2, <2>2, <2>3, <2>4, SoundStepKeeps DEF Only
<1>4. CASE x.pending = 0
  <2>1. [x EXCEPT !.sub = "CLOSED", !.upstream = "DONE"] \in RunRecords
      BY ZenonT(30), Words DEF RunRecords
  <2>2. PICK y \in RunRecords : y = Finish([x EXCEPT !.sub = "CLOSED", !.upstream = "DONE"], "COMPLETED")
      BY <2>1, FinishTyped, Words
  <2>3. [x EXCEPT !.sub = "CLOSED", !.upstream = "DONE"].pending = 0
      BY <1>1, <1>4 DEF RunRecords, Subs, Deadlines
  <2>4. run' = [run EXCEPT ![r] = y]
      BY ZenonT(30), <1>1, <1>4, <2>2, <2>3 DEF OnDone
  <2>5. SoundStep(r, x, y)
      BY SMTT(30), <1>1, <1>4, <1>2, <2>2 DEF Finish, RunRecords, Subs, Deadlines, Terminal,
         RecordInv, Known, Idle, Delivers, Holds, Executes, Weight, GateOpen, GateLive, SoundStep, Calm,
         Quiet, Enters, Leaves
  <2>6. QED
      BY Zenon, <1>1, <1>2, <2>2, <2>4, <2>5, SoundStepKeeps DEF Only
<1>5. QED
    BY <1>1, <1>3, <1>4

LEMMA AsyncValueEndsKeeps ==
    ASSUME RunsInv, NEW r \in Runs, AsyncValueEnds(r)
    PROVE  RunsInv'
<1>1. PICK x \in RunRecords :
          /\ x = run[r] /\ RecordInv(r, x) /\ active \in Nat
          /\ Holds(x) \/ Executes(r, x) \/ x.pubs > 0 => active > 0
    BY RecordOf
<1>2. x.pending > (IF x.pump = "REGION" THEN 1 ELSE 0) /\ Quiet /\ Calm
    BY <1>1 DEF AsyncValueEnds, IsTerminal, CommandsUnchanged, Calm, Quiet
<1>3. CASE run' = [run EXCEPT ![r] = [x EXCEPT !.pending = x.pending - 1]]
  <2>1. x.pending - 1 \in Nat
      BY <1>1, <1>2 DEF RunRecords
  <2>2. [x EXCEPT !.pending = x.pending - 1] \in RunRecords
      BY ZenonT(30), <2>1 DEF RunRecords
  <2>3. PICK y \in RunRecords : y = [x EXCEPT !.pending = x.pending - 1]
      BY <2>2
  <2>4. run' = [run EXCEPT ![r] = y]
      BY ZenonT(30), <1>1, <1>3, <2>3 DEF AsyncValueEnds, IsTerminal
  <2>5. SoundStep(r, x, y)
      BY SMTT(30), <1>1, <1>3, <1>2, <2>3 DEF RunRecords, Subs, Deadlines, Terminal, RecordInv,
         Known, Idle, Delivers, Holds, Executes, Weight, GateOpen, GateLive, SoundStep, Calm, Quiet, Enters,
         Leaves
  <2>6. QED
      BY Zenon, <1>1, <1>2, <2>3, <2>4, <2>5, SoundStepKeeps DEF Only
<1>4. CASE /\ x.st \notin Terminal
          /\ run' = [run EXCEPT ![r] = [x EXCEPT !.pending = x.pending - 1, !.failing = x.failing + 1]]
  <2>1. x.pending - 1 \in Nat /\ x.failing + 1 \in Nat
      BY <1>1, <1>2 DEF RunRecords
  <2>2. [x EXCEPT !.pending = x.pending - 1, !.failing = x.failing + 1] \in RunRecords
      BY ZenonT(30), <2>1 DEF RunRecords
  <2>3. PICK y \in RunRecords : y = [x EXCEPT !.pending = x.pending - 1, !.failing = x.failing + 1]
      BY <2>2
  <2>4. run' = [run EXCEPT ![r] = y]
      BY ZenonT(30), <1>1, <1>4, <2>3 DEF AsyncValueEnds, IsTerminal
  <2>5. RecordInv(r, y)
      BY SMTT(30), <1>1, <1>4, <1>2, <2>3 DEF RunRecords, Subs, Deadlines, Terminal, RecordInv,
         Known, Idle, Delivers
  <2>6. SoundStep(r, x, y)
      BY SMTT(30), <1>1, <1>4, <1>2, <2>3, <2>5 DEF RunRecords, Subs, Deadlines, Terminal, Known,
         Idle, Delivers, Holds, Executes, Weight, GateOpen, GateLive, SoundStep, Calm, Quiet, Enters, Leaves
  <2>7. QED
      BY Zenon, <1>1, <1>2, <2>3, <2>4, <2>6, SoundStepKeeps DEF Only
<1>5. CASE /\ x.st \notin Terminal /\ x.upstream = "DONE"
          /\ run' = [run EXCEPT ![r] = Finish([x EXCEPT !.pending = x.pending - 1], "COMPLETED")]
  <2>1. x.pending - 1 \in Nat
      BY <1>1, <1>2 DEF RunRecords
  <2>2. [x EXCEPT !.pending = x.pending - 1] \in RunRecords
      BY ZenonT(30), <2>1, Words DEF RunRecords
  <2>3. PICK y \in RunRecords : y = Finish([x EXCEPT !.pending = x.pending - 1], "COMPLETED")
      BY <2>2, FinishTyped, Words
  <2>4. run' = [run EXCEPT ![r] = y]
      BY ZenonT(30), <1>1, <1>5, <2>3 DEF AsyncValueEnds, IsTerminal
  <2>5. SoundStep(r, x, y)
      BY SMTT(30), <1>1, <1>5, <1>2, <2>3 DEF Finish, RunRecords, Subs, Deadlines, Terminal,
         RecordInv, Known, Idle, Delivers, Holds, Executes, Weight, GateOpen, GateLive, SoundStep, Calm,
         Quiet, Enters, Leaves
  <2>6. QED
      BY Zenon, <1>1, <1>2, <2>3, <2>4, <2>5, SoundStepKeeps DEF Only
<1>6. QED
    BY <1>1, <1>3, <1>4, <1>5 DEF AsyncValueEnds, IsTerminal, Finish, Terminal, RunRecords

LEMMA AsyncFailureEndsKeeps ==
    ASSUME RunsInv, NEW r \in Runs, AsyncFailureEnds(r)
    PROVE  RunsInv'
<1>1. PICK x \in RunRecords :
          /\ x = run[r] /\ RecordInv(r, x) /\ active \in Nat
          /\ Holds(x) \/ Executes(r, x) \/ x.pubs > 0 => active > 0
    BY RecordOf
<1>2. x.failing > 0 /\ x.pump = "IDLE" /\ Quiet /\ Calm
    BY <1>1 DEF AsyncFailureEnds, CommandsUnchanged, Calm, Quiet
<1>3. x.failing - 1 \in Nat
    BY <1>1, <1>2 DEF RunRecords
<1>4. [x EXCEPT !.sub = "CLOSED", !.failing = x.failing - 1] \in RunRecords
    BY ZenonT(30), <1>3, Words DEF RunRecords
<1>5. PICK y \in RunRecords : y = Finish([x EXCEPT !.sub = "CLOSED", !.failing = x.failing - 1], "FAILED")
    BY <1>4, FinishTyped, Words
<1>6. run' = [run EXCEPT ![r] = y]
    BY ZenonT(30), <1>1, <1>5 DEF AsyncFailureEnds
<1>7. SoundStep(r, x, y)
    BY SMTT(30), <1>1, <1>2, <1>5 DEF Finish, RunRecords, Subs, Deadlines, Terminal, RecordInv,
       Known, Idle, Delivers, Holds, Executes, Weight, GateOpen, GateLive, SoundStep, Calm, Quiet, Enters,
       Leaves
<1>8. QED
    BY Zenon, <1>1, <1>2, <1>5, <1>6, <1>7, SoundStepKeeps DEF Only

LEMMA PublicationLeavesKeeps ==
    ASSUME RunsInv, NEW r \in Runs, PublicationLeaves(r)
    PROVE  RunsInv'
<1>1. PICK x \in RunRecords :
          /\ x = run[r] /\ RecordInv(r, x) /\ active \in Nat
          /\ Holds(x) \/ Executes(r, x) \/ x.pubs > 0 => active > 0
    BY RecordOf
<1>2. x.pubs > x.pending + x.failing /\ Leaves /\ Calm
    BY <1>1 DEF PublicationLeaves, PublishLeave, CommandsUnchanged, Calm, Leaves
<1>3. x.pubs - 1 \in Nat
    BY <1>1, <1>2 DEF RunRecords, RecordInv
<1>4. [x EXCEPT !.pubs = x.pubs - 1] \in RunRecords
    BY ZenonT(30), <1>3 DEF RunRecords
<1>5. PICK y \in RunRecords : y = [x EXCEPT !.pubs = x.pubs - 1]
    BY <1>4
<1>6. run' = [run EXCEPT ![r] = y]
    BY ZenonT(30), <1>1, <1>5 DEF PublicationLeaves
<1>7. SoundStep(r, x, y)
    BY SMTT(30), <1>1, <1>2, <1>5 DEF RunRecords, Subs, Deadlines, Terminal, RecordInv, Known, Idle,
       Delivers, Holds, Executes, Weight, GateOpen, GateLive, SoundStep, Calm, Quiet, Enters, Leaves
<1>8. QED
    BY Zenon, <1>1, <1>2, <1>5, <1>6, <1>7, SoundStepKeeps DEF Only

LEMMA FinishRemovesKeeps ==
    ASSUME RunsInv, NEW r \in Runs, FinishRemoves(r)
    PROVE  RunsInv'
<1>1. PICK x \in RunRecords :
          /\ x = run[r] /\ RecordInv(r, x) /\ active \in Nat
          /\ Holds(x) \/ Executes(r, x) \/ x.pubs > 0 => active > 0
    BY RecordOf
<1>2. x.fin = "WON" /\ Quiet /\ Calm
    BY <1>1 DEF FinishRemoves, CommandsUnchanged, Calm, Quiet
<1>3. PICK d \in Deadlines : d = IF x.deadline = "ARMED" THEN "OFF" ELSE x.deadline
    BY <1>1, Words DEF RunRecords, Subs, Deadlines
<1>4. [x EXCEPT !.fin = "REMOVED", !.registered = "NO", !.deadline = d] \in RunRecords
    BY ZenonT(30), Words DEF RunRecords
<1>5. PICK y \in RunRecords : y = [x EXCEPT !.fin = "REMOVED", !.registered = "NO", !.deadline = d]
    BY <1>4
<1>6. run' = [run EXCEPT ![r] = y]
    BY ZenonT(30), <1>1, <1>3, <1>5 DEF FinishRemoves
<1>7. SoundStep(r, x, y)
    BY SMTT(30), <1>1, <1>2, <1>3, <1>5 DEF RunRecords, Subs, Deadlines, Terminal, RecordInv, Known,
       Idle, Delivers, Holds, Executes, Weight, GateOpen, GateLive, SoundStep, Calm, Quiet, Enters, Leaves
<1>8. QED
    BY Zenon, <1>1, <1>2, <1>5, <1>6, <1>7, SoundStepKeeps DEF Only

LEMMA FinishReleasesKeeps ==
    ASSUME RunsInv, NEW r \in Runs, FinishReleases(r)
    PROVE  RunsInv'
<1>1. PICK x \in RunRecords :
          /\ x = run[r] /\ RecordInv(r, x) /\ active \in Nat
          /\ Holds(x) \/ Executes(r, x) \/ x.pubs > 0 => active > 0
    BY RecordOf
<1>2. x.fin \in {"REMOVED", "EXPIRED"} /\ Leaves /\ Calm
    BY <1>1 DEF FinishReleases, PublishLeave, CommandsUnchanged, Calm, Leaves
<1>3. [x EXCEPT !.fin = "DONE", !.counted = "NO"] \in RunRecords
    BY ZenonT(30) DEF RunRecords
<1>4. PICK y \in RunRecords : y = [x EXCEPT !.fin = "DONE", !.counted = "NO"]
    BY <1>3
<1>5. run' = [run EXCEPT ![r] = y]
    BY ZenonT(30), <1>1, <1>4 DEF FinishReleases
<1>6. RecordInv(r, y)
    BY SMTT(30), <1>1, <1>2, <1>4 DEF RunRecords, Subs, Deadlines, Terminal, RecordInv, Known, Idle,
       Delivers
<1>7. Known(x) /\ x.counted = "YES" /\ active > 0
    BY <1>1, <1>2 DEF RunRecords, Subs, Deadlines, Terminal, RecordInv, Known, Idle, Delivers, Holds
<1>8. SoundStep(r, x, y)
    BY SMTT(30), <1>1, <1>2, <1>4, <1>6, <1>7 DEF RunRecords, Subs, Deadlines, Terminal, Known,
       Idle, Delivers, Holds, Executes, Weight, GateOpen, GateLive, SoundStep, Calm, Quiet, Enters, Leaves
<1>9. QED
    BY Zenon, <1>1, <1>2, <1>4, <1>5, <1>8, SoundStepKeeps DEF Only

LEMMA DeadlineKeeps ==
    ASSUME RunsInv, NEW r \in Runs, Deadline(r)
    PROVE  RunsInv'
<1>1. PICK x \in RunRecords :
          /\ x = run[r] /\ RecordInv(r, x) /\ active \in Nat
          /\ Holds(x) \/ Executes(r, x) \/ x.pubs > 0 => active > 0
    BY RecordOf
<1>2. x.deadline = "ARMED" /\ x.phase \in {"ENTERED", "REGISTERED", "OPEN"} /\ Quiet /\ Calm
    BY <1>1 DEF Deadline, IsTerminal, CommandsUnchanged, Calm, Quiet
<1>3. CASE x.phase # "OPEN"
  <2>1. [x EXCEPT !.deadline = "EARLY"] \in RunRecords
      BY ZenonT(30), Words DEF RunRecords
  <2>2. PICK y \in RunRecords : y = [x EXCEPT !.deadline = "EARLY"]
      BY <2>1
  <2>3. run' = [run EXCEPT ![r] = y]
      BY ZenonT(30), <1>1, <1>3, <2>2 DEF Deadline, IsTerminal, Terminal
  <2>4. SoundStep(r, x, y)
      BY SMTT(30), <1>1, <1>3, <1>2, <2>2 DEF RunRecords, Subs, Deadlines, Terminal, RecordInv,
         Known, Idle, Delivers, Holds, Executes, Weight, GateOpen, GateLive, SoundStep, Calm, Quiet, Enters,
         Leaves
  <2>5. QED
      BY Zenon, <1>1, <1>2, <2>2, <2>3, <2>4, SoundStepKeeps DEF Only
<1>4. CASE x.phase = "OPEN" /\ x.st \in Terminal
  <2>1. PICK s \in Subs : s = IF x.sub = "OPEN" THEN "CANCELLED" ELSE x.sub
      BY <1>1, Words DEF RunRecords, Subs, Deadlines
  <2>2. [x EXCEPT !.sub = s, !.deadline = "FIRED"] \in RunRecords
      BY ZenonT(30), Words DEF RunRecords
  <2>3. PICK y \in RunRecords : y = [x EXCEPT !.sub = s, !.deadline = "FIRED"]
      BY <2>2
  <2>4. run' = [run EXCEPT ![r] = y]
      BY ZenonT(30), <1>1, <1>4, <2>1, <2>3 DEF Deadline, IsTerminal
  <2>5. SoundStep(r, x, y)
      BY SMTT(30), <1>1, <1>4, <1>2, <2>1, <2>3 DEF RunRecords, Subs, Deadlines, Terminal,
         RecordInv, Known, Idle, Delivers, Holds, Executes, Weight, GateOpen, GateLive, SoundStep, Calm,
         Quiet, Enters, Leaves
  <2>6. QED
      BY Zenon, <1>1, <1>2, <2>3, <2>4, <2>5, SoundStepKeeps DEF Only
<1>5. CASE x.phase = "OPEN" /\ x.st \notin Terminal
  <2>1. PICK s \in Subs : s = IF x.sub = "OPEN" THEN "CANCELLED" ELSE x.sub
      BY <1>1, Words DEF RunRecords, Subs, Deadlines
  <2>2. [x EXCEPT !.sub = s, !.deadline = "FIRED"] \in RunRecords
      BY ZenonT(30), Words DEF RunRecords
  <2>3. PICK z \in RunRecords : z = Finish([x EXCEPT !.sub = s, !.deadline = "FIRED"], "FAILED")
      BY <2>2, FinishTyped, Words
  <2>4. [z EXCEPT !.fin = "EXPIRED"] \in RunRecords
      BY ZenonT(30) DEF RunRecords
  <2>5. PICK y \in RunRecords : y = [z EXCEPT !.fin = "EXPIRED"]
      BY <2>4
  <2>6. run' = [run EXCEPT ![r] = y]
      BY ZenonT(30), <1>1, <1>5, <2>1, <2>3, <2>5 DEF Deadline, IsTerminal
  <2>7. SoundStep(r, x, y)
      BY SMTT(30), <1>1, <1>5, <1>2, <2>1, <2>3, <2>5 DEF Finish, RunRecords, Subs, Deadlines,
         Terminal, RecordInv, Known, Idle, Delivers, Holds, Executes, Weight, GateOpen, GateLive, SoundStep,
         Calm, Quiet, Enters, Leaves
  <2>8. QED
      BY Zenon, <1>1, <1>2, <2>5, <2>6, <2>7, SoundStepKeeps DEF Only
<1>6. QED
    BY <1>1, <1>3, <1>4, <1>5

LEMMA CancelBeginKeeps ==
    ASSUME RunsInv, NEW r \in Runs, CancelBegin(r)
    PROVE  RunsInv'
<1>1. PICK x \in RunRecords :
          /\ x = run[r] /\ RecordInv(r, x) /\ active \in Nat
          /\ Holds(x) \/ Executes(r, x) \/ x.pubs > 0 => active > 0
    BY RecordOf
<1>2. x.phase = "OPEN" /\ x.st \notin Terminal /\ Quiet /\ Calm
    BY <1>1 DEF CancelBegin, IsTerminal, CommandsUnchanged, Calm, Quiet
<1>3. PICK s \in Subs : s = IF x.sub = "OPEN" THEN "CANCELLED" ELSE x.sub
    BY <1>1, Words DEF RunRecords, Subs, Deadlines
<1>4. [x EXCEPT !.cancel = "YES", !.sub = s] \in RunRecords
    BY ZenonT(30), Words DEF RunRecords
<1>5. PICK y \in RunRecords : y = [x EXCEPT !.cancel = "YES", !.sub = s]
    BY <1>4
<1>6. run' = [run EXCEPT ![r] = y]
    BY ZenonT(30), <1>1, <1>3, <1>5 DEF CancelBegin, IsTerminal
<1>7. SoundStep(r, x, y)
    BY SMTT(30), <1>1, <1>2, <1>3, <1>5 DEF RunRecords, Subs, Deadlines, Terminal, RecordInv, Known,
       Idle, Delivers, Holds, Executes, Weight, GateOpen, GateLive, SoundStep, Calm, Quiet, Enters, Leaves
<1>8. QED
    BY Zenon, <1>1, <1>2, <1>5, <1>6, <1>7, SoundStepKeeps DEF Only

LEMMA CancelEndKeeps ==
    ASSUME RunsInv, NEW r \in Runs, CancelEnd(r)
    PROVE  RunsInv'
<1>1. PICK x \in RunRecords :
          /\ x = run[r] /\ RecordInv(r, x) /\ active \in Nat
          /\ Holds(x) \/ Executes(r, x) \/ x.pubs > 0 => active > 0
    BY RecordOf
<1>2. x.cancel = "YES" /\ x.pump = "IDLE" /\ Quiet /\ Calm
    BY <1>1 DEF CancelEnd, CommandsUnchanged, Calm, Quiet
<1>3. [x EXCEPT !.sub = "CLOSED", !.cancel = "NO"] \in RunRecords
    BY ZenonT(30), Words DEF RunRecords
<1>4. PICK y \in RunRecords : y = Finish([x EXCEPT !.sub = "CLOSED", !.cancel = "NO"], "CANCELED")
    BY <1>3, FinishTyped, Words
<1>5. run' = [run EXCEPT ![r] = y]
    BY ZenonT(30), <1>1, <1>4 DEF CancelEnd
<1>6. RecordInv(r, y)
  <2>1. Known(x) /\ ~Delivers(x)
    BY ZenonT(30), <1>1, <1>2 DEF RecordInv, Delivers
  <2>2. CASE x.st \in Terminal
    <3>1. y = [x EXCEPT !.sub = "CLOSED", !.cancel = "NO"]
      BY <1>4, <2>2 DEF Finish, RunRecords
    <3>2. QED
      BY SMTT(30), <1>1, <2>1, <2>2, <3>1 DEF RunRecords, Subs, Deadlines, Terminal, RecordInv,
         Known, Idle, Delivers
  <2>3. CASE x.st \notin Terminal
    <3>1. y = [[x EXCEPT !.sub = "CLOSED", !.cancel = "NO"] EXCEPT !.st = "CANCELED", !.fin = "WON"]
      BY <1>4, <2>3 DEF Finish, RunRecords
    <3>2. QED
      BY SMTT(30), <1>1, <2>1, <2>3, <3>1 DEF RunRecords, Subs, Deadlines, Terminal, RecordInv,
         Known, Idle, Delivers
  <2>4. QED
    BY <2>2, <2>3
<1>7. /\ y.phase = x.phase /\ y.counted = x.counted /\ y.registered = x.registered
      /\ y.pump = x.pump /\ y.pubs = x.pubs /\ x.pubs \in Nat
    BY <1>4 DEF Finish, RunRecords, Subs, Deadlines, Terminal
<1>8. SoundStep(r, x, y)
    BY <1>1, <1>2, <1>6, <1>7 DEF Known, Delivers, Holds, Executes, Weight, GateOpen, GateLive, SoundStep,
       Calm, Quiet, Enters, Leaves
<1>9. QED
    BY Zenon, <1>1, <1>2, <1>4, <1>5, <1>8, SoundStepKeeps DEF Only

LEMMA CloseKeeps ==
    ASSUME RunsInv, NEW r \in Runs, Close(r)
    PROVE  RunsInv'
<1>1. PICK x \in RunRecords :
          /\ x = run[r] /\ RecordInv(r, x) /\ active \in Nat
          /\ Holds(x) \/ Executes(r, x) \/ x.pubs > 0 => active > 0
    BY RecordOf
<1>2. x.phase = "OPEN" /\ x.st \in Terminal /\ x.pump = "IDLE" /\ Quiet /\ Calm
    BY <1>1 DEF Close, ManagedRuns, IsTerminal, CommandsUnchanged, Calm, Quiet
<1>3. [x EXCEPT !.phase = "RELEASED", !.sub = "CLOSED", !.registered = "NO"] \in RunRecords
    BY ZenonT(30), Words DEF RunRecords
<1>4. PICK y \in RunRecords : y = [x EXCEPT !.phase = "RELEASED", !.sub = "CLOSED", !.registered = "NO"]
    BY <1>3
<1>5. run' = [run EXCEPT ![r] = y]
    BY ZenonT(30), <1>1, <1>4 DEF Close, IsTerminal
<1>6. SoundStep(r, x, y)
    BY SMTT(30), <1>1, <1>2, <1>4 DEF RunRecords, Subs, Deadlines, Terminal, RecordInv, Known, Idle,
       Delivers, Holds, Executes, Weight, GateOpen, GateLive, SoundStep, Calm, Quiet, Enters, Leaves
<1>7. QED
    BY Zenon, <1>1, <1>2, <1>4, <1>5, <1>6, SoundStepKeeps DEF Only

LEMMA StopPicksKeeps ==
    ASSUME RunsInv, NEW r \in Runs, StopPicks(r)
    PROVE  RunsInv'
<1>1. PICK x \in RunRecords :
          /\ x = run[r] /\ RecordInv(r, x) /\ active \in Nat
          /\ Holds(x) \/ Executes(r, x) \/ x.pubs > 0 => active > 0
    BY RecordOf
<1>2. x.registered = "YES" /\ stopRun' = r /\ Calm /\ active' = active
    BY <1>1 DEF StopPicks, Cancellable, Registered, Calm
<1>3. PICK s \in Subs : s = IF x.sub = "OPEN" THEN "CANCELLED" ELSE x.sub
    BY <1>1, Words DEF RunRecords, Subs, Deadlines
<1>4. [x EXCEPT !.sub = s] \in RunRecords
    BY ZenonT(30), Words DEF RunRecords
<1>5. PICK y \in RunRecords : y = [x EXCEPT !.sub = s]
    BY <1>4
<1>6. run' = [run EXCEPT ![r] = y]
    BY ZenonT(30), <1>1, <1>3, <1>5 DEF StopPicks, Cancellable
<1>7. RecordInv(r, y) /\ Known(y)
    BY SMTT(30), <1>1, <1>2, <1>3, <1>5 DEF RunRecords, Subs, Deadlines, Terminal, RecordInv, Known,
       Idle, Delivers
<1>8. SoundStep(r, x, y)
    BY SMTT(30), <1>1, <1>2, <1>3, <1>5, <1>7 DEF RecordInv, RunRecords, Subs, Deadlines, Terminal,
       Known, Idle, Delivers, Holds, Executes, Weight, GateOpen, GateLive, SoundStep, Calm, Quiet, Enters,
       Leaves
<1>9. QED
    BY Zenon, <1>1, <1>2, <1>5, <1>6, <1>8, SoundStepKeeps DEF Only

LEMMA StopClosesRunKeeps ==
    ASSUME RunsInv, StopClosesRun
    PROVE  RunsInv'
<1>0. PICK r \in Runs : r = stopRun /\ Known(run[r])
    BY DEF RunsInv, RunsType, StopInv, StopClosesRun
<1>1. PICK x \in RunRecords :
          /\ x = run[r] /\ RecordInv(r, x) /\ active \in Nat
          /\ Holds(x) \/ Executes(r, x) \/ x.pubs > 0 => active > 0
    BY <1>0, RecordOf
<1>2. x.pump = "IDLE" /\ stopRun' = "NONE" /\ Calm /\ active' = active
    BY <1>1, <1>0 DEF StopClosesRun, Calm
<1>3. CASE x.st \in Terminal
  <2>1. [x EXCEPT !.sub = "CLOSED", !.registered = "NO"] \in RunRecords
      BY ZenonT(30), Words DEF RunRecords
  <2>2. PICK y \in RunRecords : y = [x EXCEPT !.sub = "CLOSED", !.registered = "NO"]
      BY <2>1
  <2>3. run' = [run EXCEPT ![r] = y]
      BY ZenonT(30), <1>0, <1>1, <1>3, <2>2 DEF StopClosesRun
  <2>4. SoundStep(r, x, y)
      BY SMTT(30), <1>0, <1>1, <1>3, <1>2, <2>2 DEF RunRecords, Subs, Deadlines, Terminal,
         RecordInv, Known, Idle, Delivers, Holds, Executes, Weight, GateOpen, GateLive, SoundStep, Calm,
         Quiet, Enters, Leaves
  <2>5. QED
      BY Zenon, <1>1, <1>2, <2>2, <2>3, <2>4, SoundStepKeeps DEF Only
<1>4. CASE x.st \notin Terminal
  <2>1. [x EXCEPT !.sub = "CLOSED"] \in RunRecords
      BY ZenonT(30), Words DEF RunRecords
  <2>2. PICK y \in RunRecords : y = Finish([x EXCEPT !.sub = "CLOSED"], "CANCELED")
      BY <2>1, FinishTyped, Words
  <2>3. run' = [run EXCEPT ![r] = y]
      BY ZenonT(30), <1>0, <1>1, <1>4, <2>2 DEF StopClosesRun
  <2>4. SoundStep(r, x, y)
      BY SMTT(30), <1>0, <1>1, <1>4, <1>2, <2>2 DEF Finish, RunRecords, Subs, Deadlines, Terminal,
         RecordInv, Known, Idle, Delivers, Holds, Executes, Weight, GateOpen, GateLive, SoundStep, Calm,
         Quiet, Enters, Leaves
  <2>5. QED
      BY Zenon, <1>1, <1>2, <2>2, <2>3, <2>4, SoundStepKeeps DEF Only
<1>5. QED
    BY <1>1, <1>3, <1>4

LEMMA StopCancelsManagedKeeps ==
    ASSUME RunsInv, NEW r \in Runs, StopCancelsManaged(r)
    PROVE  RunsInv'
<1>1. PICK x \in RunRecords :
          /\ x = run[r] /\ RecordInv(r, x) /\ active \in Nat
          /\ Holds(x) \/ Executes(r, x) \/ x.pubs > 0 => active > 0
    BY RecordOf
<1>2. x.phase = "OPEN" /\ (x.pump = "IDLE" => x.pending = 0 \/ x.st \notin Terminal) /\ Quiet /\ Calm
    BY <1>1 DEF StopCancelsManaged, ManagedRuns, IsTerminal, Calm, Quiet
<1>3. CASE x.pump # "IDLE"
  <2>1. [x EXCEPT !.sub = "CLOSED"] \in RunRecords
      BY ZenonT(30), Words DEF RunRecords
  <2>2. PICK y \in RunRecords : y = [x EXCEPT !.sub = "CLOSED"]
      BY <2>1
  <2>3. run' = [run EXCEPT ![r] = y]
      BY ZenonT(30), <1>1, <1>3, <2>2 DEF StopCancelsManaged, IsTerminal
  <2>4. RecordInv(r, y)
      BY SMTT(30), <1>1, <1>3, <1>2, <2>2 DEF RunRecords, Subs, Deadlines, Terminal, RecordInv,
         Known, Idle, Delivers
  <2>5. SoundStep(r, x, y)
      BY SMTT(30), <1>1, <1>3, <1>2, <2>2, <2>4 DEF RunRecords, Subs, Deadlines, Terminal, Known,
         Idle, Delivers, Holds, Executes, Weight, GateOpen, GateLive, SoundStep, Calm, Quiet, Enters, Leaves
  <2>6. QED
      BY Zenon, <1>1, <1>2, <2>2, <2>3, <2>5, SoundStepKeeps DEF Only
<1>4. CASE x.pump = "IDLE" /\ x.st \in Terminal
  <2>1. [x EXCEPT !.phase = "RELEASED", !.sub = "CLOSED", !.registered = "NO"] \in RunRecords
      BY ZenonT(30), Words DEF RunRecords
  <2>2. PICK y \in RunRecords : y = [x EXCEPT !.phase = "RELEASED", !.sub = "CLOSED", !.registered = "NO"]
      BY <2>1
  <2>3. run' = [run EXCEPT ![r] = y]
      BY ZenonT(30), <1>1, <1>4, <2>2 DEF StopCancelsManaged, IsTerminal
  <2>4. SoundStep(r, x, y)
      BY SMTT(30), <1>1, <1>4, <1>2, <2>2 DEF RunRecords, Subs, Deadlines, Terminal, RecordInv,
         Known, Idle, Delivers, Holds, Executes, Weight, GateOpen, GateLive, SoundStep, Calm, Quiet, Enters,
         Leaves
  <2>5. QED
      BY Zenon, <1>1, <1>2, <2>2, <2>3, <2>4, SoundStepKeeps DEF Only
<1>5. CASE x.pump = "IDLE" /\ x.st \notin Terminal
  <2>1. [x EXCEPT !.sub = "CLOSED"] \in RunRecords
      BY ZenonT(30), Words DEF RunRecords
  <2>2. PICK y \in RunRecords : y = Finish([x EXCEPT !.sub = "CLOSED"], "CANCELED")
      BY <2>1, FinishTyped, Words
  <2>3. run' = [run EXCEPT ![r] = y]
      BY ZenonT(30), <1>1, <1>5, <2>2 DEF StopCancelsManaged, IsTerminal
  <2>4. SoundStep(r, x, y)
      BY SMTT(30), <1>1, <1>5, <1>2, <2>2 DEF Finish, RunRecords, Subs, Deadlines, Terminal,
         RecordInv, Known, Idle, Delivers, Holds, Executes, Weight, GateOpen, GateLive, SoundStep, Calm,
         Quiet, Enters, Leaves
  <2>5. QED
      BY Zenon, <1>1, <1>2, <2>2, <2>3, <2>4, SoundStepKeeps DEF Only
<1>6. QED
    BY <1>1, <1>3, <1>4, <1>5

(***************************************************************************)
(* The steps of the commands, which leave the runs and the count alone.    *)
(***************************************************************************)
LEMMA CommandKeeps ==
    ASSUME RunsInv, UNCHANGED <<run, active, stopRun>>, StopInv', RetireInv'
    PROVE  RunsInv'
<1>1. RunsType'
    BY DEF RunsInv, RunsType, Unsettled
<1>2. Exact'
    BY DEF RunsInv, Exact, Holding, Entering, InGraph, Unsettled
<1>3. QED
    BY <1>1, <1>2 DEF RunsInv

LEMMA StopBeginKeeps ==
    ASSUME RunsInv, StopBegin
    PROVE  RunsInv'
<1>1. StopInv'
    BY DEF RunsInv, StopInv, StopBegin, RunsUnchanged
<1>2. RetireInv'
    BY DEF RetireInv, StopBegin
<1>3. QED
    BY <1>1, <1>2, CommandKeeps DEF StopBegin, RunsUnchanged

LEMMA StopCancelledKeeps ==
    ASSUME RunsInv, StopCancelled
    PROVE  RunsInv'
<1>1. \A r \in Runs : Kind[r] = "CALLER" => run[r].registered = "NO"
    BY DEF RunsInv, RunsType, RunRecords, StopCancelled, Cancellable, Registered
<1>2. StopInv'
    BY <1>1 DEF RunsInv, StopInv, StopCancelled, RunsUnchanged
<1>3. RetireInv'
    BY DEF RunsInv, StopInv, RetireInv, StopCancelled, RunsUnchanged
<1>4. QED
    BY <1>2, <1>3, CommandKeeps DEF StopCancelled, RunsUnchanged

\* A managed run has been released, a caller's is out of the registry, and a value of
\* turbo_flow_publish has no deadline that could end its run before the graph is
\* through with it: whatever is still in the graph is counted.
LEMMA StopWaitsKeeps ==
    ASSUME RunsInv, StopWaits
    PROVE  RunsInv'
<1>1. ASSUME NEW r \in Runs
      PROVE  ~Delivers(run[r])
  <2>1. PICK x \in RunRecords :
            /\ x = run[r] /\ RecordInv(r, x) /\ active \in Nat
            /\ Holds(x) \/ Executes(r, x) \/ x.pubs > 0 => active > 0
    BY RecordOf
  <2>2. x.counted # "YES"
    BY <2>1 DEF StopWaits, Holds
  <2>3. Kind[r] \in {"CALLER", "MANAGED", "FACADE"}
    BY SMTT(30) DEF RunsInv, RunsType, RunsAssumption
  <2>4. CASE Kind[r] = "CALLER"
    BY ZenonT(30), <2>1, <2>4 DEF RunsInv, StopInv, StopWaits, RecordInv
  <2>5. CASE Kind[r] = "MANAGED"
    BY ZenonT(30), <2>1, <2>5 DEF StopWaits, ManagedRuns, RecordInv
  <2>6. CASE Kind[r] = "FACADE"
    <3>1. r \notin Timed
      BY <2>6 DEF RunsInv, RunsType, RunsAssumption
    <3>2. Delivers(x) => x.fin = "NO" /\ x.phase = "OPEN"
      BY ZenonT(30), <2>1, <3>1 DEF RecordInv
    <3>3. QED
      BY <2>1, <2>2, <3>2 DEF RecordInv, Known
  <2>7. QED
    BY <2>3, <2>4, <2>5, <2>6
<1>2. StopInv'
    BY <1>1 DEF RunsInv, StopInv, StopWaits, RunsUnchanged
<1>3. RetireInv'
    BY DEF RunsInv, StopInv, RetireInv, StopWaits, RunsUnchanged
<1>4. QED
    BY <1>2, <1>3, CommandKeeps DEF StopWaits, RunsUnchanged

LEMMA StopEndsKeeps ==
    ASSUME RunsInv, StopEnds
    PROVE  RunsInv'
<1>1. StopInv'
    BY DEF RunsInv, StopInv, StopEnds, RunsUnchanged
<1>2. RetireInv'
    BY DEF RetireInv, StopEnds
<1>3. QED
    BY <1>1, <1>2, CommandKeeps DEF StopEnds, RunsUnchanged

LEMMA OperatorKeeps ==
    ASSUME RunsInv, Drain \/ DrainReturns \/ Resume \/ PrepareRetire
    PROVE  RunsInv'
<1>1. UNCHANGED <<run, active, stopRun, stopper, state>> /\ operator' # "RETIRED"
    BY ZenonT(30) DEF Drain, DrainReturns, Resume, PrepareRetire, CloseGate, OpenGate, gateVars
<1>2. admission' = admission \/ (admission # "STOPPING" /\ state = "STARTED")
    BY ZenonT(30) DEF Drain, DrainReturns, Resume, PrepareRetire, CloseGate, OpenGate, gateVars, CommandStatus
<1>3. StopInv'
    BY <1>1, <1>2 DEF RunsInv, StopInv
<1>4. RetireInv'
    BY <1>1 DEF RetireInv
<1>5. QED
    BY <1>1, <1>3, <1>4, CommandKeeps

\* Idle subscriptions of managed sources hold a publication each.  When nothing else
\* is counted, no value is in the graph and none is settling.
LEMMA RetireReturnsKeeps ==
    ASSUME RunsInv, RetireReturns
    PROVE  RunsInv'
<1>1. UNCHANGED <<run, active, stopRun, stopper, state, admission>>
    BY DEF RetireReturns, gateVars
<1>2. StopInv'
    BY <1>1 DEF RunsInv, StopInv
<1>3. RetireInv'
  <2> SUFFICES ASSUME operator' = "RETIRED", NEW r \in ManagedRuns
               PROVE  ~Executes(r, run[r]) /\ run[r].pubs = 0
    BY <1>1 DEF RetireInv, ManagedRuns, Executes
  <2> DEFINE L == {q \in ManagedRuns : run[q].registered = "YES" /\ run[q].counted = "YES"}
  <2>1. active = Cardinality(L)
    BY DEF RetireReturns, Lifetimes
  <2>2. IsFiniteSet(Holding) /\ IsFiniteSet(InGraph) /\ IsFiniteSet(Unsettled)
    BY FS_Subset DEF RunsInv, Holding, InGraph, ManagedRuns, RunsType, RunsAssumption
  <2>3. L \subseteq Holding
    BY DEF Holding, ManagedRuns
  <2>4. Cardinality(L) <= Cardinality(Holding)
    BY <2>2, <2>3, FS_Subset
  <2>5. /\ Cardinality(L) \in Nat /\ Cardinality(Holding) \in Nat
        /\ Cardinality(InGraph) \in Nat /\ Cardinality(Unsettled) \in Nat
    BY <2>2, <2>3, FS_Subset, FS_CardinalityType
  <2>6. Cardinality(InGraph) = 0 /\ Cardinality(Unsettled) = 0
    BY <2>1, <2>4, <2>5 DEF RunsInv, Exact
  <2>7. InGraph = {} /\ Unsettled = {}
    BY <2>2, <2>6, FS_EmptySet
  <2>8. r \in Runs /\ run[r].pubs \in Nat
    BY DEF ManagedRuns, RunsInv, RunsType, RunRecords
  <2>9. run[r].pubs = 0
    <3>1. SUFFICES ASSUME run[r].pubs > 0 PROVE FALSE
      BY <2>8
    <3>2. <<r, 1>> \in {r} \X (1 .. run[r].pubs)
      BY <2>8, <3>1
    <3>3. QED
      BY <2>7, <2>8, <3>2 DEF Unsettled
  <2>10. QED
    BY <2>7, <2>9 DEF InGraph, Executes
<1>4. QED
    BY <1>1, <1>2, <1>3, CommandKeeps

(***************************************************************************)
(* The invariant, and the properties.                                      *)
(***************************************************************************)
LEMMA InitInv ==
    ASSUME RunsAssumption, Init
    PROVE  RunsInv
<1>1. Fresh \in RunRecords
    BY Words DEF RunsAssumption, RunRecords, Fresh
<1>2. ASSUME NEW r \in Runs
      PROVE  Opened(r) \in RunRecords
  <2>1. PICK d \in Deadlines : d = IF r \in Timed THEN "ARMED" ELSE "NONE"
    BY DEF Deadlines
  <2>2. PICK x \in RunRecords : x = Fresh
    BY <1>1
  <2>3. [x EXCEPT !.phase = "OPEN", !.registered = "YES", !.counted = "YES", !.deadline = d] \in RunRecords
    BY ZenonT(30) DEF RunRecords
  <2>4. QED
    BY <2>1, <2>2, <2>3 DEF Opened
<1>3. /\ Fresh.phase = "NONE" /\ Fresh.counted = "NO" /\ Fresh.pubs = 0 /\ Fresh.pump = "IDLE"
      /\ \A r : /\ Opened(r).phase = "OPEN" /\ Opened(r).counted = "YES"
                /\ Opened(r).pubs = 0 /\ Opened(r).pump = "IDLE"
    BY DEF Fresh, Opened
<1>4. \A r \in Runs : /\ run[r] = IF r \in ManagedRuns THEN Opened(r) ELSE Fresh
                      /\ run[r].pubs = 0 /\ run[r].pump = "IDLE"
                      /\ Holds(run[r]) <=> r \in ManagedRuns
    BY <1>3 DEF Init, Holds
<1>5. Holding = ManagedRuns /\ InGraph = {} /\ Unsettled = {}
  <2>1. Holding = ManagedRuns /\ InGraph = {}
    BY <1>4 DEF Holding, Entering, Holds, InGraph, ManagedRuns
  <2>2. \A r \in Runs : {r} \X (1 .. run[r].pubs) = {}
    BY <1>4
  <2>3. QED
    BY <2>1, <2>2 DEF Unsettled
<1>6. RunsType
  <2>1. active \in Nat
    BY FS_Subset, FS_CardinalityType DEF RunsAssumption, Init, ManagedRuns
  <2>2. IsFiniteSet(Unsettled)
    BY <1>5, FS_EmptySet
  <2>3. run \in [Runs -> RunRecords]
    BY <1>1, <1>2 DEF Init
  <2>4. QED
    BY <2>1, <2>2, <2>3 DEF RunsType, Init
<1>7. Exact
  <2>1. Cardinality(ManagedRuns) \in Nat /\ Cardinality({}) = 0
    BY FS_Subset, FS_CardinalityType, FS_EmptySet DEF RunsAssumption, ManagedRuns
  <2>2. QED
    BY <1>5, <2>1 DEF Exact, Init
<1>8. StopInv /\ RetireInv
    BY DEF Init, StopInv, RetireInv
<1>9. ASSUME NEW r \in Runs
      PROVE  RecordInv(r, run[r])
  <2>1. RecordInv(r, Fresh)
    BY DEF RecordInv, Known, Idle, Delivers, Fresh, Terminal
  <2>2. RecordInv(r, Opened(r))
    BY DEF RecordInv, Known, Idle, Delivers, Fresh, Opened, Terminal
  <2>3. QED
    BY SMTT(30), <1>4, <2>1, <2>2
<1>10. QED
    BY <1>6, <1>7, <1>8, <1>9 DEF RunsInv

LEMMA NextInv ==
    ASSUME RunsInv, SubscribeFailsWhen \cap {"DONE", "PICKED"} = {}, [Next]_vars
    PROVE  RunsInv'
<1>1. CASE UNCHANGED vars
  <2>1. StopInv' /\ RetireInv'
    BY <1>1 DEF vars, RunsInv, StopInv, RetireInv, Executes
  <2>2. QED
    BY <1>1, <2>1, CommandKeeps DEF vars
<1>2. ASSUME NEW r \in Runs,
             OpenEnter(r) \/ OpenDrains(r) \/ Request(r) \/ Deadline(r) \/ CancelBegin(r) \/ Close(r)
      PROVE  RunsInv'
    BY <1>2, OpenEnterKeeps, OpenDrainsKeeps, RequestKeeps, DeadlineKeeps, CancelBeginKeeps, CloseKeeps
<1>3. ASSUME NEW r \in Runs, RunStep(r)
      PROVE  RunsInv'
    BY SMTT(30), <1>3, OpenRegisterKeeps, OpenRefusedSound, OpenSubscribesKeeps, OpenSubscribeFailsKeeps,
       ValueArrivesKeeps, ValueEntersKeeps, ValueTrackedKeeps, ValueRefusedKeeps, ValueEndsKeeps, OnErrorKeeps,
       OnDoneKeeps, AsyncValueEndsKeeps, AsyncFailureEndsKeeps, PublicationLeavesKeeps,
       FinishRemovesKeeps, FinishReleasesKeeps, CancelEndKeeps DEF RunStep
<1>4. CASE StopBegin \/ StopStep
    BY <1>4, StopBeginKeeps, StopPicksKeeps, StopCancelsManagedKeeps, StopClosesRunKeeps,
       StopCancelledKeeps, StopWaitsKeeps, StopEndsKeeps DEF StopStep
<1>5. CASE Drain \/ DrainReturns \/ Resume \/ PrepareRetire \/ RetireReturns
    BY <1>5, OperatorKeeps, RetireReturnsKeeps
<1>6. QED
    BY <1>1, <1>2, <1>3, <1>4, <1>5 DEF Next

LEMMA InvActive == RunsInv => ActiveExact
    BY DEF RunsInv, Exact, ActiveExact

LEMMA InvStop == RunsInv => StopWaitsForValues
<1> SUFFICES ASSUME RunsInv, stopper \in {"RELEASING", "DONE"}, NEW r \in Runs
             PROVE  run[r].pump \notin {"ENTERED", "REGION"} /\ run[r].pubs = 0
    BY DEF StopWaitsForValues
<1>1. active = 0 /\ ~Delivers(run[r])
    BY DEF RunsInv, StopInv
<1>2. ~(run[r].pubs > 0)
    BY <1>1, Held DEF RunsInv
<1>3. run[r].pubs \in Nat
    BY DEF RunsInv, RunsType, RunRecords
<1>4. QED
    BY <1>1, <1>2, <1>3 DEF Delivers

LEMMA InvRetire == RunsInv => RetireQuiet
    BY DEF RunsInv, RetireInv, RetireQuiet, Executes
=============================================================================
