------------------------- MODULE InboxDriverProofs -------------------------
(***************************************************************************)
(* The drivers of an Inbox, for any number of drivers, owners, records and *)
(* faults: nothing executes for a claim that was settled, a driver reports *)
(* what became of its claim, and no claim is abandoned.                    *)
(*                                                                         *)
(* A driver and the provider's ledger agree on a claim until the provider  *)
(* has decided it (ClaimInv); from then on the phase of the driver tells   *)
(* how it was decided, unless another owner has taken the store over.      *)
(* Tokens are never issued twice, so a claim belongs to one driver         *)
(* (TokenInv), and a driver settles only when nothing runs any more        *)
(* (RunInv).                                                               *)
(***************************************************************************)
EXTENDS InboxDriver, TLAPS

Phases == {"IDLE", "GRAPH_RUNNING", "SETTLE_COMPLETE", "SETTLE_FAIL", "SETTLE_UNKNOWN"}
Calls == {"NONE", "SETTLE", "SCAN_HISTORY"}
RunStates == {"NONE", "ACTIVE"} \cup Ended
Outcomes == {"NONE", "LOST", "COMPLETED", "FAILED"}

TypeInv ==
    /\ ledger \in [Ids -> States]
    /\ lease \in [Ids -> Tokens \cup {0}]
    /\ issued \in Nat
    /\ owner \in Nat
    /\ phase \in [Drivers -> Phases]
    /\ record \in [Drivers -> Ids \cup {0}]
    /\ token \in [Drivers -> Tokens \cup {0}]
    /\ graphStatus \in [Drivers -> Errors \cup {"OK", "EIO", "ECANCELED"}]
    /\ requestFailure \in [Drivers -> Errors \cup {"OK"}]
    /\ call \in [Drivers -> Calls]
    /\ run \in [Tokens -> RunStates]
    /\ pending \in SUBSET Tokens
    /\ outcome \in [Tokens -> Outcomes]
    /\ report \in [Tokens -> Outcomes \cup {"OWNER_LOST"}]

Issued(t) == t <= issued
Holds(d) == phase[d] # "IDLE"

(* A driver that holds a claim has a token of its own, which was issued, and
   its owner has been there; nothing has happened to other tokens. *)
TokenInv ==
    /\ \A d \in Drivers : Holds(d) =>
          token[d] \in Tokens /\ Issued(token[d]) /\ record[d] \in Ids /\ HostOf[d] <= owner
    /\ \A d, e \in Drivers : Holds(d) /\ Holds(e) /\ token[d] = token[e] => d = e
    /\ \A t \in Tokens : ~Issued(t) => ~Executing(t) /\ outcome[t] = "NONE" /\ report[t] = "NONE"

PhaseInv ==
    \A d \in Drivers :
        /\ phase[d] = "SETTLE_COMPLETE" => graphStatus[d] = "OK"
        /\ phase[d] = "SETTLE_FAIL" => graphStatus[d] # "OK"
        /\ call[d] = "SETTLE" => phase[d] \in {"SETTLE_COMPLETE", "SETTLE_FAIL"}
        /\ call[d] = "SCAN_HISTORY" => phase[d] = "SETTLE_UNKNOWN"

(* The claim of driver d is the record's current one, ... *)
Current(d) ==
    /\ outcome[token[d]] = "NONE" /\ phase[d] # "SETTLE_UNKNOWN" /\ ~Fenced(d)
    /\ ledger[record[d]] = "CLAIMED" /\ lease[record[d]] = token[d]

(* ... was lost with an owner that was replaced, ... *)
Lost(d) == outcome[token[d]] = "LOST" /\ phase[d] # "SETTLE_UNKNOWN" /\ HostOf[d] < owner

(* ... or was decided by the provider as the driver asked. *)
Decided(d) ==
    /\ phase[d] # "GRAPH_RUNNING"
    /\ outcome[token[d]] = IF graphStatus[d] = "OK" THEN "COMPLETED" ELSE "FAILED"

ClaimInv ==
    /\ \A d \in Drivers : Holds(d) => Current(d) \/ Lost(d) \/ Decided(d)
    /\ \A i \in Ids : ledger[i] = "CLAIMED" =>
          \E d \in Drivers : Holds(d) /\ record[d] = i /\ token[d] = lease[i] /\ Current(d)

RunInv ==
    /\ \A d \in Drivers : phase[d] \notin {"IDLE", "GRAPH_RUNNING"} => ~Executing(token[d])
    /\ NoRunAfterSettlement

IInv == TypeInv /\ TokenInv /\ PhaseInv /\ ClaimInv /\ RunInv /\ ReportsTrue

-----------------------------------------------------------------------------
(* Steps of the surroundings: none of them touches a claim that is held. *)

(* A step of the ledger that leaves the claimed records alone. *)
LEMMA LedgerMoves ==
    ASSUME IInv, ledger' \in [Ids -> States],
           \A i \in Ids : ledger'[i] = "CLAIMED" <=> ledger[i] = "CLAIMED",
           UNCHANGED <<lease, issued, driver, graph, owner, history>>
    PROVE  IInv'
<1> USE DEF IInv, driver, graph, history
<1>1. TypeInv' /\ PhaseInv' /\ ReportsTrue'
    BY ZenonT(30) DEF TypeInv, PhaseInv, ReportsTrue
<1>2. TokenInv' /\ RunInv'
    BY ZenonT(30) DEF TokenInv, Issued, Holds, Executing, RunInv, NoRunAfterSettlement
<1>3. ClaimInv'
  <2>1. \A d \in Drivers : Holds(d) =>
           (Current(d) => Current(d)') /\ (Lost(d) => Lost(d)') /\ (Decided(d) => Decided(d)')
      BY ZenonT(30) DEF TokenInv, Current, Lost, Decided, Fenced
  <2>2. \A d \in Drivers : Holds(d)' = Holds(d) /\ record'[d] = record[d] /\ token'[d] = token[d]
      BY Zenon DEF Holds
  <2>3. QED
      BY ZenonT(30), <2>1, <2>2 DEF ClaimInv
<1>4. QED
    BY <1>1, <1>2, <1>3

LEMMA AdmitKeeps ==
    ASSUME IInv, NEW i \in Ids, NEW o \in Offers, Admit(i, o)
    PROVE  IInv'
<1>1. /\ ledger' \in [Ids -> States]
      /\ \A j \in Ids : ledger'[j] = "CLAIMED" <=> ledger[j] = "CLAIMED"
    BY DEF IInv, TypeInv, States, Admit, AdmitRecord
<1>2. QED
    BY Zenon, <1>1, LedgerMoves DEF Admit, AdmitRecord

LEMMA OperatorKeeps ==
    ASSUME IInv, NEW i \in Ids, Operator(i)
    PROVE  IInv'
<1>1. /\ ledger' \in [Ids -> States]
      /\ \A j \in Ids : ledger'[j] = "CLAIMED" <=> ledger[j] = "CLAIMED"
    BY DEF IInv, TypeInv, States, Operator, RetryRecord, DiscardRecord, ForgetRecord
<1>2. QED
    BY Zenon, <1>1, LedgerMoves DEF Operator, RetryRecord, DiscardRecord, ForgetRecord

(* A step of the Graph runs that starts none. *)
LEMMA GraphMoves ==
    ASSUME IInv, run' \in [Tokens -> RunStates], pending' \in SUBSET Tokens,
           \A t \in Tokens : Executing(t)' => Executing(t),
           UNCHANGED <<ledgerVars, driver, owner, history>>
    PROVE  IInv'
<1> USE DEF IInv, ledgerVars, driver, history
<1>1. TypeInv' /\ PhaseInv' /\ ReportsTrue'
    BY ZenonT(30) DEF TypeInv, PhaseInv, ReportsTrue
<1>2. TokenInv'
    BY ZenonT(30) DEF TokenInv, Issued, Holds
<1>3. ClaimInv'
  <2>1. \A d \in Drivers : /\ Holds(d)' = Holds(d)
                          /\ Current(d)' = Current(d)
                          /\ Lost(d)' = Lost(d)
                          /\ Decided(d)' = Decided(d)
      BY ZenonT(30) DEF Holds, Current, Lost, Decided, Fenced
  <2>2. QED
      BY ZenonT(30), <2>1 DEF ClaimInv
<1>4. RunInv'
    BY DEF TypeInv, Phases, TokenInv, Holds, RunInv, NoRunAfterSettlement
<1>5. QED
    BY <1>1, <1>2, <1>3, <1>4

LEMMA GraphStepsKeep ==
    ASSUME IInv,
           \/ \E a : SetAdmission(a)
           \/ \E t \in Tokens : ValueBegins(t) \/ ValueEnds(t)
           \/ \E t \in Tokens, state \in {"COMPLETED", "FAILED"} : RunEnds(t, state)
    PROVE  IInv'
<1> USE DEF SetAdmission, ValueBegins, ValueEnds, RunEnds
<1>1. run' \in [Tokens -> RunStates] /\ pending' \in SUBSET Tokens
    BY DEF IInv, TypeInv, RunStates, Ended
<1>2. \A t \in Tokens : Executing(t)' => Executing(t)
    BY DEF IInv, TypeInv, Executing
<1>3. QED
    BY ZenonT(30), <1>1, <1>2, GraphMoves

(* A new owner: the claims of its predecessor are lost, and their drivers are
   fenced. *)
LEMMA TakeOverKeeps ==
    ASSUME IInv, TakeOver
    PROVE  IInv'
<1> USE DEF IInv, driver, graph
<1>1. /\ ledger' = [i \in Ids |-> IF ledger[i] = "CLAIMED" THEN "LOST" ELSE ledger[i]]
      /\ lease' = [i \in Ids |-> 0] /\ owner' = owner + 1
      /\ UNCHANGED <<issued, driver, graph, report>>
    BY Zenon DEF TakeOver, TakeOverLedger
<1>2. \A t \in Tokens :
         outcome'[t] = IF \E i \in Ids : lease[i] = t /\ ledger[i] = "CLAIMED"
                       THEN "LOST" ELSE outcome[t]
    BY DEF TakeOver
<1>3. \A t \in Tokens : \/ outcome'[t] = outcome[t]
                       \/ (outcome'[t] = "LOST" /\ outcome[t] = "NONE" /\ Issued(t))
  <2>1. \A t \in Tokens, i \in Ids : lease[i] = t /\ ledger[i] = "CLAIMED" =>
           outcome[t] = "NONE" /\ Issued(t)
    <3>1. SUFFICES ASSUME NEW i \in Ids, ledger[i] = "CLAIMED"
                   PROVE  outcome[lease[i]] = "NONE" /\ Issued(lease[i])
        BY Zenon
    <3>2. PICK d \in Drivers : Holds(d) /\ token[d] = lease[i] /\ Current(d)
        BY Zenon, <3>1 DEF ClaimInv
    <3>3. Issued(token[d]) /\ outcome[token[d]] = "NONE"
        BY Zenon, <3>2 DEF TokenInv, Current
    <3>4. QED
        BY Zenon, <3>2, <3>3
  <2>2. QED
      BY ZenonT(30), <1>2, <2>1
<1>4. TypeInv'
    BY <1>1 DEF TakeOver, TypeInv, States, Outcomes
<1>5. TokenInv'
  <2>1. \A d \in Drivers : HostOf[d] <= owner => HostOf[d] <= owner'
      BY <1>1, DriverAssumption DEF TypeInv
  <2>2. QED
      BY ZenonT(30), <1>1, <1>3, <2>1 DEF TokenInv, Issued, Holds, Executing
<1>6. PhaseInv'
    BY Zenon, <1>1 DEF PhaseInv
<1>7. ClaimInv'
  <2>1. \A d \in Drivers : HostOf[d] <= owner => HostOf[d] < owner'
      BY <1>1, DriverAssumption DEF TypeInv
  <2>2. \A d \in Drivers : Holds(d) /\ Current(d) => outcome'[token[d]] = "LOST"
      BY <1>2 DEF TokenInv, Current
  <2>3. \A d \in Drivers : Holds(d) /\ ~Current(d) =>
           outcome'[token[d]] = outcome[token[d]] /\ outcome[token[d]] # "NONE"
      BY ZenonT(30), <1>3 DEF TokenInv, ClaimInv, Lost, Decided
  <2>4. \A d \in Drivers : Holds(d)' => Lost(d)' \/ Decided(d)'
      BY <1>1, <2>1, <2>2, <2>3 DEF TokenInv, ClaimInv, Holds, Current, Lost, Decided
  <2>5. \A i \in Ids : ledger'[i] # "CLAIMED"
      BY <1>1
  <2>6. QED
      BY Zenon, <2>4, <2>5 DEF ClaimInv
<1>8. RunInv' /\ ReportsTrue'
    BY ZenonT(30), <1>1, <1>3 DEF RunInv, NoRunAfterSettlement, Executing, ReportsTrue
<1>9. QED
    BY <1>4, <1>5, <1>6, <1>7, <1>8

-----------------------------------------------------------------------------
(* Claims. *)

(* A claim takes a pending record, under a token that was never used. *)
LEMMA Claimed ==
    ASSUME IInv, NEW i \in Ids, NEW excluded, ClaimRecord(i, excluded)
    PROVE  /\ ledger[i] # "CLAIMED" /\ ledger' = [ledger EXCEPT ![i] = "CLAIMED"]
           /\ \E new \in Tokens :
                 /\ new = issued' /\ new \in Nat
                 /\ lease' = [lease EXCEPT ![i] = new]
                 /\ ~Issued(new)
                 /\ ~Executing(new) /\ outcome[new] = "NONE" /\ report[new] = "NONE"
                 /\ \A t \in Tokens : Issued(t)' <=> Issued(t) \/ t = new
<1>1. ledger[i] = "PENDING" /\ issued' = issued + 1 /\ issued' \in Tokens /\ issued \in Nat
    BY DEF IInv, TypeInv, ClaimRecord, Eligible, StoredIn
<1>2. PICK new \in Tokens : new = issued'
    BY <1>1
<1>3. new \in Nat /\ ~Issued(new) /\ \A t \in Tokens : Issued(t)' <=> Issued(t) \/ t = new
    BY <1>1, <1>2, DriverAssumption DEF Issued
<1>4. ~Executing(new) /\ outcome[new] = "NONE" /\ report[new] = "NONE"
    BY Zenon, <1>3 DEF IInv, TokenInv
<1>5. QED
    BY Zenon, <1>1, <1>2, <1>3, <1>4 DEF ClaimRecord

LEMMA RequestsKeep ==
    ASSUME IInv, NEW d \in Drivers, NEW draining, NEW excluded,
           \/ Request(d, draining, excluded)
           \/ \E e \in Errors : RequestFails(d, draining, excluded, e)
    PROVE  IInv'
<1> USE DEF IInv
<1>1. PICK i \in Ids : ClaimRecord(i, excluded) /\ record' = [record EXCEPT ![d] = i]
    BY Zenon DEF Request, RequestFails
<1>2. ledger[i] # "CLAIMED" /\ ledger' = [ledger EXCEPT ![i] = "CLAIMED"]
    BY Zenon, <1>1, Claimed
<1>3. PICK new \in Tokens :
        /\ new = issued' /\ new \in Nat
        /\ lease' = [lease EXCEPT ![i] = new]
        /\ ~Issued(new)
        /\ ~Executing(new) /\ outcome[new] = "NONE" /\ report[new] = "NONE"
        /\ \A t \in Tokens : Issued(t)' <=> Issued(t) \/ t = new
    BY Zenon, <1>1, Claimed
<1>4. /\ phase[d] = "IDLE" /\ ~Fenced(d)
      /\ token' = [token EXCEPT ![d] = new]
      /\ UNCHANGED <<requestFailure, pending, owner, outcome, report>>
    BY Zenon, <1>3 DEF Request, RequestFails, MayRequest, graph, history
<1>5. \/ /\ phase' = [phase EXCEPT ![d] = "GRAPH_RUNNING"]
         /\ run' = [run EXCEPT ![new] = "ACTIVE"]
         /\ UNCHANGED <<graphStatus, call>>
      \/ /\ phase' = [phase EXCEPT ![d] = "SETTLE_FAIL"]
         /\ \E e \in Errors : graphStatus' = [graphStatus EXCEPT ![d] = e]
         /\ call' = [call EXCEPT ![d] = "SETTLE"]
         /\ UNCHANGED run
    BY ZenonT(30), <1>3 DEF Request, RequestFails, graph
<1>6. TypeInv'
    BY <1>1, <1>2, <1>3, <1>4, <1>5 DEF TypeInv, Phases, Calls, RunStates, States
<1>7. PhaseInv'
    BY <1>4, <1>5, DriverAssumption DEF TypeInv, PhaseInv, Calls
<1>8. /\ \A x \in Drivers \ {d} :
            /\ Holds(x)' = Holds(x) /\ phase'[x] = phase[x] /\ graphStatus'[x] = graphStatus[x]
            /\ token'[x] = token[x] /\ record'[x] = record[x]
      /\ Holds(d)' /\ token'[d] = new /\ record'[d] = i /\ HostOf[d] <= owner
      /\ phase'[d] # "SETTLE_UNKNOWN"
    BY <1>1, <1>4, <1>5, DriverAssumption DEF TypeInv, Holds, Fenced
<1>9. \A t \in Tokens : t # new => Executing(t)' = Executing(t)
    BY <1>4, <1>5 DEF TypeInv, Executing
<1>10. TokenInv'
  <2>1. /\ \A x \in Drivers : Holds(x)' =>
              token'[x] \in Tokens /\ record'[x] \in Ids /\ HostOf[x] <= owner'
        /\ \A x, y \in Drivers : Holds(x)' /\ Holds(y)' /\ token'[x] = token'[y] => x = y
      BY <1>3, <1>4, <1>8 DEF TokenInv
  <2>2. \A x \in Drivers : Holds(x)' => Issued(token[x])'
      BY ZenonT(30), <1>3, <1>8 DEF TokenInv, Issued
  <2>3. \A t \in Tokens : ~Issued(t)' => ~Executing(t)' /\ outcome'[t] = "NONE" /\ report'[t] = "NONE"
      BY ZenonT(30), <1>3, <1>4, <1>9 DEF TokenInv
  <2>4. QED
      BY <2>1, <2>2, <2>3 DEF TokenInv
<1>11. ClaimInv'
  <2>1. Current(d)'
      BY <1>2, <1>3, <1>4, <1>8 DEF TypeInv, Current, Fenced
  <2>2. \A x \in Drivers \ {d} : Holds(x) /\ Current(x) => Current(x)'
      BY <1>2, <1>3, <1>4, <1>8 DEF TypeInv, TokenInv, Current, Fenced
  <2>3. \A x \in Drivers \ {d} : (Lost(x) => Lost(x)') /\ (Decided(x) => Decided(x)')
      BY ZenonT(30), <1>4, <1>8 DEF Lost, Decided
  <2>4. \A j \in Ids \ {i} : ledger'[j] = ledger[j] /\ lease'[j] = lease[j]
      BY <1>2, <1>3 DEF TypeInv
  <2>5. lease'[i] = new
      BY <1>3 DEF TypeInv
  <2>6. \A j \in Ids : ledger'[j] = "CLAIMED" =>
           \E x \in Drivers : Holds(x)' /\ record'[x] = j /\ token'[x] = lease'[j] /\ Current(x)'
      BY <1>4, <1>8, <2>1, <2>2, <2>4, <2>5 DEF ClaimInv, Holds
  <2>7. QED
      BY <1>8, <2>1, <2>2, <2>3, <2>6 DEF ClaimInv
<1>12. RunInv'
  <2>1. \A t \in Tokens : Executing(t)' => t = new \/ Executing(t)
      BY Zenon, <1>9
  <2>2. phase'[d] = "GRAPH_RUNNING" \/ ~Executing(new)'
      BY <1>3, <1>4, <1>5 DEF TypeInv, Executing
  <2>3. \A x \in Drivers \ {d} : Holds(x) => token[x] # new /\ token[x] \in Tokens
      BY <1>3 DEF TokenInv
  <2>4. \A x \in Drivers : phase'[x] \notin {"IDLE", "GRAPH_RUNNING"} => ~Executing(token[x])'
    <3>1. TAKE x \in Drivers
    <3>2. CASE x = d
        BY ZenonT(30), <1>8, <2>2, <3>2 DEF Executing
    <3>3. CASE x # d
      <4>1. phase[x] \notin {"IDLE", "GRAPH_RUNNING"} =>
               ~Executing(token[x]) /\ token[x] # new /\ token[x] \in Tokens
          BY ZenonT(30), <2>3, <3>3 DEF RunInv, Holds
      <4>2. phase[x] \notin {"IDLE", "GRAPH_RUNNING"} => Executing(token[x])' = Executing(token[x])
          BY ZenonT(30), <1>8, <1>9, <3>3, <4>1 DEF Executing
      <4>3. QED
          BY ZenonT(30), <1>8, <3>3, <4>1, <4>2
    <3>4. QED
        BY <3>2, <3>3
  <2>5. NoRunAfterSettlement'
      BY ZenonT(30), <1>3, <1>4, <2>1 DEF RunInv, NoRunAfterSettlement
  <2>6. QED
      BY <2>4, <2>5 DEF RunInv
<1>13. ReportsTrue'
    BY Zenon, <1>4 DEF ReportsTrue
<1>14. QED
    BY <1>6, <1>7, <1>10, <1>11, <1>12, <1>13

-----------------------------------------------------------------------------
(* Steps of the driver that holds a claim. *)

(* The driver moves on and keeps its claim. *)
LEMMA DriverMoves ==
    ASSUME IInv, TypeInv', NEW d \in Drivers, Holds(d), Holds(d)',
           UNCHANGED <<ledgerVars, record, token, owner, history>>,
           \A x \in Drivers \ {d} :
               /\ phase'[x] = phase[x] /\ graphStatus'[x] = graphStatus[x] /\ call'[x] = call[x],
           \A t \in Tokens : Executing(t)' => Executing(t),
           phase'[d] = "GRAPH_RUNNING" \/ ~Executing(token[d])',
           Current(d)' \/ Lost(d)' \/ Decided(d)',
           phase'[d] = "SETTLE_COMPLETE" => graphStatus'[d] = "OK",
           phase'[d] = "SETTLE_FAIL" => graphStatus'[d] # "OK",
           call'[d] = "SETTLE" => phase'[d] \in {"SETTLE_COMPLETE", "SETTLE_FAIL"},
           call'[d] = "SCAN_HISTORY" => phase'[d] = "SETTLE_UNKNOWN",
           Current(d) => Current(d)'
    PROVE  IInv'
<1> USE DEF IInv, ledgerVars, history
<1> \A x \in Drivers : Holds(x)' = Holds(x)
    BY ZenonT(30) DEF Holds
<1>1. TokenInv'
    BY ZenonT(30) DEF TokenInv, Issued
<1>2. PhaseInv'
    BY ZenonT(30) DEF PhaseInv
<1>3. ClaimInv'
  <2>1. \A x \in Drivers \ {d} : /\ Current(x) => Current(x)'
                                 /\ Lost(x) => Lost(x)'
                                 /\ Decided(x) => Decided(x)'
      BY ZenonT(30) DEF Current, Fenced, Lost, Decided
  <2>2. QED
      BY ZenonT(30), <2>1 DEF ClaimInv
<1>4. RunInv'
    BY ZenonT(30) DEF TokenInv, RunInv, NoRunAfterSettlement, Holds
<1>5. ReportsTrue'
    BY ZenonT(30) DEF ReportsTrue
<1>6. QED
    BY <1>1, <1>2, <1>3, <1>4, <1>5

LEMMA OutcomeStatus ==
    ASSUME NEW state \in RunStates, NEW failed \in Errors \cup {"OK"}
    PROVE  GraphOutcome(state, failed) \in Errors \cup {"OK", "EIO", "ECANCELED"}
  BY DEF GraphOutcome, RunStatus, RunStates, Ended

(* poll and cancel, of a run that may have ended in the meantime. *)
LEMMA PollsKeep ==
    ASSUME IInv, NEW d \in Drivers,
           Poll(d) \/ \E e \in Errors, state \in Ended : Cancel(d, e, state)
    PROVE  IInv'
<1> USE DEF IInv
<1>1. PICK state \in RunStates, failed \in Errors \cup {"OK"} :
        /\ phase[d] = "GRAPH_RUNNING" /\ PollRun(d, state, failed)
        /\ run' = [run EXCEPT ![token[d]] = state]
        /\ run[token[d]] = "ACTIVE" \/ run[token[d]] = state
        /\ state # "ACTIVE" \/ run' = run
        /\ requestFailure' \in [Drivers -> Errors \cup {"OK"}]
        /\ UNCHANGED <<ledgerVars, record, token, pending, owner, history>>
  <2>1. token[d] \in Tokens \/ phase[d] = "IDLE"
      BY Zenon DEF TokenInv, Holds
  <2>2. CASE Poll(d)
    <3>1. phase[d] = "GRAPH_RUNNING" /\ PollRun(d, run[token[d]], requestFailure[d])
        BY Zenon, <2>2 DEF Poll
    <3>2. /\ UNCHANGED <<ledgerVars, record, token, requestFailure, run, pending, owner, history>>
        BY Zenon, <2>2 DEF Poll, graph
    <3>3. run[token[d]] \in RunStates /\ requestFailure[d] \in Errors \cup {"OK"}
        BY <2>1, <3>1 DEF TypeInv
    <3>4. run' = [run EXCEPT ![token[d]] = run[token[d]]]
        BY <3>2 DEF TypeInv
    <3>5. QED
        BY ZenonT(30), <3>1, <3>2, <3>3, <3>4 DEF TypeInv
  <2>3. CASE \E e \in Errors, state \in Ended : Cancel(d, e, state)
    <3>1. PICK e \in Errors, state \in Ended : Cancel(d, e, state)
        BY Zenon, <2>3
    <3>2. state \in RunStates /\ state # "ACTIVE" /\ e \in Errors \cup {"OK"}
        BY DEF RunStates, Ended
    <3>3. requestFailure' \in [Drivers -> Errors \cup {"OK"}]
        BY <3>1 DEF Cancel, TypeInv
    <3>4. QED
        BY Zenon, <3>1, <3>2, <3>3 DEF Cancel
  <2>4. QED
      BY Zenon, <2>2, <2>3
<1>2. Holds(d) /\ token[d] \in Tokens
    BY ZenonT(30), <1>1 DEF TokenInv, Holds
<1>3. \A t \in Tokens : Executing(t)' => Executing(t)
    BY <1>1, <1>2 DEF TypeInv, Executing
<1>4. GraphOutcome(state, failed) \in Errors \cup {"OK", "EIO", "ECANCELED"}
    BY OutcomeStatus
<1>5. CASE ~Concluded(state, token[d])
  <2>1. UNCHANGED <<graphStatus, phase, call>>
      BY Zenon, <1>1, <1>5 DEF PollRun
  <2>2. TypeInv'
      BY <1>1, <1>2, <2>1 DEF TypeInv, ledgerVars, history
  <2>3. QED
      BY ZenonT(30), <1>1, <1>2, <1>3, <2>1, <2>2, DriverMoves
         DEF ClaimInv, PhaseInv, Holds, Current, Fenced, Lost, Decided, ledgerVars, history
<1>6. CASE Concluded(state, token[d])
  <2>1. /\ graphStatus' = [graphStatus EXCEPT ![d] = GraphOutcome(state, failed)]
        /\ phase' = [phase EXCEPT ![d] = IF GraphOutcome(state, failed) = "OK"
                                         THEN "SETTLE_COMPLETE" ELSE "SETTLE_FAIL"]
        /\ call' = [call EXCEPT ![d] = "SETTLE"]
      BY Zenon, <1>1, <1>6 DEF PollRun
  <2>2. TypeInv'
      BY <1>1, <1>2, <1>4, <2>1 DEF TypeInv, ledgerVars, history, Phases, Calls
  <2>3. /\ phase'[d] \in {"SETTLE_COMPLETE", "SETTLE_FAIL"} /\ call'[d] = "SETTLE"
        /\ phase'[d] = "SETTLE_COMPLETE" <=> graphStatus'[d] = "OK"
        /\ \A x \in Drivers \ {d} :
              phase'[x] = phase[x] /\ graphStatus'[x] = graphStatus[x] /\ call'[x] = call[x]
      BY <2>1 DEF TypeInv
  <2>4. ~Executing(token[d])'
      BY <1>1, <1>2, <1>6 DEF TypeInv, Concluded, Ended, Executing
  <2>5. (Current(d) => Current(d)') /\ (Lost(d) => Lost(d)') /\ ~Decided(d)
      BY ZenonT(30), <1>1, <2>3 DEF Current, Fenced, Lost, Decided, ledgerVars, history
  <2>6. QED
      BY ZenonT(30), <1>1, <1>2, <1>3, <2>2, <2>3, <2>4, <2>5, DriverMoves DEF ClaimInv, Holds
<1>7. QED
    BY <1>5, <1>6

(* A provider call that has no effect, and the calls that begin one. *)
LEMMA WaitsKeep ==
    ASSUME IInv, NEW d \in Drivers,
           \/ SettleError(d) \/ SettleStale(d) \/ RetrySettlement(d)
           \/ ReconcileScanFailed(d) \/ ReconcileError(d)
           \/ /\ call[d] = "SCAN_HISTORY" /\ Retain(d, "SETTLE_UNKNOWN")
              /\ UNCHANGED <<ledgerVars, graph, owner, outcome>>
    PROVE  IInv'
<1> USE DEF IInv, SettleError, SettleStale, RetrySettlement, ReconcileScanFailed, ReconcileError, Retain
<1>1. UNCHANGED <<ledgerVars, record, token, graphStatus, requestFailure, graph, owner, history>>
    BY ZenonT(30) DEF history
<1>2. /\ \A x \in Drivers \ {d} : phase'[x] = phase[x] /\ call'[x] = call[x]
      /\ phase'[d] = phase[d] \/ (SettleStale(d) /\ phase'[d] = "SETTLE_UNKNOWN")
      /\ phase[d] \in {"SETTLE_COMPLETE", "SETTLE_FAIL", "SETTLE_UNKNOWN"}
      /\ phase' \in [Drivers -> Phases] /\ call' \in [Drivers -> Calls]
      /\ call'[d] = "SETTLE" => phase'[d] \in {"SETTLE_COMPLETE", "SETTLE_FAIL"}
      /\ call'[d] = "SCAN_HISTORY" => phase'[d] = "SETTLE_UNKNOWN"
    BY DEF TypeInv, PhaseInv, Phases, Calls
<1>3. SettleStale(d) => Decided(d)
    BY <1>2, DriverAssumption DEF TypeInv, TokenInv, ClaimInv, PhaseInv, Holds, Current, Lost, Decided, Fenced
<1>4. TypeInv'
    BY ZenonT(30), <1>1, <1>2 DEF TypeInv, ledgerVars, graph, history
<1>5. /\ Holds(d) /\ Holds(d)'
      /\ phase'[d] = "SETTLE_COMPLETE" => graphStatus'[d] = "OK"
      /\ phase'[d] = "SETTLE_FAIL" => graphStatus'[d] # "OK"
    BY <1>1, <1>2 DEF PhaseInv, Holds
<1>6. /\ Current(d)' \/ Lost(d)' \/ Decided(d)'
      /\ Current(d) => Current(d)'
    BY ZenonT(30), <1>1, <1>2, <1>3, <1>5 DEF ClaimInv, Current, Lost, Decided, Fenced, ledgerVars, history
<1>7. /\ \A t \in Tokens : Executing(t)' => Executing(t)
      /\ ~Executing(token[d])'
    BY <1>1, <1>2 DEF RunInv, Executing, graph
<1>8. QED
    BY ZenonT(30), <1>1, <1>2, <1>4, <1>5, <1>6, <1>7, DriverMoves

(* The driver lets go of a claim that is decided. *)
LEMMA Releases ==
    ASSUME IInv, NEW d \in Drivers, NEW r, Release(d, r), Holds(d),
           UNCHANGED <<ledgerVars, graph, owner, outcome>>,
           outcome[token[d]] # "NONE",
           r = "OWNER_LOST" \/ (r \in {"COMPLETED", "FAILED"} /\ outcome[token[d]] = r)
    PROVE  IInv'
<1> USE DEF IInv, ledgerVars, graph
<1>1. /\ \A x \in Drivers \ {d} : /\ phase'[x] = phase[x] /\ graphStatus'[x] = graphStatus[x]
                                  /\ call'[x] = call[x] /\ token'[x] = token[x] /\ record'[x] = record[x]
      /\ phase'[d] = "IDLE" /\ call'[d] = "NONE"
    BY DEF TypeInv, Release
<1>2. token[d] \in Tokens
    BY Zenon DEF TokenInv
<1>3. \A t \in Tokens : report'[t] = IF t = token[d] THEN r ELSE report[t]
    BY <1>2 DEF TypeInv, Release
<1>4. TypeInv'
    BY <1>2 DEF TypeInv, Release, Phases, Calls, Outcomes
<1>5. TokenInv'
  <2>1. \A x \in Drivers : Holds(x)' => x # d /\ Holds(x)
      BY ZenonT(30), <1>1 DEF Holds
  <2>2. \A t \in Tokens : ~Issued(t) => t # token[d]
      BY Zenon DEF TokenInv
  <2>3. \A t \in Tokens : ~Issued(t)' => ~Executing(t)' /\ outcome'[t] = "NONE" /\ report'[t] = "NONE"
      BY ZenonT(30), <1>3, <2>2 DEF TokenInv, Issued, Executing
  <2>4. QED
      BY ZenonT(30), <1>1, <2>1, <2>3 DEF TokenInv, Issued
<1>6. PhaseInv'
    BY ZenonT(30), <1>1 DEF PhaseInv
<1>7. ClaimInv'
  <2>1. \A x \in Drivers \ {d} : /\ Holds(x)' = Holds(x)
                                 /\ Current(x) => Current(x)'
                                 /\ Lost(x) => Lost(x)'
                                 /\ Decided(x) => Decided(x)'
      BY ZenonT(30), <1>1 DEF Holds, Current, Fenced, Lost, Decided
  <2>2. ~Current(d) /\ ~Holds(d)'
      BY Zenon, <1>1 DEF Current, Holds
  <2>3. QED
      BY ZenonT(30), <1>1, <2>1, <2>2 DEF ClaimInv
<1>8. RunInv'
    BY ZenonT(30), <1>1 DEF RunInv, Executing, NoRunAfterSettlement
<1>9. ReportsTrue'
    BY ZenonT(30), <1>3 DEF ReportsTrue
<1>10. QED
    BY ZenonT(30), <1>4, <1>5, <1>6, <1>7, <1>8, <1>9

LEMMA SettleFencedKeeps ==
    ASSUME IInv, NEW d \in Drivers, SettleFenced(d)
    PROVE  IInv'
<1>1. Holds(d)
    BY Zenon DEF IInv, PhaseInv, Holds, SettleFenced
<1>2. outcome[token[d]] # "NONE"
    BY ZenonT(30), <1>1 DEF IInv, ClaimInv, Current, Lost, Decided, SettleFenced
<1>3. QED
    BY Zenon, <1>1, <1>2, Releases DEF SettleFenced

LEMMA ReconcileScanHistoryKeeps ==
    ASSUME IInv, NEW d \in Drivers, ReconcileScanHistory(d)
    PROVE  IInv'
<1> USE DEF ReconcileScanHistory
<1>1. phase[d] = "SETTLE_UNKNOWN" /\ Holds(d)
    BY Zenon DEF IInv, PhaseInv, Holds
<1>2. outcome[token[d]] = IF graphStatus[d] = "OK" THEN "COMPLETED" ELSE "FAILED"
    BY Zenon, <1>1 DEF IInv, ClaimInv, Current, Lost, Decided
<1>3. \/ Retain(d, "SETTLE_UNKNOWN")
      \/ Release(d, "OWNER_LOST")
      \/ Release(d, IF graphStatus[d] = "OK" THEN "COMPLETED" ELSE "FAILED")
    BY Zenon
<1>4. CASE Retain(d, "SETTLE_UNKNOWN")
    BY Zenon, <1>4, WaitsKeep
<1>5. CASE Release(d, "OWNER_LOST")
    BY <1>1, <1>2, <1>5, Releases
<1>6. CASE Release(d, IF graphStatus[d] = "OK" THEN "COMPLETED" ELSE "FAILED")
    BY <1>1, <1>2, <1>6, Releases
<1>7. QED
    BY <1>3, <1>4, <1>5, <1>6

(* The provider settles the current claim of driver d as d asked, and nothing of
   the other claims changes. *)
LEMMA Committed ==
    ASSUME IInv, NEW d \in Drivers, CommitSettlement(d)
    PROVE  /\ Holds(d) /\ Current(d) /\ record[d] \in Ids /\ token[d] \in Tokens
           /\ phase[d] \in {"SETTLE_COMPLETE", "SETTLE_FAIL"}
           /\ SettledAs(d) \in {"COMPLETED", "FAILED"}
           /\ SettledAs(d) = IF graphStatus[d] = "OK" THEN "COMPLETED" ELSE "FAILED"
           /\ ledger' = [ledger EXCEPT ![record[d]] = SettledAs(d)]
           /\ lease' = [lease EXCEPT ![record[d]] = 0]
           /\ outcome' = [outcome EXCEPT ![token[d]] = SettledAs(d)]
           /\ issued' = issued
<1> USE DEF IInv, CommitSettlement, CompleteRecord, FailRecord, SettledAs
<1>1. /\ Holds(d) /\ record[d] \in Ids /\ token[d] \in Tokens
      /\ phase[d] \in {"SETTLE_COMPLETE", "SETTLE_FAIL"}
      /\ ledger[record[d]] = "CLAIMED" /\ lease[record[d]] = token[d]
    BY ZenonT(30) DEF TokenInv, PhaseInv, Holds
<1>2. Current(d)
    BY <1>1 DEF TokenInv, ClaimInv, Holds, Current
<1>3. QED
    BY <1>1, <1>2 DEF PhaseInv

LEMMA OthersCurrent ==
    ASSUME IInv, NEW d \in Drivers, CommitSettlement(d), UNCHANGED owner,
           \A e \in Drivers \ {d} :
               /\ phase'[e] = phase[e] /\ record'[e] = record[e]
               /\ token'[e] = token[e] /\ graphStatus'[e] = graphStatus[e]
    PROVE  /\ \A e \in Drivers \ {d} : Holds(e) => Current(e)' \/ Lost(e)' \/ Decided(e)'
           /\ \A i \in Ids : ledger'[i] = "CLAIMED" =>
                 \E e \in Drivers : Holds(e)' /\ record'[e] = i /\ token'[e] = lease'[i] /\ Current(e)'
<1>1. \A e \in Drivers \ {d} : Holds(e) => token[e] # token[d] /\ token[e] \in Tokens /\ record[e] \in Ids
    BY Zenon, Committed DEF IInv, TokenInv
<1>2. \A e \in Drivers \ {d} : Holds(e) /\ Current(e) => record[e] # record[d]
    BY <1>1, Committed DEF Current
<1>3. \A e \in Drivers \ {d} : Holds(e) => outcome'[token[e]] = outcome[token[e]]
    BY <1>1, Committed DEF IInv, TypeInv
<1>4. \A e \in Drivers \ {d} : Holds(e) /\ Current(e) => Current(e)'
    BY <1>1, <1>2, <1>3, Committed DEF IInv, TypeInv, Current, Fenced
<1>5. \A e \in Drivers \ {d} : Holds(e) => (Lost(e) => Lost(e)') /\ (Decided(e) => Decided(e)')
    BY ZenonT(30), <1>3 DEF Lost, Decided
<1>6. \A i \in Ids : ledger'[i] = "CLAIMED" =>
         i # record[d] /\ ledger[i] = "CLAIMED" /\ lease'[i] = lease[i]
    BY ZenonT(90), Committed DEF IInv, TypeInv
<1>7. QED
    BY <1>4, <1>5, <1>6, Committed DEF IInv, ClaimInv, Holds

LEMMA SettlesKeep ==
    ASSUME IInv, NEW d \in Drivers, SettleOk(d) \/ SettleUnheard(d)
    PROVE  IInv'
<1> USE DEF IInv, graph
<1>1. CommitSettlement(d) /\ UNCHANGED <<graph, owner>>
    BY Zenon DEF SettleOk, SettleUnheard
<1>2. \/ Release(d, SettledAs(d))
      \/ Retain(d, phase[d]) \/ Retain(d, "SETTLE_UNKNOWN")
    BY Zenon DEF SettleOk, SettleUnheard
<1>3. /\ \A x \in Drivers \ {d} : /\ phase'[x] = phase[x] /\ graphStatus'[x] = graphStatus[x]
                                  /\ call'[x] = call[x] /\ token'[x] = token[x] /\ record'[x] = record[x]
      /\ call'[d] = "NONE"
      /\ \/ phase'[d] = "IDLE"
         \/ /\ phase'[d] = phase[d] \/ phase'[d] = "SETTLE_UNKNOWN"
            /\ graphStatus'[d] = graphStatus[d] /\ token'[d] = token[d] /\ record'[d] = record[d]
    BY <1>2 DEF TypeInv, Release, Retain
<1>4. report' = report \/ report' = [report EXCEPT ![token[d]] = SettledAs(d)]
    BY Zenon, <1>2 DEF Release, Retain
<1>5. \A t \in Tokens \ {token[d]} : outcome'[t] = outcome[t] /\ report'[t] = report[t]
    BY <1>1, <1>4, Committed DEF TypeInv
<1>6. outcome'[token[d]] = SettledAs(d) /\ report'[token[d]] \in {report[token[d]], SettledAs(d)}
    BY <1>1, <1>4, Committed DEF TypeInv
<1>7. TypeInv'
  <2>1. /\ ledger' \in [Ids -> States] /\ lease' \in [Ids -> Tokens \cup {0}] /\ issued' \in Nat
        /\ outcome' \in [Tokens -> Outcomes] /\ report' \in [Tokens -> Outcomes \cup {"OWNER_LOST"}]
      BY <1>1, <1>4, Committed DEF TypeInv, States, Outcomes
  <2>2. /\ phase' \in [Drivers -> Phases] /\ call' \in [Drivers -> Calls]
        /\ record' \in [Drivers -> Ids \cup {0}] /\ token' \in [Drivers -> Tokens \cup {0}]
        /\ graphStatus' \in [Drivers -> Errors \cup {"OK", "EIO", "ECANCELED"}]
        /\ requestFailure' \in [Drivers -> Errors \cup {"OK"}]
      BY <1>2 DEF TypeInv, Release, Retain, Phases, Calls
  <2>3. QED
      BY Zenon, <1>1, <2>1, <2>2 DEF TypeInv
<1>8. TokenInv'
  <2>1. \A x \in Drivers : Holds(x)' => Holds(x) /\ token'[x] = token[x] /\ record'[x] = record[x]
      BY ZenonT(30), <1>1, <1>3, Committed DEF Holds
  <2>2. Issued(token[d]) /\ issued' = issued
      BY Zenon, <1>1, Committed DEF TokenInv
  <2>3. \A t \in Tokens : ~Issued(t)' => ~Executing(t)' /\ outcome'[t] = "NONE" /\ report'[t] = "NONE"
      BY ZenonT(30), <1>1, <1>5, <2>2 DEF TokenInv, Issued, Executing
  <2>4. QED
      BY ZenonT(30), <1>1, <2>1, <2>2, <2>3 DEF TokenInv, Issued
<1>9. PhaseInv'
    BY ZenonT(30), <1>3 DEF PhaseInv
<1>10. ClaimInv'
  <2>1. Holds(d)' => Decided(d)'
      BY ZenonT(30), <1>1, <1>3, <1>6, Committed DEF Holds, Decided
  <2>2. QED
      BY ZenonT(30), <1>1, <1>3, <2>1, OthersCurrent DEF ClaimInv, Holds
<1>11. RunInv'
  <2>1. \A t : Executing(t)' = Executing(t)
      BY Zenon, <1>1 DEF Executing
  <2>2. ~Executing(token[d])
      BY Zenon, <1>1, Committed DEF RunInv
  <2>3. QED
      BY ZenonT(30), <1>3, <1>5, <2>1, <2>2 DEF RunInv, NoRunAfterSettlement
<1>12. ReportsTrue'
  <2>1. outcome[token[d]] = "NONE" /\ SettledAs(d) \in {"COMPLETED", "FAILED"}
      BY Zenon, <1>1, Committed DEF Current
  <2>2. QED
      BY ZenonT(90), <1>1, <1>5, <1>6, <2>1, Committed DEF ReportsTrue
<1>13. QED
    BY <1>7, <1>8, <1>9, <1>10, <1>11, <1>12

-----------------------------------------------------------------------------
LEMMA InitIInv == Init => IInv
  BY DriverAssumption DEF Init, InitLedger, IInv, TypeInv, Phases, Calls, RunStates, Outcomes, States,
     TokenInv, Issued, Holds, PhaseInv, ClaimInv, RunInv, NoRunAfterSettlement, Executing, ReportsTrue

LEMMA NextIInv == IInv /\ [Next]_vars => IInv'
<1> SUFFICES ASSUME IInv, [Next]_vars PROVE IInv'
    OBVIOUS
<1>1. CASE UNCHANGED vars
  <2>1. ledger' = ledger /\ UNCHANGED <<lease, issued, driver, graph, owner, history>>
      BY Zenon, <1>1 DEF vars, ledgerVars
  <2>2. ledger' \in [Ids -> States]
      BY Zenon, <2>1 DEF IInv, TypeInv
  <2>3. QED
      BY Zenon, <2>1, <2>2, LedgerMoves
<1>2. CASE \/ \E i \in Ids, o \in Offers : Admit(i, o)
           \/ \E i \in Ids : Operator(i)
           \/ TakeOver
    BY Zenon, <1>2, AdmitKeeps, OperatorKeeps, TakeOverKeeps
<1>3. CASE \/ \E a \in {"OPEN", "PAUSED", "CLOSED"} : SetAdmission(a)
           \/ \E t \in Tokens : ValueBegins(t) \/ ValueEnds(t)
           \/ \E t \in Tokens, state \in {"COMPLETED", "FAILED"} : RunEnds(t, state)
    BY Zenon, <1>3, GraphStepsKeep
<1>4. CASE \E d \in Drivers, draining \in BOOLEAN, excluded \in SUBSET {o.key : o \in Offers} :
              \/ Request(d, draining, excluded)
              \/ \E e \in Errors : RequestFails(d, draining, excluded, e)
    BY Zenon, <1>4, RequestsKeep
<1>5. CASE \E d \in Drivers, e \in Errors, state \in Ended : Cancel(d, e, state)
    BY Zenon, <1>5, PollsKeep
<1>6. CASE \E d \in Drivers :
              \/ Poll(d)
              \/ Settle(d) \/ SettleUnheard(d) \/ SettleError(d) \/ RetrySettlement(d)
              \/ ReconcileScanFailed(d) \/ ReconcileScanHistory(d) \/ ReconcileError(d)
    BY Zenon, <1>6, PollsKeep, SettlesKeep, SettleFencedKeeps, WaitsKeep, ReconcileScanHistoryKeeps
       DEF Settle
<1>7. QED
    BY Zenon, <1>1, <1>2, <1>3, <1>4, <1>5, <1>6 DEF Next

LEMMA Inductive == Spec => []IInv
  BY InitIInv, NextIInv, PTL DEF Spec

(* Nothing executes for a claim the provider has settled: flow_inbox_driver_poll
   settles only when the run has ended and its asynchronous values have left. *)
THEOREM SettledIsQuiet == Spec => []NoRunAfterSettlement
<1>1. IInv => NoRunAfterSettlement
    BY Zenon DEF IInv, RunInv
<1>2. QED
    BY <1>1, Inductive, PTL

(* What a driver tells its caller is what the provider did with that claim, also
   after errors, takeovers and a reconciliation of a record that has moved on. *)
THEOREM ReportsAreTrue == Spec => []ReportsTrue
<1>1. IInv => ReportsTrue
    BY Zenon DEF IInv
<1>2. QED
    BY <1>1, Inductive, PTL

(* Every claimed record is held by a driver of the current owner that runs its
   Graph or is settling it. *)
THEOREM NoClaimAbandoned == Spec => []ClaimsAreHeld
<1>1. IInv => ClaimsAreHeld
    BY DEF IInv, ClaimInv, TypeInv, Phases, StoredIn, ClaimsAreHeld, Holds, Current
<1>2. QED
    BY <1>1, Inductive, PTL
=============================================================================
