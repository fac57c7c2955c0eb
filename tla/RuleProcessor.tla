---------------------------- MODULE RuleProcessor ----------------------------
(***************************************************************************)
(* A rule set and the threads that run messages through it, and the three  *)
(* RuleForge executors (turbo_flow/src/flow_policy.c, flow_rulesforge.c).  *)
(*                                                                         *)
(* The rule set is compiled once, within budgets; its counters are atomics *)
(* that every lane updates one after the other.  A lane evaluates the      *)
(* predicates in order, each with any outcome, accounts for the            *)
(* evaluation, and applies the emitted actions to its message, all or      *)
(* none.  A RuleForge lane opens an engine session per message.  Words are *)
(* sets of bits; the expression language, the engine and the text form of  *)
(* the configuration are left out.                                         *)
(***************************************************************************)
EXTENDS Integers, FiniteSets, Sequences, SequencesExt

CONSTANTS Programs, Lanes, Kinds, Messages, Authorities, None

VARIABLES obj, work, call, net
vars == <<obj, work, call, net>>

\* size_t in the model, sizeof(turbo_flow_rule_action_t), FLOW_RULE_STAGE_MAX_ACTIONS
Word == 32
ActionBytes == 2
StageMaxActions == 3
MatchedFlag == "matched"

\* Subtraction as the code does it, on unsigned words.
Less(a, b) == (a + Word - b) % Word

Idle == [pc |-> "IDLE", kind |-> None, before |-> None, message |-> None, rule |-> 1,
         outcomes |-> << >>, emitted |-> << >>, bytes |-> 0, matched |-> 0, fired |-> 0, rc |-> "OK",
         granted |-> << >>]

Init ==
    /\ obj = [state |-> "NONE", program |-> None, instructions |-> 0, memory |-> 0,
              evaluations |-> 0, matches |-> 0, failures |-> 0, last |-> "OK"]
    /\ work = [l \in Lanes |-> Idle]
    /\ call = None
    /\ net = [sessions |-> {}, streams |-> {}]

(* -------------------------------- Creation ----------------------------- *)

DataKinds == {"MUTATE", "ROUTE", "DROP", "BATCH_KEY", "RETRY_CLASS", "DEAD_LETTER"}

\* flow_rule_action_valid, flow_rule_key_valid, flow_rule_command_valid
ActionValid(domain, a) ==
    IF domain = "CONTROL" THEN a.kind = "COMMAND" /\ a.generation > 0
    ELSE /\ a.kind \in DataKinds
         /\ a.kind = "MUTATE" => a.field \in {"TYPE", "FLAGS", "STATUS"}
         /\ a.kind \in {"ROUTE", "BATCH_KEY", "RETRY_CLASS"} => a.key # None
         /\ a.kind = "DEAD_LETTER" => a.status # "OK"

\* flow_rule_limits_valid and flow_rule_config_valid
ConfigValid(p) ==
    /\ \A limit \in {"instructions", "memory", "actions", "bytes"} : p.limits[limit] > 0
    /\ p.rules # << >>
    /\ p.domain \in {"DATA", "CONTROL"}
    /\ p.mode \in {"FIRST_MATCH", "ALL_MATCHES"}

Refuse(t, rc) == [t EXCEPT !.rc = rc]

\* One rule of turbo_flow_rule_processor_create, against what is left of the budgets.
AddRule(p, t, rule) ==
    IF t.rc # "OK" THEN t
    ELSE IF ~ActionValid(p.domain, rule.action) THEN Refuse(t, "EINVAL")
    ELSE IF ~rule.boolean THEN Refuse(t, "EPROTO")
    ELSE IF \/ rule.instructions > Less(p.limits.instructions, t.instructions)
            \/ rule.memory > Less(p.limits.memory, t.memory) THEN Refuse(t, "ENOSPC")
    ELSE [t EXCEPT !.instructions = @ + rule.instructions, !.memory = @ + rule.memory]

\* flow_rule_schema_copy: the descriptors at once, then each path.
CopySchema(p, t) ==
    LET fields == Len(p.schema)
        path(u, length) ==
            IF u.rc # "OK" THEN u
            ELSE IF length > Less(p.limits.memory, u.memory) THEN Refuse(u, "ENOSPC")
            ELSE [u EXCEPT !.memory = @ + length]
    IN IF t.rc # "OK" THEN t
       ELSE IF fields > Less(p.limits.memory, t.memory) THEN Refuse(t, "ENOSPC")
       ELSE FoldLeft(path, [t EXCEPT !.memory = @ + fields], p.schema)

\* turbo_flow_rule_processor_create: the processor and its rule array (a unit each)
\* come off the memory budget first.
CompileRules(p) ==
    LET empty == [rc |-> IF ConfigValid(p) THEN "OK" ELSE "EINVAL", instructions |-> 0, memory |-> 1]
        start == IF empty.rc # "OK" THEN empty
                 ELSE IF empty.memory > p.limits.memory THEN Refuse(empty, "ENOSPC")
                 ELSE IF Len(p.rules) > Less(p.limits.memory, empty.memory) THEN Refuse(empty, "ENOSPC")
                 ELSE [empty EXCEPT !.memory = @ + Len(p.rules)]
    IN FoldLeft(LAMBDA t, rule : AddRule(p, t, rule), CopySchema(p, start), p.rules)

\* A failed creation destroys what was built.
Create(p) ==
    LET t == CompileRules(p) IN
    /\ obj.state = "NONE" /\ obj.program = None
    /\ obj' = IF t.rc = "OK"
              THEN [obj EXCEPT !.state = "LIVE", !.program = p, !.instructions = t.instructions,
                               !.memory = t.memory]
              ELSE [obj EXCEPT !.program = p, !.last = t.rc]
    /\ UNCHANGED <<work, call, net>>

(* ------------------------------ Rule lanes ----------------------------- *)

To(l, lane) == work' = [work EXCEPT ![l] = lane]
End(lane, rc) == [lane EXCEPT !.pc = "DONE", !.rc = rc]

\* flow_rule_data_stage (and a host that evaluates a control program): a message arrives.
Arrive(l, kind, message) ==
    /\ work[l].pc = "IDLE"
    /\ kind \in {"DATA", "CONTROL"} => obj.state = "LIVE" /\ obj.program.domain = kind
    /\ To(l, [Idle EXCEPT !.pc = IF kind \in {"DATA", "CONTROL"} THEN "FACTS" ELSE kind,
                          !.kind = kind, !.before = message, !.message = message])
    /\ UNCHANGED <<obj, call, net>>

\* The room for actions that flow_rule_data_stage offers.
Capacity ==
    IF obj.program.limits.actions > Len(obj.program.rules) THEN Len(obj.program.rules)
    ELSE obj.program.limits.actions

\* The facts provider fails, or its values do not match the program's schema
\* (flow_rule_facts_valid, flow_rule_facts_match_program): nothing is counted.
ReadFacts(l, result) ==
    LET lane == work[l]
        rc == IF obj.program.schema # << >> /\ result # "OK" THEN result
              ELSE IF Capacity > StageMaxActions THEN "ENOSPC" ELSE "OK"
    IN /\ lane.pc = "FACTS"
       /\ To(l, IF rc = "OK" THEN [lane EXCEPT !.pc = "EVALUATE"] ELSE End(lane, rc))
       /\ UNCHANGED <<obj, call, net>>

\* The status of one predicate: flow_rule_read_fact fails in it, it is late, or not Boolean.
PredicateStatus(outcome) ==
    CASE outcome = "ERROR" -> "ENOENT" [] outcome = "LATE" -> "ETIMEDOUT"
      [] outcome = "NULL" -> "EPROTO" [] OTHER -> "OK"

NoRoom(lane) ==
    \/ Len(lane.emitted) >= Capacity
    \/ Len(lane.emitted) >= obj.program.limits.actions
    \/ ActionBytes > Less(obj.program.limits.bytes, lane.bytes)

\* One turn of the loop of turbo_flow_rule_processor_evaluate.
EvaluateRule(l, outcome) ==
    LET lane == work[l]
        read == [lane EXCEPT !.outcomes = Append(@, outcome), !.rule = @ + 1,
                             !.rc = PredicateStatus(outcome)]
        hit == [read EXCEPT !.matched = @ + 1]
        took == [hit EXCEPT !.emitted = Append(@, obj.program.rules[lane.rule].action),
                            !.bytes = @ + ActionBytes]
        next == IF outcome # "TRUE" THEN read
                ELSE IF NoRoom(hit) THEN [hit EXCEPT !.rc = "ENOSPC"] ELSE took
        over == \/ next.rc # "OK" \/ next.rule > Len(obj.program.rules)
                \/ outcome = "TRUE" /\ obj.program.mode = "FIRST_MATCH"
    IN /\ lane.pc = "EVALUATE"
       /\ To(l, [next EXCEPT !.pc = IF over THEN "COUNT_EVALUATION" ELSE "EVALUATE"])
       /\ UNCHANGED <<obj, call, net>>

\* The end of turbo_flow_rule_processor_evaluate: one atomic after the other.
CountEvaluation(l) ==
    /\ work[l].pc = "COUNT_EVALUATION"
    /\ obj' = [obj EXCEPT !.evaluations = @ + 1]
    /\ To(l, [work[l] EXCEPT !.pc = "COUNT_MATCHES"])
    /\ UNCHANGED <<call, net>>

CountMatches(l) ==
    /\ work[l].pc = "COUNT_MATCHES"
    /\ obj' = [obj EXCEPT !.matches = @ + work[l].matched]
    /\ To(l, [work[l] EXCEPT !.pc = IF work[l].rc # "OK" THEN "COUNT_FAILURE" ELSE "STATUS"])
    /\ UNCHANGED <<call, net>>

CountFailure(l) ==
    /\ work[l].pc = "COUNT_FAILURE"
    /\ obj' = [obj EXCEPT !.failures = @ + 1]
    /\ To(l, [work[l] EXCEPT !.pc = "STATUS"])
    /\ UNCHANGED <<call, net>>

StoreStatus(l) ==
    /\ work[l].pc = "STATUS"
    /\ obj' = [obj EXCEPT !.last = work[l].rc]
    /\ To(l, IF work[l].rc # "OK" THEN End(work[l], work[l].rc)
             ELSE [work[l] EXCEPT !.pc = IF work[l].kind = "DATA" THEN "APPLY" ELSE "AUTHORIZE"])
    /\ UNCHANGED <<call, net>>

Masked(word, a) == (word \ a.mask) \cup (a.value \cap a.mask)

\* UINT32_MAX: an action carries 64 bits, a field of the message holds 32.
HighBits == {"high"}
TooWide(a) == (a.value \cup a.mask) \cap HighBits # {}

\* One action of turbo_flow_rule_apply_data_actions on the pending message.
ApplyAction(t, a) ==
    LET once(field) == IF t.message.decision[field] # None THEN Refuse(t, "EPROTO")
                       ELSE [t EXCEPT !.message.decision[field] = a.key]
    IN IF t.rc # "OK" THEN t
       ELSE CASE a.kind = "MUTATE" /\ a.field # "STATUS" /\ TooWide(a) -> Refuse(t, "ERANGE")
              [] a.kind = "MUTATE" /\ a.field = "TYPE" /\ ~TooWide(a) ->
                    [t EXCEPT !.message.type = Masked(@, a)]
              [] a.kind = "MUTATE" /\ a.field = "FLAGS" /\ ~TooWide(a) ->
                    [t EXCEPT !.message.flags = Masked(@, a)]
              [] a.kind = "MUTATE" /\ a.field = "STATUS" -> [t EXCEPT !.message.status = a.status]
              [] a.kind = "ROUTE" -> once("route")
              [] a.kind = "BATCH_KEY" -> once("batch")
              [] a.kind = "RETRY_CLASS" -> once("retry")
              [] a.kind = "DROP" -> [t EXCEPT !.message.decision.dropped = TRUE]
              [] a.kind = "DEAD_LETTER" -> [t EXCEPT !.message.decision.dead = a.status]

NoDecision == [route |-> None, batch |-> None, retry |-> None, dropped |-> FALSE, dead |-> None,
               evaluation |-> "NOT_EVALUATED", count |-> 0]

Applied(lane) ==
    LET start == [rc |-> "OK", message |-> [lane.before EXCEPT !.decision = NoDecision]]
    IN FoldLeft(ApplyAction, start, lane.emitted)

\* turbo_flow_rule_apply_data_actions and the end of flow_rule_data_stage: the message
\* and its decision change only when every action could be applied.
Apply(l) ==
    LET lane == work[l]
        t == Applied(lane)
        rc == IF t.rc # "OK" THEN t.rc
              ELSE IF t.message.decision.dropped /\ t.message.decision.dead # None THEN "EPROTO"
              ELSE "OK"
    IN /\ lane.pc = "APPLY"
       /\ To(l, End(IF rc = "OK" THEN [lane EXCEPT !.message = t.message] ELSE lane, rc))
       /\ UNCHANGED <<obj, call, net>>

\* turbo_flow_rule_authorize_command
Authorized(a, authority) ==
    /\ a.command \in authority.allowed
    /\ authority.generation # 0 /\ a.generation = authority.generation
    /\ authority.target # None => a.target = authority.target

\* A host has every command a control program proposes authorized.
Authorize(l, authority) ==
    /\ work[l].pc = "AUTHORIZE"
    /\ To(l, End([work[l] EXCEPT !.granted =
                     SelectSeq(work[l].emitted, LAMBDA a : Authorized(a, authority))], "OK"))
    /\ UNCHANGED <<obj, call, net>>

(* ---------------------------- RuleForge lanes -------------------------- *)

\* turbo_flow_rulesforge_set_result
SetResult(message, count, rc) ==
    [message EXCEPT !.decision = [NoDecision EXCEPT
        !.evaluation = IF rc # "OK" THEN "ERROR" ELSE IF count > 0 THEN "MATCHED" ELSE "NOT_MATCHED",
        !.count = count]]

\* flow_rulesforge_execute: the host's function may have set a result, or not.
ExecuteCustom(l, rc, count) ==
    LET lane == work[l]
        answered == IF count = None THEN lane.message ELSE SetResult(lane.message, count, "OK")
        kept == rc = "OK" \/ answered.decision.evaluation # "NOT_EVALUATED"
    IN /\ lane.pc = "CUSTOM"
       /\ To(l, End([lane EXCEPT !.message = IF kept THEN answered ELSE SetResult(answered, 0, rc)], rc))
       /\ UNCHANGED <<obj, call, net>>

\* The end of flow_rulesforge_finish_json and flow_rulesforge_finish_databind: the
\* matched flag and the decision say the same.  A negative count of the engine is none
\* for the first; the second refuses it and leaves the message as it was.
Flag(lane, fired) ==
    [lane EXCEPT !.fired = fired,
                 !.message.flags = IF fired > 0 THEN @ \cup {MatchedFlag} ELSE @ \ {MatchedFlag}]

Result(lane, fired, rc) ==
    LET count == IF rc = "OK" /\ fired > 0 THEN fired ELSE 0
        flagged == Flag(lane, count)
    IN IF lane.kind = "DATABIND" /\ fired < 0 THEN End([lane EXCEPT !.fired = fired], "EINVAL")
       ELSE End([flagged EXCEPT !.message = SetResult(flagged.message, count, rc)], rc)

\* flow_rulesforge_finish_json, flow_rulesforge_execute_databind: the stream and the
\* session are destroyed on every path; a destroy that fails fails the message.
CloseSession(l, lane, fired, rc, closing) ==
    /\ net' = [sessions |-> net.sessions \ {l}, streams |-> net.streams \ {l}]
    /\ To(l, Result(lane, fired, IF rc = "OK" /\ l \in net.sessions THEN closing ELSE rc))
    /\ UNCHANGED <<obj, call>>

Continue(l, lane, pc, opened) ==
    /\ net' = opened
    /\ To(l, [lane EXCEPT !.pc = pc])
    /\ UNCHANGED <<obj, call>>

\* flow_rulesforge_execute_json clears the flag and views the payload;
\* _execute_databind takes the projection.
Project(l, rc, closing) ==
    LET lane == IF work[l].kind = "DATABIND" THEN work[l]
                ELSE [work[l] EXCEPT !.message.flags = @ \ {MatchedFlag}]
    IN /\ work[l].pc \in {"JSON", "DATABIND"}
       /\ IF rc = "OK" THEN Continue(l, lane, "SESSION", net) ELSE CloseSession(l, lane, 0, rc, closing)

OpenSession(l, rc, closing) ==
    /\ work[l].pc = "SESSION"
    /\ IF rc = "OK" THEN Continue(l, work[l], IF work[l].kind = "JSON" THEN "STREAM" ELSE "ADD",
                                  [net EXCEPT !.sessions = @ \cup {l}])
       ELSE CloseSession(l, work[l], 0, rc, closing)

\* ruleforge_session_add_data_bind_object or _value, or a type that does not fit.
AddObject(l, rc, closing) ==
    /\ work[l].pc = "ADD"
    /\ IF rc = "OK" THEN Continue(l, work[l], "FIRE", net) ELSE CloseSession(l, work[l], 0, rc, closing)

OpenStream(l, rc, closing) ==
    /\ work[l].pc = "STREAM"
    /\ IF rc = "OK" THEN Continue(l, work[l], "FEED", [net EXCEPT !.streams = @ \cup {l}])
       ELSE CloseSession(l, work[l], 0, rc, closing)

\* Feeding, finishing and destroying the stream; one fact must have been loaded.
FeedStream(l, rc, closing) ==
    /\ work[l].pc = "FEED"
    /\ IF rc = "OK" THEN Continue(l, work[l], "FIRE", [net EXCEPT !.streams = @ \ {l}])
       ELSE CloseSession(l, work[l], 0, rc, closing)

\* ruleforge_session_fire_all_rules may have fired rules and still fail.
Fire(l, fired, rc, closing) ==
    /\ work[l].pc = "FIRE"
    /\ CloseSession(l, work[l], fired, rc, closing)

Next ==
    \/ \E p \in Programs : Create(p)
    \/ \E l \in Lanes :
          \/ \E kind \in Kinds, message \in Messages : Arrive(l, kind, message)
          \/ \E result \in {"OK", "EIO", "EPROTO"} : ReadFacts(l, result)
          \/ \E outcome \in {"TRUE", "FALSE", "ERROR", "LATE", "NULL"} : EvaluateRule(l, outcome)
          \/ CountEvaluation(l) \/ CountMatches(l) \/ CountFailure(l) \/ StoreStatus(l)
          \/ Apply(l)
          \/ \E authority \in Authorities : Authorize(l, authority)
          \/ \E rc \in {"OK", "EIO"} :
                \/ \E count \in {None, 0, 1} : ExecuteCustom(l, rc, count)
                \/ \E closing \in {"OK", "EIO"} :
                      \/ Project(l, rc, closing) \/ OpenSession(l, rc, closing)
                      \/ AddObject(l, rc, closing) \/ OpenStream(l, rc, closing)
                      \/ FeedStream(l, rc, closing)
                      \/ \E fired \in -1 .. 1 : Fire(l, fired, rc, closing)

Spec == Init /\ [][Next]_vars

(* -------------------------------- Properties --------------------------- *)

Total(f(_), set) == FoldSet(LAMBDA l, sum : sum + f(l), 0, set)

\* A rule set comes to life exactly when its rules are valid and their instructions and
\* memory, together with the processor, its rule array and its schema, fit the budgets:
\* no subtraction of what is used from a budget wraps.
BudgetsExact ==
    obj.program # None =>
      LET p == obj.program
          sum(field) == FoldLeft(LAMBDA t, r : t + r[field], 0, p.rules)
          memory == 1 + Len(p.rules) + Len(p.schema) + FoldLeft(LAMBDA t, x : t + x, 0, p.schema)
                      + sum("memory")
      IN (obj.state = "LIVE") =
           /\ ConfigValid(p)
           /\ \A i \in DOMAIN p.rules : ActionValid(p.domain, p.rules[i].action) /\ p.rules[i].boolean
           /\ sum("instructions") <= p.limits.instructions
           /\ memory <= p.limits.memory

Past(l, pcs) == work[l].kind \in {"DATA", "CONTROL"} /\ work[l].outcomes # << >> /\ work[l].pc \notin pcs

\* However the lanes interleave, the counters are the sums over the lanes that have
\* passed the point where they count, a failure is never counted before its
\* evaluation, and a message that failed before its rules ran is not counted.
CountersExact ==
    LET uncounted == {"FACTS", "EVALUATE", "COUNT_EVALUATION"}
        counted == {l \in Lanes : Past(l, uncounted)}
        matched == {l \in Lanes : Past(l, uncounted \cup {"COUNT_MATCHES"})}
        failed == {l \in Lanes : /\ Past(l, uncounted \cup {"COUNT_MATCHES", "COUNT_FAILURE"})
                                 /\ "ERROR" \in ToSet(work[l].outcomes) \/ "LATE" \in ToSet(work[l].outcomes)
                                      \/ "NULL" \in ToSet(work[l].outcomes)
                                      \/ work[l].matched > Len(work[l].emitted)}
    IN /\ obj.evaluations = Cardinality(counted)
       /\ obj.matches = Total(LAMBDA l : Len(SelectSeq(work[l].outcomes, LAMBDA o : o = "TRUE")), matched)
       /\ obj.failures = Cardinality(failed)
       /\ obj.failures <= obj.evaluations

\* The actions of the rules that were true, in order, the first only where the mode says so.
Chosen(lane) ==
    LET hits == SelectSeq([i \in DOMAIN lane.outcomes |-> i], LAMBDA i : lane.outcomes[i] = "TRUE")
    IN [i \in DOMAIN hits |-> obj.program.rules[hits[i]].action]

Writes(a, field, bit) == a.kind = "MUTATE" /\ a.field = field /\ bit \in a.mask

\* The bits a sequence of actions leaves set: the last action that writes a bit decides.
Expected(actions, field, word, bit) ==
    LET writers == {i \in DOMAIN actions : Writes(actions[i], field, bit)}
    IN IF writers = {} THEN bit \in word ELSE bit \in actions[Max(writers)].value

\* A data message that went through carries exactly what the true rules say, the last
\* writer of a bit winning; one whose evaluation or actions failed (two routes, a drop
\* and a dead letter) is untouched, its earlier decision included.
DecisionFollowsRules ==
    \A l \in Lanes :
       LET lane == work[l]
           actions == Chosen(lane)
           keys(kind) == {a.key : a \in {b \in ToSet(actions) : b.kind = kind}}
       IN lane.pc = "DONE" /\ lane.kind = "DATA" =>
            IF lane.rc # "OK" THEN lane.message = lane.before
            ELSE /\ lane.emitted = actions
                 /\ \A bit \in {"a", "b"} :
                       /\ (bit \in lane.message.type) = Expected(actions, "TYPE", lane.before.type, bit)
                       /\ (bit \in lane.message.flags) = Expected(actions, "FLAGS", lane.before.flags, bit)
                 /\ keys("ROUTE") = {lane.message.decision.route} \ {None}
                 /\ lane.message.decision.dropped = \E a \in ToSet(actions) : a.kind = "DROP"
                 /\ ~(lane.message.decision.dropped /\ lane.message.decision.dead # None)

\* A RuleForge message never says it matched unless the rules fired and the session
\* closed well: the flag, the count and the evaluation agree, nothing of an earlier
\* stage's match is left, and no session or stream outlives its message.  Only a databind
\* message whose engine counted below zero keeps what it came with, and it fails.
MatchTruthful ==
    \A l \in Lanes : work[l].pc = "DONE" /\ work[l].kind \in {"JSON", "DATABIND"} =>
       LET m == work[l].message
           miscounted == work[l].kind = "DATABIND" /\ work[l].fired < 0
       IN
       /\ l \notin net.sessions \cup net.streams
       /\ miscounted => m = work[l].before /\ work[l].rc = "EINVAL"
       /\ ~miscounted =>
          /\ (MatchedFlag \in m.flags) = (work[l].rc = "OK" /\ work[l].fired > 0)
          /\ (m.decision.evaluation = "MATCHED") = (MatchedFlag \in m.flags)
          /\ (m.decision.evaluation = "ERROR") = (work[l].rc # "OK")
=============================================================================
