---------------------------- MODULE SecurityRealm ----------------------------
(***************************************************************************)
(* A security realm and the SQLite policy store behind it:                 *)
(* turbo_flow/src/flow_security.c and security/src/flow_security_sqlite.c. *)
(* Callers authorize requests concurrently against a reference-counted,    *)
(* immutable policy snapshot; a caller whose principal names another       *)
(* policy version refreshes the realm first.  A policy is compiled into an *)
(* index, so the decision is stated twice: as the code probes the index,   *)
(* and as the rules read one by one.  A resource is a sequence of tokens.  *)
(* The statistics of the realm and its status document are left out.       *)
(***************************************************************************)
EXTENDS Integers, FiniteSets, FiniteSetsExt, Sequences, TLC

CONSTANTS Policies, Requests, Callers, None, MaxTime, MaxCalls, MaxFaults

VARIABLES obj, work, call, net
vars == <<obj, work, call, net>>

Versions == DOMAIN Policies
NoRule == 0
Open(c) == work[c].pc

\* flow_security_rule_valid: a wildcard rule needs the protocol's matcher.
RuleValid(rule, matcher) ==
    /\ (rule.kind = "ANY") = (rule.subject = None)
    /\ rule.pattern = << >> =>
          rule.match = "PREFIX" /\ rule.actions = {"CONNECT"} /\ rule.type = "GENERIC"
    /\ rule.match = "ADAPTER" => matcher

PolicyValid(version, matcher) ==
    \A i \in DOMAIN Policies[version].rules : RuleValid(Policies[version].rules[i], matcher)

\* flow_security_realm_config_valid: a source, or a policy whose rules the realm's matcher
\* can serve.  A snapshot in use has a version and an atomic reference count.
Init ==
    /\ \E matcher \in BOOLEAN, given \in Versions \cup {None} :
          /\ given # None => PolicyValid(given, matcher)
          /\ obj = [source |-> given = None, matcher |-> matcher, policy |-> FALSE, remote |-> FALSE,
                    active |-> IF given = None THEN None ELSE 1,
                    snaps |-> IF given = None THEN << >> ELSE (1 :> [version |-> given, refs |-> 1]),
                    alive |-> TRUE]
    /\ work = [c \in Callers |-> [pc |-> "IDLE", request |-> None, required |-> 0, now |-> 0,
                                  snap |-> None, old |-> None, seen |-> 0, status |-> "OK",
                                  answer |-> None]]
    /\ call = 0
    /\ net = [version |-> 0, time |-> 1, faults |-> 0]

MayFault == net.faults < MaxFaults
Faulted(failed) == /\ failed => MayFault
                   /\ net' = [net EXCEPT !.faults = IF failed THEN @ + 1 ELSE @]

(* -------------------------- The compiled index ------------------------- *)

\* flow_security_policy_snapshot_create: the bucket of a domain, action and type.
Bucket(rules, request) ==
    {[match |-> rules[i].match, kind |-> rules[i].kind, subject |-> rules[i].subject,
      pattern |-> rules[i].pattern, rule |-> i] :
        i \in {j \in DOMAIN rules : /\ rules[j].domain = request.domain
                                    /\ request.action \in rules[j].actions
                                    /\ rules[j].type = request.type}}

\* flow_security_rule_bucket_pattern: one hash lookup.
PatternEntries(bucket, match, kind, subject, pattern) ==
    {e.rule : e \in {b \in bucket : /\ b.match = match /\ b.kind = kind
                                    /\ b.subject = subject /\ b.pattern = pattern}}

\* flow_security_rule_bucket_insert: the longest prefix pattern of the bucket.
MaxPrefix(bucket) == Max({0} \cup {Len(b.pattern) : b \in {e \in bucket : e.match = "PREFIX"}})

\* The protocol's matcher: "+" stands for one token.
MatcherAccepts(pattern, resource) ==
    /\ Len(pattern) = Len(resource)
    /\ \A i \in DOMAIN pattern : pattern[i] \in {"+", resource[i]}

PrefixProbes(bucket, resource) == 0 .. Min({Len(resource), MaxPrefix(bucket)})

\* flow_security_evaluate_subject: exact lookup, prefix probes, wildcard leaf.
SubjectRules(bucket, resource, kind, subject) ==
    PatternEntries(bucket, "EXACT", kind, subject, resource)
      \cup UNION {PatternEntries(bucket, "PREFIX", kind, subject, SubSeq(resource, 1, n)) :
                     n \in PrefixProbes(bucket, resource)}
      \cup {e.rule : e \in {b \in bucket : /\ b.match = "ADAPTER" /\ b.kind = kind
                                           /\ b.subject = subject
                                           /\ MatcherAccepts(b.pattern, resource)}}

Subjects(principal) ==
    {<<"ANY", None>>, <<"PRINCIPAL", principal.id>>}
      \cup {<<"ROLE", r>> : r \in principal.roles} \cup {<<"GROUP", g>> : g \in principal.groups}

Deny(reason) == [effect |-> "DENY", reason |-> reason, rule |-> NoRule]
FirstOf(rules, found, effect) == {i \in found : rules[i].effect = effect}
Decide(rules, found) ==
    LET deny == FirstOf(rules, found, "DENY")
        allow == FirstOf(rules, found, "ALLOW")
    IN  IF deny # {} THEN [effect |-> "DENY", reason |-> "DENY_RULE", rule |-> Min(deny)]
        ELSE IF allow # {} THEN [effect |-> "ALLOW", reason |-> "ALLOW_RULE", rule |-> Min(allow)]
        ELSE Deny("DEFAULT_DENY")

\* A policy given with the realm has no end; one that was loaded may have.
Expires(version) == IF obj.source THEN Policies[version].expires ELSE 0
Expired(expires, now) == expires # 0 /\ (now = 0 \/ now >= expires)

\* flow_security_realm_evaluate_validated, on the version it acquired (0: none).
EvaluateWith(request, now, version, found) ==
    LET p == request.principal
    IN  IF p.scope # "SYSTEM" /\ p.domain # request.domain THEN Deny("DOMAIN_MISMATCH")
        ELSE IF p.expires # 0 /\ now >= p.expires THEN Deny("PRINCIPAL_EXPIRED")
        ELSE IF version = 0 \/ p.version # version \/ Expired(Expires(version), now)
        THEN Deny("POLICY_VERSION_MISMATCH")
        ELSE Decide(Policies[version].rules, found)

EvaluateInvalid(request, now) ==
    LET p == request.principal
    IN  /\ p.scope = "SYSTEM" \/ p.domain = request.domain
        /\ p.expires # 0 /\ now = 0

IndexRules(request, version) ==
    LET bucket == Bucket(Policies[version].rules, request)
    IN  UNION {SubjectRules(bucket, request.resource, s[1], s[2]) : s \in Subjects(request.principal)}

(* ----------------------- Snapshot references --------------------------- *)

\* flow_security_policy_snapshot_acquire, under the snapshot lock.
Acquire(snaps) ==
    IF obj.active = None THEN snaps ELSE [snaps EXCEPT ![obj.active].refs = @ + 1]

\* flow_security_policy_snapshot_release: the last reference frees the snapshot.
Release(snaps, id) ==
    IF id = None THEN snaps
    ELSE IF snaps[id].refs = 1 THEN [i \in DOMAIN snaps \ {id} |-> snaps[i]]
    ELSE [snaps EXCEPT ![id].refs = @ - 1]

FreshId(snaps) == CHOOSE i \in 1 .. (Cardinality(DOMAIN snaps) + 1) : i \notin DOMAIN snaps
ActiveVersion == IF obj.active = None THEN 0 ELSE obj.snaps[obj.active].version
VersionOf(id) == IF id = None THEN 0 ELSE obj.snaps[id].version

(* -------------------------------- Callers ------------------------------ *)

Answered(c, status, answer) ==
    work' = [work EXCEPT ![c].pc = "DONE", ![c].status = status, ![c].answer = answer,
                         ![c].snap = None, ![c].old = None]

\* turbo_flow_security_realm_authorize; the caller's clock may be unset.
Authorize(c, request, clock) ==
    /\ obj.alive /\ Open(c) \in {"IDLE", "DONE"} /\ call < MaxCalls
    /\ clock \in {0, net.time}
    /\ call' = call + 1
    /\ work' = [work EXCEPT ![c] = [@ EXCEPT
          !.pc = IF obj.remote THEN "REMOTE" ELSE IF obj.source THEN "CHECK" ELSE "EVALUATE",
          !.request = request, !.required = request.principal.version, !.now = clock,
          !.status = "OK", !.answer = None]]
    /\ UNCHANGED <<obj, net>>

\* turbo_flow_security_realm_refresh, called by the operator for the stored version.
Refresh(c) ==
    /\ obj.alive /\ obj.source /\ Open(c) \in {"IDLE", "DONE"} /\ call < MaxCalls
    /\ call' = call + 1
    /\ work' = [work EXCEPT ![c] = [@ EXCEPT
          !.pc = "REFRESH", !.request = None, !.required = 0, !.now = net.time,
          !.status = "OK", !.answer = None]]
    /\ UNCHANGED <<obj, net>>

\* The decision of an authorization provider is checked before it is returned.
RemoteAnswer(c, effect, version, ok) ==
    LET truthful == version = work[c].required
    IN  /\ Open(c) = "REMOTE"
        /\ Faulted(~ok)
        /\ IF ok /\ truthful
           THEN Answered(c, IF effect = "DENY" THEN "EPERM" ELSE "OK",
                         [effect |-> effect, reason |-> "REMOTE", rule |-> NoRule, version |-> version])
           ELSE Answered(c, "FAILED", None)
        /\ UNCHANGED <<obj, call>>

CheckAcquire(c) ==
    /\ Open(c) = "CHECK"
    /\ obj' = [obj EXCEPT !.snaps = Acquire(@)]
    /\ work' = [work EXCEPT ![c].pc = "CHECKED", ![c].snap = obj.active]
    /\ UNCHANGED <<call, net>>

\* A missing, other or expired policy is refreshed before the evaluation.
CheckRelease(c) ==
    LET version == VersionOf(work[c].snap)
        stale == version # work[c].required \/ Expired(Expires(version), work[c].now)
    IN  /\ Open(c) = "CHECKED"
        /\ obj' = [obj EXCEPT !.snaps = Release(@, work[c].snap)]
        /\ work' = [work EXCEPT ![c].pc = IF stale THEN "REFRESH" ELSE "EVALUATE",
                                ![c].snap = None]
        /\ UNCHANGED <<call, net>>

\* turbo_flow_security_realm_refresh: the provider and the version, under the lock.
RefreshBegin(c) ==
    /\ Open(c) = "REFRESH"
    /\ IF obj.policy
       THEN work' = [work EXCEPT ![c].pc = "LOAD", ![c].seen = ActiveVersion]
       ELSE Answered(c, "ENOTSUP", None)
    /\ UNCHANGED <<obj, call, net>>

\* flow_security_sqlite_load: one read transaction.
Loadable(required) == net.version # 0 /\ required \in {0, net.version}

\* The bundle is checked against the version seen before, and compiled.
BundleAccepted(c) ==
    LET policy == Policies[net.version]
    IN  /\ net.version >= work[c].seen
        /\ ~Expired(policy.expires, work[c].now)
        /\ PolicyValid(net.version, obj.matcher)

Load(c, ok) ==
    /\ Open(c) = "LOAD"
    /\ Faulted(~ok)
    /\ IF ok /\ Loadable(work[c].required) /\ BundleAccepted(c)
       THEN LET id == FreshId(obj.snaps)
            IN  /\ obj' = [obj EXCEPT !.snaps = (id :> [version |-> net.version, refs |-> 1]) @@ @]
                /\ work' = [work EXCEPT ![c].pc = "SWAP", ![c].snap = id]
       ELSE /\ work' = [work EXCEPT ![c].pc = "RELEASE", ![c].status = "FAILED"]
            /\ UNCHANGED obj
    /\ UNCHANGED call

(* Mutant: whatever was loaded last replaces the active policy. *)
ReplacesAny(active, version) == TRUE

\* The second critical section: only a newer policy replaces the active one.
Replaces(active, version) == active < version

Swap(c) ==
    LET version == obj.snaps[work[c].snap].version
    IN  /\ Open(c) = "SWAP"
        /\ IF Replaces(ActiveVersion, version)
           THEN /\ obj' = [obj EXCEPT !.active = work[c].snap]
                /\ work' = [work EXCEPT ![c].pc = "RELEASE", ![c].old = obj.active, ![c].snap = None]
           ELSE /\ work' = [work EXCEPT ![c].pc = "RELEASE", ![c].old = work[c].snap,
                      ![c].snap = None,
                      ![c].status = IF \/ ActiveVersion > version
                                       \/ Expired(Expires(ActiveVersion), work[c].now)
                                    THEN "FAILED" ELSE "OK"]
                /\ UNCHANGED obj
        /\ UNCHANGED <<call, net>>

\* The replaced or unused snapshot is released; authorize goes on to evaluate.
RefreshEnd(c) ==
    /\ Open(c) = "RELEASE"
    /\ obj' = [obj EXCEPT !.snaps = Release(@, work[c].old)]
    /\ IF work[c].status = "OK" /\ work[c].request # None
       THEN work' = [work EXCEPT ![c].pc = "EVALUATE", ![c].old = None]
       ELSE Answered(c, work[c].status, None)
    /\ UNCHANGED <<call, net>>

EvaluateAcquire(c) ==
    /\ Open(c) = "EVALUATE"
    /\ obj' = [obj EXCEPT !.snaps = Acquire(@)]
    /\ work' = [work EXCEPT ![c].pc = "EVALUATING", ![c].snap = obj.active]
    /\ UNCHANGED <<call, net>>

\* flow_security_realm_evaluate_validated; a wildcard matcher may fail.
Evaluate(c, ok) ==
    LET request == work[c].request
        version == VersionOf(work[c].snap)
        found == IF version = 0 THEN {} ELSE IndexRules(request, version)
        decision == EvaluateWith(request, work[c].now, version, found)
    IN  /\ Open(c) = "EVALUATING"
        /\ obj.matcher \/ ok
        /\ Faulted(~ok)
        /\ obj' = [obj EXCEPT !.snaps = Release(@, work[c].snap)]
        /\ IF ~ok \/ EvaluateInvalid(request, work[c].now)
           THEN Answered(c, "FAILED", None)
           ELSE Answered(c, IF decision.effect = "DENY" THEN "EPERM" ELSE "OK",
                         [effect |-> decision.effect, reason |-> decision.reason,
                          rule |-> decision.rule, version |-> version])
        /\ UNCHANGED call

(* ----------------------------- The operator ---------------------------- *)

\* turbo_flow_security_realm_bind_policy_provider / _bind_authorization_provider
BindPolicyProvider ==
    /\ obj.alive /\ obj.source /\ ~obj.policy /\ ~obj.remote
    /\ obj' = [obj EXCEPT !.policy = TRUE]
    /\ UNCHANGED <<work, call, net>>

BindAuthorizationProvider ==
    /\ obj.alive /\ obj.source /\ ~obj.policy /\ ~obj.remote
    /\ obj' = [obj EXCEPT !.remote = TRUE]
    /\ UNCHANGED <<work, call, net>>

\* turbo_flow_security_sqlite_provider_publish: one immediate transaction, newer only.
\* The store's rule check knows no matcher.
Publish(version) ==
    /\ version > net.version
    /\ PolicyValid(version, TRUE)
    /\ net' = [net EXCEPT !.version = version]
    /\ UNCHANGED <<obj, work, call>>

Tick ==
    /\ net.time < MaxTime
    /\ net' = [net EXCEPT !.time = @ + 1]
    /\ UNCHANGED <<obj, work, call>>

\* turbo_flow_security_realm_destroy, once nobody is inside.
Destroy ==
    /\ obj.alive /\ \A c \in Callers : Open(c) \in {"IDLE", "DONE"}
    /\ obj' = [obj EXCEPT !.snaps = Release(@, obj.active), !.active = None, !.alive = FALSE,
                          !.policy = FALSE, !.remote = FALSE]
    /\ UNCHANGED <<work, call, net>>

Next ==
    \/ \E c \in Callers :
          \/ \E r \in Requests, clock \in 0 .. MaxTime : Authorize(c, r, clock)
          \/ Refresh(c)
          \/ \E e \in {"ALLOW", "DENY"}, v \in Versions, ok \in BOOLEAN : RemoteAnswer(c, e, v, ok)
          \/ CheckAcquire(c) \/ CheckRelease(c) \/ RefreshBegin(c)
          \/ \E ok \in BOOLEAN : Load(c, ok) \/ Evaluate(c, ok)
          \/ Swap(c) \/ RefreshEnd(c) \/ EvaluateAcquire(c)
    \/ BindPolicyProvider \/ BindAuthorizationProvider
    \/ \E v \in Versions : Publish(v)
    \/ Tick \/ Destroy

Spec == Init /\ [][Next]_vars

(* ------------------------------ Properties ----------------------------- *)

\* What one rule says of a request, read without the index.
RuleMatches(rule, request) ==
    /\ rule.domain = request.domain /\ rule.type = request.type /\ request.action \in rule.actions
    /\ <<rule.kind, rule.subject>> \in Subjects(request.principal)
    /\ CASE rule.match = "EXACT" -> rule.pattern = request.resource
         [] rule.match = "PREFIX" -> /\ Len(rule.pattern) <= Len(request.resource)
                                     /\ \A i \in DOMAIN rule.pattern :
                                           rule.pattern[i] = request.resource[i]
         [] OTHER -> MatcherAccepts(rule.pattern, request.resource)

\* The decision a caller gets from the realm is the one the rules of the version it
\* reports give, read one by one: the first denying rule, else the first allowing
\* one.  It allows only under the version the principal names
\* (flow_security_realm_evaluate_validated, and the index it probes).
DecisionsFollowRules ==
    \A c \in Callers :
        LET a == work[c].answer
            r == work[c].request
        IN  (a # None /\ a.reason # "REMOTE") =>
               /\ a.reason \in {"DENY_RULE", "ALLOW_RULE", "DEFAULT_DENY"} =>
                     LET rules == Policies[a.version].rules
                     IN  [effect |-> a.effect, reason |-> a.reason, rule |-> a.rule]
                            = Decide(rules, {i \in DOMAIN rules : RuleMatches(rules[i], r)})
               /\ a.effect = "ALLOW" => /\ a.version = r.principal.version
                                        /\ ~Expired(Expires(a.version), work[c].now)

\* A snapshot lives exactly as long as the realm or a caller refers to it, however
\* refreshes and evaluations interleave (flow_security_policy_snapshot_acquire and
\* _release): nobody reads a freed policy and none is leaked.
SnapshotsHeld ==
    LET holders(id) == {c \in Callers : work[c].snap = id} \cup
                       (IF obj.active = id THEN {"active"} ELSE {})
        old(id) == {c \in Callers : work[c].old = id}
    IN  /\ \A c \in Callers : {work[c].snap, work[c].old} \ {None} \subseteq DOMAIN obj.snaps
        /\ {obj.active} \ {None} \subseteq DOMAIN obj.snaps
        /\ \A id \in DOMAIN obj.snaps :
              obj.snaps[id].refs = Cardinality(holders(id)) + Cardinality(old(id))

\* The realm never goes back to an older policy, whatever the order in which
\* concurrent refreshes finish (turbo_flow_security_realm_refresh).
PolicyNeverOlder == obj'.alive => ActiveVersion' >= ActiveVersion
=============================================================================
