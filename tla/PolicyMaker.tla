---- MODULE PolicyMaker ----
(***************************************************************************)
(* The policy actor (internal/runtime/actor/policy.go) and the evaluator   *)
(* it delegates to (internal/runtime/policy/evaluator.go), as functions of *)
(* the actor's state.  The actor handles one request at a time, so a       *)
(* request is one step of the module that uses these operators.            *)
(*                                                                         *)
(* The state is a record: counts is requestCounts, current says whether    *)
(* currentMinute is the minute the clock shows.  The actor clears the      *)
(* counts lazily, when a request finds another minute.                     *)
(***************************************************************************)
EXTENDS Integers

CONSTANTS
    Tenants,            \* the tenants that send requests
    Configured,         \* the tenants of Config.Tenants
    TenantAllowlist,    \* the tool's AuthorizationPolicy is the allowlist
    RequestsPerMinute,  \* the quota of each configured tenant, 0 = no limit
    ConcurrentSessions, \* the quota of each configured tenant, 0 = no limit
    CustomEvaluator,    \* the configured tenants with a PolicyEvaluator
    CountBound          \* counts saturate here, above every quota

ASSUME PolicyAssumption ==
    /\ Configured \subseteq Tenants
    /\ CustomEvaluator \subseteq Configured
    /\ TenantAllowlist \in BOOLEAN
    /\ CountBound \in Nat
    /\ RequestsPerMinute \in [Configured -> 0..CountBound]
    /\ ConcurrentSessions \in [Configured -> Nat]

PolicyState == [counts : [Tenants -> 0..CountBound], current : BOOLEAN]

\* PreStart: no counts, and a currentMinute no clock shows.
NewPolicy == [counts |-> [t \in Tenants |-> 0], current |-> FALSE]

\* The clock enters another minute.
MinutePasses(p) == [p EXCEPT !.current = FALSE]

\* The counts a request finds, cleared when the minute is another one.
CountsNow(p) == IF p.current THEN p.counts ELSE [t \in Tenants |-> 0]

\* The count includes the request, whatever the decision will be.
AfterRequest(p, t) ==
    [counts |-> [CountsNow(p) EXCEPT
                    ![t] = IF @ < CountBound THEN @ + 1 ELSE @],
     current |-> TRUE]

\* checkAuthorization
Authorized(t) ==
    \/ ~TenantAllowlist
    \/ Configured = {}
    \/ t \in Configured

\* Mutant: one session more than the quota.
OverSessionQuotaOffByOne(t, active) ==
    /\ t \in Configured
    /\ ConcurrentSessions[t] > 0
    /\ active > ConcurrentSessions[t]

\* checkQuotas, the first half.
OverSessionQuota(t, active) ==
    /\ t \in Configured
    /\ ConcurrentSessions[t] > 0
    /\ active >= ConcurrentSessions[t]

\* Mutant: one request more than the quota.
OverRateQuotaOffByOne(t, requests) ==
    /\ t \in Configured
    /\ RequestsPerMinute[t] > 0
    /\ requests > RequestsPerMinute[t]

\* checkQuotas, the second half: allow N, throttle N + 1.
OverRateQuota(t, requests) ==
    /\ t \in Configured
    /\ RequestsPerMinute[t] > 0
    /\ requests >= RequestsPerMinute[t]

Decisions == {"allow", "deny", "throttle"}

\* Mutant: a tenant without configuration has nothing to check.
EvaluateConfiguredOnly(t, active, requests) ==
    IF OverSessionQuota(t, active) \/ OverRateQuota(t, requests)
    THEN "throttle" ELSE "allow"

\* Evaluator.Evaluate on the snapshot taken before the request is counted.
Evaluate(t, active, requests) ==
    IF ~Authorized(t) THEN "deny"
    ELSE IF OverSessionQuota(t, active) \/ OverRateQuota(t, requests)
         THEN "throttle"
         ELSE "allow"

\* handleEvaluate: the decisions a request may get.  The tenant's own
\* evaluator is asked last and may turn an allow into a deny.
DecisionsFor(p, t, active) ==
    LET builtin == Evaluate(t, active, CountsNow(p)[t])
    IN  IF builtin = "allow" /\ t \in CustomEvaluator
        THEN {"allow", "deny"} ELSE {builtin}
====
