---- MODULE Pipeline ----
(***************************************************************************)
(* The invocation pipeline of one node: the router                         *)
(* (internal/runtime/actor/router.go, router_pipeline.go) with the policy  *)
(* actor, one tool's supervisor, its session grains and the audit journal. *)
(*                                                                         *)
(* The router handles one request at a time and waits for the answer to    *)
(* each Ask.  An Ask may time out; its message stays in the other actor's  *)
(* mailbox, is handled later, and the late answer is dropped.  So at most  *)
(* one message of each kind is awaited, and it is the last of its kind in  *)
(* its mailbox.                                                            *)
(*                                                                         *)
(* Admission by the supervisor's circuit breaker is ToolSupervisor's       *)
(* subject, and resolving credentials CredentialBroker's: here they have   *)
(* any outcome.  The router does not look whether the caller is still      *)
(* waiting, so callers only put requests into its mailbox.                 *)
(***************************************************************************)
EXTENDS PolicyMaker, Sequences, FiniteSets

CONSTANTS
    Requests,             \* requests (an id is issued again when it is free)
    TenantOf,             \* the tenant of each request
    CredentialsRequired,  \* the tool's CredentialPolicy is "required"
    MailboxSize,          \* Audit.MailboxSize after defaults
    InboxBound,           \* requests that wait in the router's mailbox
    BacklogBound          \* no Ask times out, and no session passivates, when
                          \* more messages than this are queued

ASSUME PipelineAssumption ==
    /\ IsFiniteSet(Requests)
    /\ TenantOf \in [Requests -> Tenants]
    /\ CredentialsRequired \in BOOLEAN
    /\ MailboxSize \in Nat \ {0}
    /\ InboxBound \in Nat
    /\ BacklogBound \in Nat

VARIABLES
    inbox,        \* the router's mailbox
    router,       \* the request it serves (or served last), and the stage
    policy,       \* the policy actor's state
    policyBox,    \* its mailbox: tenant and session count of each request
    sessions,     \* the supervisor's map: requests whose session it knows
    supervisorBox,\* its mailbox
    live,         \* sessions whose grain is active (one per request id)
    journal,      \* audit events in the journal's bounded mailbox
    dispatched,   \* history: dispatches of each tenant in this minute
    uncounted,    \* history: tenants whose sessions could not be counted
    late          \* history: tenants whose session request was abandoned

policyVars == <<policy, policyBox>>
supervisorVars == <<sessions, supervisorBox, live>>
historyVars == <<dispatched, uncounted, late>>
vars == <<inbox, router, policyVars, supervisorVars, journal,
          historyVars>>

Stages == {"idle", "lookup", "count", "policy", "admission", "credentials",
           "session", "execute", "emit"}

CountMessage(r) == [type |-> "CountSessions", of |-> r]
OpenMessage(r) == [type |-> "GetOrCreateSession", of |-> r]
ActivatedMessage(r) == [type |-> "SessionActivated", of |-> r]
DeactivatedMessage(r) == [type |-> "SessionDeactivated", of |-> r]
SupervisorMessages ==
    [type : {"CountSessions", "GetOrCreateSession", "SessionActivated",
             "SessionDeactivated"},
     of : Requests]

Tenant == TenantOf[router.request]
SessionsOf(S, t) == {r \in S : TenantOf[r] = t}

\* hasConcurrencyQuotas
HasConcurrencyQuotas == \E t \in Configured : ConcurrentSessions[t] > 0

Init ==
    \E r \in Requests :
        /\ inbox = <<>>
        /\ router = [request |-> r, stage |-> "idle"]
        /\ policy = NewPolicy
        /\ policyBox = <<>>
        /\ sessions = {}
        /\ supervisorBox = <<>>
        /\ live = {}
        /\ journal = 0
        /\ dispatched = [t \in Tenants |-> 0]
        /\ uncounted = {}
        /\ late = {}

----------------------------------------------------------------------------
(* The router.                                                             *)

Enter(stage) == router' = [router EXCEPT !.stage = stage]

\* The request has its result, or a stage failed: the audit event that
\* says so is emitted, then the request is answered.
Conclude == Enter("emit")

\* The bound on what is queued when an actor gives up on a message.
BacklogBounded ==
    Len(policyBox) + Len(supervisorBox) <= BacklogBound

Queued(r) == \E i \in 1..Len(inbox) : inbox[i] = r
Serving(r) == router.stage # "idle" /\ router.request = r

\* Gateway.Invoke and InvokeStream: the request enters the router's mailbox.
Invoke(r) ==
    /\ ~Queued(r)
    /\ ~Serving(r)
    /\ Len(inbox) < InboxBound
    /\ inbox' = Append(inbox, r)
    /\ UNCHANGED <<router, policyVars, supervisorVars, journal,
                   historyVars>>

\* handleRouteInvocation and handleRouteInvokeStream take a request and
\* validate it: one without a tool ID is audited and answered at once, and
\* one without an invocation is answered with no audit event.
TakeRequest ==
    /\ router.stage = "idle"
    /\ inbox # <<>>
    /\ inbox' = Tail(inbox)
    /\ \E stage \in {"lookup", "emit", "idle"} :
           router' = [request |-> Head(inbox), stage |-> stage]
    /\ UNCHANGED <<policyVars, supervisorVars, journal,
                   historyVars>>

\* The request of evaluatePolicy to the policy actor.
AskPolicy(active) ==
    /\ Enter("policy")
    /\ policyBox' = Append(policyBox, [tenant |-> Tenant, active |-> active])

\* lookupTool, and the first request of evaluatePolicy: the registrar is
\* asked to count the tenant's sessions when any tenant has such a quota.
LookupTool ==
    /\ router.stage = "lookup"
    /\ \/ /\ Conclude
          /\ UNCHANGED <<policyBox, supervisorBox>>
       \/ IF HasConcurrencyQuotas
          THEN /\ Enter("count")
               /\ supervisorBox' =
                      Append(supervisorBox, CountMessage(router.request))
               /\ UNCHANGED policyBox
          ELSE /\ AskPolicy(0)
               /\ UNCHANGED supervisorBox
    /\ UNCHANGED <<inbox, policy, sessions, live, journal, historyVars>>

\* The count fails, in the router's Ask or in the registrar's: it is 0.
CountTimeout ==
    /\ router.stage = "count"
    /\ BacklogBounded
    /\ AskPolicy(0)
    /\ uncounted' = uncounted \cup {Tenant}
    /\ UNCHANGED <<inbox, policy, supervisorVars, journal,
                   dispatched, late>>

\* Mutant: the evaluation is asked for again, with no limit.
PolicyTimeoutRetries ==
    /\ router.stage = "policy"
    /\ BacklogBounded
    /\ Enter("lookup")
    /\ UNCHANGED <<inbox, policyVars, supervisorVars, journal,
                   historyVars>>

PolicyTimeout ==
    /\ router.stage = "policy"
    /\ BacklogBounded
    /\ Conclude
    /\ UNCHANGED <<inbox, policyVars, supervisorVars, journal,
                   historyVars>>

\* The request of resolveSession.
AskSession ==
    /\ Enter("session")
    /\ supervisorBox' = Append(supervisorBox, OpenMessage(router.request))

\* lookupSupervisor and checkAcceptWork.
Admit ==
    /\ router.stage = "admission"
    /\ Enter("credentials") \/ Conclude
    /\ UNCHANGED <<inbox, policyVars, supervisorVars, journal, historyVars>>

\* resolveCredentials, which passes at once when the tool does not require
\* credentials; else it is the broker's answer, or a timeout.
ResolveCredentials ==
    /\ router.stage = "credentials"
    /\ \/ AskSession
       \/ CredentialsRequired /\ Conclude /\ UNCHANGED supervisorBox
    /\ UNCHANGED <<inbox, policyVars, sessions, live, journal, historyVars>>

SessionTimeout ==
    /\ router.stage = "session"
    /\ BacklogBounded
    /\ Conclude
    /\ late' = late \cup {Tenant}
    /\ UNCHANGED <<inbox, policyVars, supervisorVars, journal,
                   dispatched, uncounted>>

\* executeInvocation and executeInvocationStream return, or their Ask of
\* the grain times out.
Execute ==
    /\ router.stage = "execute"
    /\ Conclude
    /\ UNCHANGED <<inbox, policyVars, supervisorVars, journal,
                   historyVars>>

\* Mutant: the event is queued although the mailbox is full.
EmitWithoutWaiting ==
    /\ router.stage = "emit"
    /\ journal' = journal + 1
    /\ Enter("idle")
    /\ UNCHANGED <<inbox, policyVars, supervisorVars, historyVars>>

\* recordAuditEvent, then the response.  The Tell waits while the journal's
\* mailbox is full, and the router with it.
EmitAndRespond ==
    /\ router.stage = "emit"
    /\ journal < MailboxSize
    /\ journal' = journal + 1
    /\ Enter("idle")
    /\ UNCHANGED <<inbox, policyVars, supervisorVars, historyVars>>

----------------------------------------------------------------------------
(* The policy actor.                                                       *)

\* handleEvaluate: a request nobody waits for is counted all the same.
HandleEvaluate ==
    /\ policyBox # <<>>
    /\ LET in == Head(policyBox) IN
        /\ policy' = AfterRequest(policy, in.tenant)
        /\ \E decision \in DecisionsFor(policy, in.tenant, in.active) :
            IF router.stage = "policy" /\ Tail(policyBox) = <<>>
            THEN IF decision = "allow" THEN Enter("admission")
                 ELSE Conclude
            ELSE UNCHANGED router
    /\ policyBox' = Tail(policyBox)
    /\ UNCHANGED <<inbox, supervisorVars, journal, historyVars>>

----------------------------------------------------------------------------
(* The tool supervisor and the session grains.                             *)

Receives(type) == supervisorBox # <<>> /\ Head(supervisorBox).type = type

\* The router waits for the message at the head, not for a later one.
Awaited(stage) ==
    /\ router.stage = stage
    /\ \A i \in 2..Len(supervisorBox) :
           supervisorBox[i].type # Head(supervisorBox).type

\* handleCountSessionsForTenant, through the registrar's fan-out.
HandleCountSessions ==
    /\ Receives("CountSessions")
    /\ supervisorBox' = Tail(supervisorBox)
    /\ IF Awaited("count")
       THEN AskPolicy(Cardinality(SessionsOf(sessions, Tenant)))
       ELSE UNCHANGED <<router, policyBox>>
    /\ UNCHANGED <<inbox, policy, sessions, live, journal,
                   historyVars>>

\* handleGetOrCreateSession and OnActivate: the grain tells the supervisor
\* through the supervisor's mailbox, behind what is queued there already.
HandleGetOrCreateSession ==
    /\ Receives("GetOrCreateSession")
    /\ LET r == Head(supervisorBox).of
           awaited == Awaited("session")
       IN
        \/ /\ live' = live \cup {r}
           /\ supervisorBox' =
                IF r \in live THEN Tail(supervisorBox)
                ELSE Append(Tail(supervisorBox), ActivatedMessage(r))
           /\ IF awaited
              THEN /\ Enter("execute")
                   /\ dispatched' = [dispatched EXCEPT ![Tenant] =
                                         IF @ < CountBound + 2 THEN @ + 1 ELSE @]
              ELSE UNCHANGED <<router, dispatched>>
        \/ /\ r \notin live
           /\ supervisorBox' = Tail(supervisorBox)
           /\ IF awaited THEN Conclude ELSE UNCHANGED router
           /\ UNCHANGED <<live, dispatched>>
    /\ UNCHANGED <<inbox, policyVars, sessions, journal,
                   uncounted, late>>

HandleSessionActivated ==
    /\ Receives("SessionActivated")
    /\ sessions' = sessions \cup {Head(supervisorBox).of}
    /\ supervisorBox' = Tail(supervisorBox)
    /\ UNCHANGED <<inbox, router, policyVars, live, journal,
                   historyVars>>

HandleSessionDeactivated ==
    /\ Receives("SessionDeactivated")
    /\ sessions' = sessions \ {Head(supervisorBox).of}
    /\ supervisorBox' = Tail(supervisorBox)
    /\ UNCHANGED <<inbox, router, policyVars, live, journal,
                   historyVars>>

\* OnDeactivate after the idle timeout: a grain that serves a request is
\* not idle.
Passivate(r) ==
    /\ r \in live
    /\ ~(router.stage = "execute" /\ router.request = r)
    /\ BacklogBounded
    /\ live' = live \ {r}
    /\ supervisorBox' = Append(supervisorBox, DeactivatedMessage(r))
    /\ UNCHANGED <<inbox, router, policyVars, sessions, journal,
                   historyVars>>

----------------------------------------------------------------------------
(* The journal, and time.                                                  *)

\* handleRecordAuditEvent: a failed write is logged and the event dropped.
HandleRecordAuditEvent ==
    /\ journal > 0
    /\ journal' = journal - 1
    /\ UNCHANGED <<inbox, router, policyVars, supervisorVars,
                   historyVars>>

\* The clock enters another minute.
NextMinute ==
    /\ policy.current \/ \E t \in Tenants : dispatched[t] > 0
    /\ policy' = MinutePasses(policy)
    /\ dispatched' = [t \in Tenants |-> 0]
    /\ UNCHANGED <<inbox, router, policyBox, supervisorVars,
                   journal, uncounted, late>>

RouterStep ==
    \/ TakeRequest \/ LookupTool \/ Admit \/ ResolveCredentials
    \/ Execute \/ EmitAndRespond
    \/ CountTimeout \/ PolicyTimeout \/ SessionTimeout

SupervisorStep ==
    \/ HandleCountSessions \/ HandleGetOrCreateSession
    \/ HandleSessionActivated \/ HandleSessionDeactivated

Next ==
    \/ \E r \in Requests : Invoke(r) \/ Passivate(r)
    \/ TakeRequest \/ LookupTool \/ Admit \/ ResolveCredentials
    \/ Execute \/ EmitAndRespond
    \/ CountTimeout \/ PolicyTimeout \/ SessionTimeout
    \/ HandleEvaluate
    \/ HandleCountSessions \/ HandleGetOrCreateSession
    \/ HandleSessionActivated \/ HandleSessionDeactivated
    \/ HandleRecordAuditEvent
    \/ NextMinute

Spec == Init /\ [][Next]_vars

\* Every actor goes on with its mailbox.  Nothing is assumed of callers,
\* timeouts, passivation or the clock.
FairSpec ==
    /\ Spec
    /\ WF_vars(RouterStep)
    /\ WF_vars(HandleEvaluate)
    /\ WF_vars(SupervisorStep)
    /\ WF_vars(HandleRecordAuditEvent)

----------------------------------------------------------------------------
(* Properties.                                                             *)

\* Every variable keeps its type.
TypeOK ==
    /\ inbox \in Seq(Requests)
    /\ router \in [request : Requests, stage : Stages]
    /\ policy \in PolicyState
    /\ policyBox \in Seq([tenant : Tenants, active : Nat])
    /\ sessions \subseteq Requests
    /\ supervisorBox \in Seq(SupervisorMessages)
    /\ live \subseteq Requests
    /\ journal \in 0..MailboxSize
    /\ dispatched \in [Tenants -> 0..(CountBound + 2)]
    /\ uncounted \subseteq Tenants
    /\ late \subseteq Tenants

\* handleEvaluate decides before the minute of the dispatch is known: a
\* request may be counted in one minute and dispatched in the next.  Within
\* one calendar minute a tenant still gets no more than its quota and the
\* one request the router carried over, however many evaluations were
\* abandoned or delayed.
RateRespected ==
    \A t \in Configured :
        RequestsPerMinute[t] > 0 => dispatched[t] <= RequestsPerMinute[t] + 1

\* evaluatePolicy compares the quota with the sessions the supervisor has
\* registered, and a session registers behind the messages queued when it
\* is activated.  While the tenant's sessions can be counted the quota is
\* exact, unless a session request was abandoned: a count queued behind it
\* misses the session it opens, and the tenant has one more at most.
SessionQuotaRespected ==
    \A t \in Configured \ uncounted :
        ConcurrentSessions[t] > 0 =>
            Cardinality(SessionsOf(live, t)) <=
                ConcurrentSessions[t] + (IF t \in late THEN 1 ELSE 0)

\* checkAuthorization guards every way to a session: an abandoned request
\* in the supervisor's mailbox opens a session only for a tenant the tool
\* allows.
OnlyAuthorizedSessions ==
    /\ \A r \in live : Authorized(TenantOf[r])
    /\ \A i \in 1..Len(supervisorBox) :
           supervisorBox[i].type = "GetOrCreateSession"
               => Authorized(TenantOf[supervisorBox[i].of])

\* The router gets to every request and finishes it, whichever Asks time
\* out and although it waits while the journal's mailbox is full.
RequestsFinish == \A r \in Requests : Queued(r) ~> ~Queued(r) /\ ~Serving(r)
====
