---- MODULE ToolSupervisor ----
(***************************************************************************)
(* One tool's supervisor actor (internal/runtime/actor/tool_supervisor.go) *)
(* with everything that talks to it: the routers that ask for admission    *)
(* and for a session, the session grains that report outcomes and their    *)
(* own activation and passivation, the health checker that probes it, and  *)
(* the registrar that drains, resets, refreshes, stops and respawns it.    *)
(*                                                                         *)
(* The supervisor is an actor: it handles one message at a time, in the    *)
(* order of its mailbox.  Asks of the routers and Tells of the grains go   *)
(* through the mailbox.  Admin requests and health probes come from        *)
(* senders that no queued message depends on, so the moment they are       *)
(* handled is an arbitrary one and they need no place in the mailbox.      *)
(*                                                                         *)
(* A router handles one invocation at a time, but an invocation outlives   *)
(* it: a stream, a request that timed out, and the report that follows the *)
(* response run on while the router serves the next request.               *)
(***************************************************************************)
EXTENDS CircuitBreaker, Sequences, FiniteSets

CONSTANTS
    Invocations,             \* invocation slots (an id is reused when idle)
    Sessions,                \* session grain names
    Routers,                 \* router actors, one per node
    SessionOf,               \* the session each invocation is for
    RouterOf,                \* the router that serves each invocation
    SessionLimits,           \* values of Tool.MaxSessionsPerTool, 0 = no limit
    MaxSessionsPerTool,      \* the greatest of them
    CredentialPolicyRequired,\* Tool.CredentialPolicy may be "required"
    HealthProbing,           \* HealthProbe interval > 0
    AsksMayFail,             \* requests may time out, activations may fail
    Reregisters,             \* the registrar may stop and respawn the actor
    MailboxBound             \* no new work is routed beyond this backlog

ASSUME SupervisorAssumption ==
    /\ IsFiniteSet(Invocations)
    /\ IsFiniteSet(Sessions)
    /\ IsFiniteSet(Routers)
    /\ SessionOf \in [Invocations -> Sessions]
    /\ RouterOf \in [Invocations -> Routers]
    /\ MaxSessionsPerTool \in SessionLimits
    /\ SessionLimits \subseteq 0 .. MaxSessionsPerTool
    /\ MaxSessionsPerTool \in Nat
    /\ MailboxBound \in Nat
    /\ {CredentialPolicyRequired, HealthProbing, AsksMayFail, Reregisters}
          \subseteq BOOLEAN

VARIABLES
    running,   \* the supervisor actor exists
    tool,      \* x.tool: its state and its limit on sessions
    draining,  \* x.draining
    breaker,   \* x.circuit
    sessions,  \* x.sessions: names the supervisor has registered
    mailbox,   \* messages the supervisor has not handled
    stage,     \* where each invocation is
    live,      \* session grains that are active
    probes     \* history: invocations admitted in the current half-open period

vars == <<running, tool, draining, breaker, sessions, mailbox, stage, live,
          probes>>
actorVars == <<running, tool, draining, sessions>>

ToolStates == {"enabled", "disabled", "unavailable", "degraded"}
Tools == [state : ToolStates, limit : SessionLimits]

\* The zero x.tool of an actor whose PostStart failed: no message is about it.
NoTool == [state |-> "none", limit |-> 0]

\* idle       not issued
\* asked      CanAcceptWork sent, the router waits
\* accepted   admitted, the router resolves credentials
\* resolving  GetOrCreateSession sent, the router waits
\* executing  in the session grain, the router waits
\* detached   in the session grain (or its stream), the router has gone on
\* abandoned  the router gave up while its request sits in the mailbox
Stages == {"idle", "asked", "accepted", "resolving", "executing", "detached",
           "abandoned"}

InvocationMessages ==
    [type : {"CanAcceptWork", "GetOrCreateSession", "ReportSuccess",
             "ReportFailure"},
     of : Invocations]
SessionMessages ==
    [type : {"SessionActivated", "SessionDeactivated"}, of : Sessions]
Messages == InvocationMessages \cup SessionMessages

Msg(type, of) == [type |-> type, of |-> of]

Receives(type) == mailbox # <<>> /\ Head(mailbox).type = type

\* The history variable: probes are those of the current half-open period.
Track(b, admitted) ==
    probes' = IF b.state = CircuitHalfOpen
              THEN admitted \cup
                   (IF breaker.state = CircuitHalfOpen THEN probes ELSE {})
              ELSE {}

Init ==
    /\ running = TRUE
    /\ tool \in [state : {"enabled"}, limit : SessionLimits]
    /\ draining = FALSE
    /\ breaker = NewCircuitBreaker
    /\ sessions = {}
    /\ mailbox = <<>>
    /\ stage = [i \in Invocations |-> "idle"]
    /\ live = {}
    /\ probes = {}

----------------------------------------------------------------------------
(* The routers.                                                            *)

Busy(r) ==
    \E i \in Invocations :
        /\ RouterOf[i] = r
        /\ stage[i] \in {"asked", "accepted", "resolving", "executing"}

\* checkAcceptWork: the request leaves the router.  An abandoned id may be
\* issued again once its request has left the mailbox.
Route(i) ==
    /\ running
    /\ ~Busy(RouterOf[i])
    /\ stage[i] \in {"idle", "abandoned"}
    /\ \A k \in 1..Len(mailbox) :
           mailbox[k].type \in {"CanAcceptWork", "GetOrCreateSession"}
               => mailbox[k].of # i
    /\ Len(mailbox) < MailboxBound
    /\ stage' = [stage EXCEPT ![i] = "asked"]
    /\ mailbox' = Append(mailbox, Msg("CanAcceptWork", i))
    /\ UNCHANGED <<actorVars, breaker, live, probes>>

\* resolveCredentials, then the request of resolveSession, to the supervisor
\* that admitted the invocation.
ResolveSession(i) ==
    /\ stage[i] = "accepted"
    /\ stage' = [stage EXCEPT ![i] = "resolving"]
    /\ mailbox' = Append(mailbox, Msg("GetOrCreateSession", i))
    /\ UNCHANGED <<actorVars, breaker, live, probes>>

\* resolveCredentials fails: the pipeline ends after admission.
CredentialsUnavailable(i) ==
    /\ CredentialPolicyRequired
    /\ stage[i] = "accepted"
    /\ stage' = [stage EXCEPT ![i] = "idle"]
    /\ UNCHANGED <<actorVars, breaker, mailbox, live, probes>>

\* An Ask of the supervisor times out; the request stays in the mailbox.
AskTimeout(i) ==
    /\ AsksMayFail
    /\ stage[i] \in {"asked", "resolving"}
    /\ stage' = [stage EXCEPT ![i] = "abandoned"]
    /\ UNCHANGED <<actorVars, breaker, mailbox, live, probes>>

\* The router stops waiting for the grain: the stream is handed over, the
\* response is sent before the report, or AskGrain times out.
Detach(i) ==
    /\ stage[i] = "executing"
    /\ stage' = [stage EXCEPT ![i] = "detached"]
    /\ UNCHANGED <<actorVars, breaker, mailbox, live, probes>>

\* AskGrain and the opening of a stream fail before the grain has the request,
\* because it cannot be reached: nobody reports.
GrainUnreachable(i) ==
    /\ AsksMayFail
    /\ stage[i] = "executing"
    /\ stage' = [stage EXCEPT ![i] = "idle"]
    /\ UNCHANGED <<actorVars, breaker, mailbox, live, probes>>

----------------------------------------------------------------------------
(* The session grains.                                                     *)

\* Mutant: nothing is reported once the router has gone on.
ReportOutcomeUnlessDetached(i) ==
    /\ stage[i] \in {"executing", "detached"}
    /\ stage' = [stage EXCEPT ![i] = "idle"]
    /\ \E outcome \in {"ReportSuccess", "ReportFailure"} :
           mailbox' = IF stage[i] = "executing"
                      THEN Append(mailbox, Msg(outcome, i)) ELSE mailbox
    /\ UNCHANGED <<actorVars, breaker, live, probes>>

\* reportOutcomeToSupervisor: a Tell, lost when the supervisor is not there.
ReportOutcome(i) ==
    /\ stage[i] \in {"executing", "detached"}
    /\ stage' = [stage EXCEPT ![i] = "idle"]
    /\ \E outcome \in {"ReportSuccess", "ReportFailure"} :
           mailbox' = IF running THEN Append(mailbox, Msg(outcome, i))
                      ELSE mailbox
    /\ UNCHANGED <<actorVars, breaker, live, probes>>

\* OnDeactivate after the idle timeout: no invocation is in the grain.
Passivate(s) ==
    /\ s \in live
    /\ \A i \in Invocations :
           SessionOf[i] = s => stage[i] \notin {"executing", "detached"}
    /\ live' = live \ {s}
    /\ mailbox' = IF running THEN Append(mailbox, Msg("SessionDeactivated", s))
                  ELSE mailbox
    /\ UNCHANGED <<actorVars, breaker, stage, probes>>

----------------------------------------------------------------------------
(* The supervisor's handlers.                                              *)

\* handleCanAcceptWork, the checks before the breaker is touched.
Admissible == tool.state \notin {"none", "disabled"} /\ ~draining

\* Mutant: the limit is off by one.
AtSessionLimitOffByOne ==
    /\ tool.limit > 0
    /\ Cardinality(sessions) > tool.limit

\* The backpressure check, made after the breaker has been asked.
AtSessionLimit ==
    /\ tool.limit > 0
    /\ Cardinality(sessions) >= tool.limit

Accepts == Admissible /\ AcquireAccepts(breaker) /\ ~AtSessionLimit

AfterAcceptCheck == IF Admissible THEN Acquire(breaker) ELSE breaker

HandleCanAcceptWork ==
    /\ Receives("CanAcceptWork")
    /\ LET i == Head(mailbox).of IN
        /\ breaker' = AfterAcceptCheck
        /\ stage' = IF stage[i] # "asked" THEN stage
                    ELSE [stage EXCEPT ![i] =
                            IF Accepts THEN "accepted" ELSE "idle"]
        /\ Track(AfterAcceptCheck,
                 IF Accepts /\ stage[i] = "asked" THEN {i} ELSE {})
    /\ mailbox' = Tail(mailbox)
    /\ UNCHANGED <<actorVars, live>>

\* handleGetOrCreateSession and the grain's OnActivate, whose
\* SessionActivated is queued before the reply is sent.
HandleGetOrCreateSession ==
    /\ Receives("GetOrCreateSession")
    /\ LET i == Head(mailbox).of
           s == SessionOf[i]
           reply(st) == IF stage[i] = "resolving"
                        THEN [stage EXCEPT ![i] = st] ELSE stage
       IN
        \/ /\ tool # NoTool
           /\ live' = live \cup {s}
           /\ mailbox' = IF s \in live THEN Tail(mailbox)
                         ELSE Append(Tail(mailbox), Msg("SessionActivated", s))
           /\ stage' = reply("executing")
        \/ /\ tool = NoTool \/ (AsksMayFail /\ s \notin live)
           /\ mailbox' = Tail(mailbox)
           /\ stage' = reply("idle")
           /\ UNCHANGED live
    /\ UNCHANGED <<actorVars, breaker, probes>>

\* A message about another tool than x.tool changes nothing.
IfAboutTool(new, old) == IF tool = NoTool THEN old ELSE new

HandleReportSuccess ==
    /\ Receives("ReportSuccess")
    /\ breaker' = IfAboutTool(OnSuccess(breaker), breaker)
    /\ Track(IfAboutTool(OnSuccess(breaker), breaker), {})
    /\ mailbox' = Tail(mailbox)
    /\ UNCHANGED <<actorVars, stage, live>>

HandleReportFailure ==
    /\ Receives("ReportFailure")
    /\ breaker' = IfAboutTool(OnFailure(breaker), breaker)
    /\ Track(IfAboutTool(OnFailure(breaker), breaker), {})
    /\ mailbox' = Tail(mailbox)
    /\ UNCHANGED <<actorVars, stage, live>>

HandleSessionActivated ==
    /\ Receives("SessionActivated")
    /\ sessions' = IfAboutTool(sessions \cup {Head(mailbox).of}, sessions)
    /\ mailbox' = Tail(mailbox)
    /\ UNCHANGED <<running, tool, draining, breaker, stage, live, probes>>

\* Mutant: the registration is not deleted.
HandleSessionDeactivatedKeeps ==
    /\ Receives("SessionDeactivated")
    /\ mailbox' = Tail(mailbox)
    /\ UNCHANGED <<actorVars, breaker, stage, live, probes>>

HandleSessionDeactivated ==
    /\ Receives("SessionDeactivated")
    /\ sessions' = IfAboutTool(sessions \ {Head(mailbox).of}, sessions)
    /\ mailbox' = Tail(mailbox)
    /\ UNCHANGED <<running, tool, draining, breaker, stage, live, probes>>

\* handleRefreshToolConfig: the extension may hold any definition by now.
HandleRefreshToolConfig ==
    /\ running
    /\ tool' \in Tools
    /\ draining' = (draining /\ tool'.state # "enabled")
    /\ UNCHANGED <<running, breaker, sessions, mailbox, stage, live, probes>>

HandleDrainTool ==
    /\ running /\ tool # NoTool
    /\ draining' = TRUE
    /\ UNCHANGED <<running, tool, breaker, sessions, mailbox, stage, live,
                   probes>>

HandleGetToolStatus ==
    /\ running /\ tool # NoTool
    /\ breaker' = Peek(breaker)
    /\ Track(Peek(breaker), {})
    /\ UNCHANGED <<actorVars, mailbox, stage, live>>

HandleResetCircuit ==
    /\ running /\ tool # NoTool
    /\ breaker' = Reset(breaker)
    /\ Track(Reset(breaker), {})
    /\ UNCHANGED <<actorVars, mailbox, stage, live>>

\* probeTool: the health checker asks CanAcceptWork like a router, and does
\* nothing more with the answer than to compare it with the tool's state.
HealthProbe ==
    /\ HealthProbing
    /\ running
    /\ breaker' = AfterAcceptCheck
    /\ Track(AfterAcceptCheck, {})
    /\ UNCHANGED <<actorVars, mailbox, stage, live>>

----------------------------------------------------------------------------
(* The registrar's stop and respawn, and time.                             *)

\* stopSupervisorIfExists: queued requests fail, queued Tells are lost.  A
\* router that was let through has the PID of this actor, so the request for a
\* session it makes next fails as well.
StopSupervisor ==
    /\ Reregisters
    /\ running
    /\ running' = FALSE
    /\ mailbox' = <<>>
    /\ stage' = [i \in Invocations |->
                    IF stage[i] \in {"asked", "accepted", "resolving",
                                    "abandoned"}
                    THEN "idle" ELSE stage[i]]
    /\ UNCHANGED <<tool, draining, breaker, sessions, live, probes>>

\* spawnSupervisor, PreStart and PostStart: a new actor with a new breaker.
\* When PostStart fails the actor is resumed without a tool.
SpawnSupervisor ==
    /\ ~running
    /\ running' = TRUE
    /\ tool' \in Tools \cup {NoTool}
    /\ draining' = FALSE
    /\ breaker' = NewCircuitBreaker
    /\ sessions' = {}
    /\ probes' = {}
    /\ UNCHANGED <<mailbox, stage, live>>

Tick ==
    /\ breaker.state = CircuitOpen
    /\ breaker.openFor < Cooldown
    /\ breaker' = Elapse(breaker)
    /\ UNCHANGED <<actorVars, mailbox, stage, live, probes>>

----------------------------------------------------------------------------

Handle ==
    \/ HandleCanAcceptWork
    \/ HandleGetOrCreateSession
    \/ HandleReportSuccess
    \/ HandleReportFailure
    \/ HandleSessionActivated
    \/ HandleSessionDeactivated

Next ==
    \/ \E i \in Invocations :
        \/ Route(i)
        \/ ResolveSession(i)
        \/ CredentialsUnavailable(i)
        \/ AskTimeout(i)
        \/ Detach(i)
        \/ GrainUnreachable(i)
        \/ ReportOutcome(i)
    \/ \E s \in Sessions : Passivate(s)
    \/ Handle
    \/ HandleRefreshToolConfig
    \/ HandleDrainTool
    \/ HandleGetToolStatus
    \/ HandleResetCircuit
    \/ HealthProbe
    \/ StopSupervisor
    \/ SpawnSupervisor
    \/ Tick

Spec == Init /\ [][Next]_vars

\* The actor runtime delivers what is queued, a router goes on with an
\* invocation it has started, and execution is bounded by the request
\* timeout, so every execution ends in a report.  Clients, operators, the
\* health checker and time are not obliged to do anything.
Fairness ==
    /\ WF_vars(Handle)
    /\ \A i \in Invocations :
        /\ WF_vars(ResolveSession(i))
        /\ WF_vars(ReportOutcome(i))

FairSpec == Spec /\ Fairness

----------------------------------------------------------------------------
(* Properties.                                                             *)

\* Every variable has its type, whatever the actors do.
TypeOK ==
    /\ running \in BOOLEAN
    /\ tool \in Tools \cup {NoTool}
    /\ draining \in BOOLEAN
    /\ breaker \in Breakers
    /\ sessions \subseteq Sessions
    /\ mailbox \in Seq(Messages)
    /\ stage \in [Invocations -> Stages]
    /\ live \subseteq Sessions
    /\ probes \subseteq Invocations

\* The counters of the breaker agree with its state however reports, resets,
\* status queries and probes interleave (mcp/circuit.go, transitionTo): a
\* closed circuit has seen fewer consecutive failures than the threshold, an
\* open or half-open one exactly the threshold, slots exist only while
\* half-open and never more than HalfOpenMaxRequests.
CircuitWellFormed == WellFormed(breaker)

\* No more invocations are let through to a recovering backend than there
\* are half-open slots (mcp/circuit.go, Acquire), even when requests time
\* out, answers arrive late, or the health checker takes slots as well.
ProbesHoldSlots ==
    /\ probes # {} => breaker.state = CircuitHalfOpen
    /\ Cardinality(probes) <= breaker.halfOpenInFlight

\* An invocation that will still report its outcome.
WillReport(i) ==
    \/ stage[i] \in {"accepted", "resolving", "executing", "detached"}
    \/ \E k \in 1..Len(mailbox) :
           /\ mailbox[k].of = i
           /\ mailbox[k].type \in {"ReportSuccess", "ReportFailure"}

\* Every half-open slot belongs to an invocation that will still report, so
\* the slot is released (mcp/circuit.go:185, "the caller is committed to
\* reporting the outcome").
SlotsOwned ==
    breaker.state = CircuitHalfOpen =>
        /\ breaker.halfOpenInFlight = Cardinality(probes)
        /\ \A i \in probes : running => WillReport(i)

\* A message about the life of session s, and the mailbox has none beyond k.
About(m, s) ==
    m.type \in {"SessionActivated", "SessionDeactivated"} /\ m.of = s
NoneBeyond(k, s) == \A j \in (k + 1)..Len(mailbox) : ~About(mailbox[j], s)

\* The supervisor's registration map is authoritative once queued lifecycle
\* messages are applied (tool_supervisor.go, handleSessionActivated and
\* handleSessionDeactivated): the last message about a session tells whether
\* its grain is active, and without one the map does.
SessionMapAuthoritative ==
    \A s \in Sessions :
        /\ NoneBeyond(0, s) => (s \in live <=> s \in sessions)
        /\ \A k \in 1..Len(mailbox) :
            About(mailbox[k], s) /\ NoneBeyond(k, s) =>
                (s \in live <=> mailbox[k].type = "SessionActivated")

\* MaxSessionsPerTool (tool_supervisor.go, handleCanAcceptWork) is checked at
\* admission and the session is activated by a later message, so each router
\* can overshoot the limit by the one invocation it has admitted, and no more.
\* The limit is the greatest the tool was given while it had one: lowering it
\* ends no session.  It holds when no Ask is abandoned and the supervisor is
\* not replaced: a session may be opened for a router that has gone on, and a
\* new supervisor knows of none.
SessionOvershootBounded ==
    0 \notin SessionLimits =>
        Cardinality(live) <= MaxSessionsPerTool + Cardinality(Routers) - 1

\* A half-open circuit that rejects everyone because its slots are taken does
\* not stay so: the slots are released by an outcome (mcp/circuit.go, Acquire).
ProbeSlotsReleased ==
    LET exhausted ==
            /\ breaker.state = CircuitHalfOpen
            /\ breaker.halfOpenInFlight >= ProbeLimit
    IN exhausted ~> ~exhausted

\* The invocations that were let through and have not reported.
Admitted ==
    {i \in Invocations :
        stage[i] \in {"accepted", "resolving", "executing", "detached"}}

\* The supervisor keeps the promise of BreakerContract: the invocations let
\* through, and when, depend on the circuit as the contract says.
Contract ==
    INSTANCE BreakerContract WITH
        Calls <- Invocations,
        Limit <- ProbeLimit,
        gate <- breaker.state,
        cooled <- breaker.openFor >= Cooldown,
        working <- Admitted,
        trial <- probes

\* As a property of the supervisor: tool_supervisor.go, handleCanAcceptWork
\* lets an invocation through exactly when the circuit's contract allows it.
ImplementsContract == Contract!Spec

====
