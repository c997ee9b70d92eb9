---- MODULE Gateway ----
(***************************************************************************)
(* The gateway handle (gateway.go, api.go, admin.go): Start, Stop, the API *)
(* calls and audit subscriptions of concurrent goroutines of the           *)
(* application, with the manager actor that populates the actor system     *)
(* (internal/runtime/actor/gateway_manager.go) and the audit journal.      *)
(*                                                                         *)
(* g.mu protects the fields of Gateway; a step below is what a goroutine   *)
(* does between two points where another one can see the difference.  The  *)
(* actor system is external: it starts, spawns and stops as goakt reports, *)
(* and a Stop that fails leaves it running, with or without its actors.    *)
(*                                                                         *)
(* Each Start creates one actor system and one audit stream, so both, and  *)
(* the goroutine that polls the system's events, carry its number.         *)
(***************************************************************************)
EXTENDS Settings, Journal, FiniteSets

CONSTANTS
    Threads,         \* goroutines of the application
    Subscribers,     \* audit subscribers it may hold
    Configs,         \* the configurations New may be given
    ToolArguments,   \* the tools RegisterTool and UpdateTool may be given
    DefaultMailbox,  \* mcp.DefaultAuditMailboxSize
    Serialized,      \* Start and Stop are never called concurrently
    MaxStarts,       \* bound: actor systems created
    EventBound       \* bound: audit events written

None == 0
Systems == 1..MaxStarts
\* "services" are the health checker, the policy maker and the credential
\* broker, which nothing below tells apart.
Foundation == {"registrar", "journal", "services"}

\* mcp.Config, as far as the life of the gateway depends on it: the cluster and
\* its discovery provider, the TLS files of remoting, telemetry, the audit sink
\* and the size of the journal's mailbox, and the tenants.
GatewayConfigs ==
    [cluster : BOOLEAN, provider : BOOLEAN,
     useTLS : BOOLEAN, tls : SUBSET TLSFields, metrics : BOOLEAN,
     sink : SinkKinds \cup {"default"}, mailbox : Int, tenants : Seq(Nat)]

ASSUME GatewayAssumption ==
    /\ MaxStarts \in Nat
    /\ EventBound \in Nat
    /\ DefaultMailbox \in Nat \ {0}
    /\ Serialized \in BOOLEAN
    /\ Configs \subseteq GatewayConfigs
    /\ ToolArguments \subseteq [transport : Transports,
                                has : SUBSET ToolFields]

VARIABLES
    config,       \* g.config after New; it never changes
    system,       \* g.system
    draining,     \* g.draining
    auditStream,  \* g.auditStream
    consumer,     \* g.eventSub and g.eventStopCh
    pc,           \* where each goroutine is
    own,          \* the system, or stream, it holds in a local variable
    node,         \* the actor systems
    poller,       \* the goroutines of consumeSystemEvents
    stream,       \* the audit streams
    sub,          \* the stream each subscriber is attached to
    sink,         \* the audit sink in use
    started,      \* history: Start was called and no Stop has returned since
    failed,       \* history: the systems of Starts that failed
    written,      \* history: events whose Write returned no error
    reopened      \* history: a journal was given a closed sink

gatewayVars == <<system, draining, auditStream, consumer>>
threadVars == <<pc, own>>
auditVars == <<sink, written, reopened>>
vars == <<config, gatewayVars, threadVars, node, poller, stream, sub,
          auditVars, started, failed>>

StartLabels == {"options", "boot", "spawn", "publish", "subscribe"}
StopLabels == {"quiesce", "halt", "clear"}

\* New: defaults are applied, and the tenants validated.
New(cfg) ==
    /\ ValidateTenants(cfg.tenants)
    /\ config = ApplyDefaults(cfg, DefaultMailbox)

ConfiguredSink == config.sink # "default"

Init ==
    /\ \E cfg \in Configs : New(cfg)
    /\ system = None
    /\ draining = FALSE
    /\ auditStream = None
    /\ consumer = None
    /\ pc = [t \in Threads |-> "idle"]
    /\ own = [t \in Threads |-> None]
    /\ node = [s \in Systems |-> [state |-> "none", actors |-> {},
                                  booted |-> FALSE, mailbox |-> 0]]
    /\ poller = [s \in Systems |-> "none"]
    /\ stream = [s \in Systems |-> "none"]
    /\ sub = [u \in Subscribers |-> None]
    /\ sink = IF config.sink = "file" THEN NewFileSink(0) ELSE NewMemorySink
    /\ started = FALSE
    /\ failed = {}
    /\ written = 0
    /\ reopened = FALSE

----------------------------------------------------------------------------
(* Helpers.                                                                *)

Goto(t, label) == pc' = [pc EXCEPT ![t] = label]
Return(t) == pc' = [pc EXCEPT ![t] = "idle"] /\ own' = [own EXCEPT ![t] = None]

InLifecycle(t) == pc[t] \in StartLabels \cup StopLabels
MayCall(t) ==
    /\ pc[t] = "idle"
    /\ Serialized => \A u \in Threads : ~InLifecycle(u)

Unused(s) == node[s].state = "none" /\ stream[s] = "none"

\* The actors of a system stop; the journal's PostStop closes the sink, and
\* what was in its mailbox is lost.
JournalPostStop(s) ==
    sink' = IF "journal" \in node[s].actors THEN SinkClose(sink) ELSE sink

\* system.Stop succeeds: every actor is stopped.
SystemStopped(s) ==
    /\ node' = [node EXCEPT ![s] = [state |-> "stopped", actors |-> {},
                                    booted |-> TRUE, mailbox |-> 0]]
    /\ JournalPostStop(s)

\* system.Stop fails, after none or all of the actors have stopped.
SystemStopFailed(s) ==
    \/ UNCHANGED <<node, sink>>
    \/ /\ node' = [node EXCEPT ![s].actors = {}, ![s].mailbox = 0,
                               ![s].booted = TRUE]
       /\ JournalPostStop(s)

----------------------------------------------------------------------------
(* Start.                                                                  *)

\* Start up to actorSystemOptions.  "Start must not be called more than once
\* without an intervening Stop."  It fails on a cluster without a discovery
\* provider, when the metrics cannot be registered, and on TLS settings or
\* files that do not hold together.
Start(t) ==
    /\ MayCall(t)
    /\ ~started
    /\ \E s \in Systems : Unused(s)
    /\ started' = TRUE
    /\ \/ /\ ValidateCluster(config)
          /\ config.cluster /\ config.useTLS =>
                 \E loads \in SUBSET (config.tls \cap TLSFiles) :
                     BuildRemotingTLSInfo(config.tls, loads) # TLSError
          /\ Goto(t, "options")
       \/ /\ \/ ~ValidateCluster(config)
             \/ config.metrics
             \/ config.cluster /\ config.useTLS
          /\ UNCHANGED pc
    /\ UNCHANGED <<config, gatewayVars, own, node, poller, stream, sub,
                   auditVars, failed>>

\* Mutant: the system is published before it is started.
ActorSystemOptionsPublishes(t) ==
    /\ pc[t] = "options"
    /\ \E s \in Systems :
        /\ Unused(s)
        /\ \A r \in Systems : Unused(r) => s <= r
        /\ stream' = [stream EXCEPT ![s] = "open"]
        /\ auditStream' = s
        /\ system' = s
        /\ \/ /\ node' = [node EXCEPT ![s].state = "created"]
              /\ pc' = [pc EXCEPT ![t] = "boot"]
              /\ own' = [own EXCEPT ![t] = s]
              /\ UNCHANGED failed
           \/ /\ failed' = failed \cup {s}
              /\ Return(t)
              /\ UNCHANGED node
    /\ UNCHANGED <<config, draining, consumer, poller, sub,
                   auditVars, started>>

\* actorSystemOptions puts a new audit stream in place; then NewActorSystem.
\* A Start that fails from here on leaves the stream there, open; the next
\* Start replaces it without closing it.
ActorSystemOptions(t) ==
    /\ pc[t] = "options"
    /\ \E s \in Systems :
        /\ Unused(s)
        /\ \A r \in Systems : Unused(r) => s <= r
        /\ stream' = [stream EXCEPT ![s] = "open"]
        /\ auditStream' = s
        /\ \/ /\ node' = [node EXCEPT ![s].state = "created"]
              /\ pc' = [pc EXCEPT ![t] = "boot"]
              /\ own' = [own EXCEPT ![t] = s]
              /\ UNCHANGED failed
           \/ /\ failed' = failed \cup {s}
              /\ Return(t)
              /\ UNCHANGED node
    /\ UNCHANGED <<config, system, draining, consumer, poller, sub,
                   auditVars, started>>

\* system.Start
StartSystem(t) ==
    /\ pc[t] = "boot"
    /\ \/ /\ node' = [node EXCEPT ![own[t]].state = "running"]
          /\ Goto(t, "spawn")
          /\ UNCHANGED <<own, failed>>
       \/ /\ node' = [node EXCEPT ![own[t]].state = "failed"]
          /\ failed' = failed \cup {own[t]}
          /\ Return(t)
    /\ UNCHANGED <<config, gatewayVars, poller, stream, sub, auditVars,
                   started>>

\* The manager is spawned; when that fails the system is stopped again, and
\* an error of that Stop is ignored.
SpawnManager(t) ==
    /\ pc[t] = "spawn"
    /\ \/ /\ node' = [node EXCEPT ![own[t]].actors = {"manager"}]
          /\ Goto(t, "publish")
          /\ UNCHANGED <<own, failed>>
       \/ /\ \/ node' = [node EXCEPT ![own[t]].state = "stopped"]
             \/ UNCHANGED node
          /\ failed' = failed \cup {own[t]}
          /\ Return(t)
    /\ UNCHANGED <<config, gatewayVars, poller, stream, sub, auditVars,
                   started>>

\* g.managerName and, under the lock, g.system are set.
PublishSystem(t) ==
    /\ pc[t] = "publish"
    /\ system' = own[t]
    /\ IF config.metrics
       THEN Goto(t, "subscribe") /\ UNCHANGED own
       ELSE Return(t)
    /\ UNCHANGED <<config, draining, auditStream, consumer, node, poller,
                   stream, sub, auditVars, started, failed>>

\* startEventConsumer: without a subscription no goroutine is started.
StartEventConsumer(t) ==
    /\ pc[t] = "subscribe"
    /\ \/ /\ consumer' = own[t]
          /\ poller' = [poller EXCEPT ![own[t]] = "polling"]
       \/ UNCHANGED <<consumer, poller>>
    /\ Return(t)
    /\ UNCHANGED <<config, system, draining, auditStream, node, stream, sub,
                   auditVars, started, failed>>

----------------------------------------------------------------------------
(* Stop.                                                                   *)

Stop(t) ==
    /\ MayCall(t)
    /\ \/ /\ system = None
          /\ started' = FALSE
          /\ UNCHANGED <<draining, pc, own>>
       \/ /\ system # None
          /\ draining' = TRUE
          /\ own' = [own EXCEPT ![t] = system]
          /\ Goto(t, "quiesce")
          /\ UNCHANGED started
    /\ UNCHANGED <<config, system, auditStream, consumer, node, poller,
                   stream, sub, auditVars, failed>>

\* stopEventConsumer
StopEventConsumer(t) ==
    /\ pc[t] = "quiesce"
    /\ consumer' = None
    /\ poller' = IF consumer = None THEN poller
                 ELSE [poller EXCEPT ![consumer] = "signalled"]
    /\ Goto(t, "halt")
    /\ UNCHANGED <<config, system, draining, auditStream, own, node, stream,
                   sub, auditVars, started, failed>>

\* Mutant: a system that could not be stopped is forgotten.
StopSystemForgets(t) ==
    /\ pc[t] = "halt"
    /\ \/ /\ SystemStopped(own[t])
          /\ Goto(t, "clear")
          /\ UNCHANGED <<system, draining, own>>
       \/ /\ SystemStopFailed(own[t])
          /\ system' = None
          /\ draining' = FALSE
          /\ Return(t)
    /\ UNCHANGED <<config, auditStream, consumer, poller, stream,
                   sub, written, reopened, started, failed>>

\* system.Stop; when it fails the gateway serves again.
StopSystem(t) ==
    /\ pc[t] = "halt"
    /\ \/ /\ SystemStopped(own[t])
          /\ Goto(t, "clear")
          /\ UNCHANGED <<draining, own>>
       \/ /\ SystemStopFailed(own[t])
          /\ draining' = FALSE
          /\ Return(t)
    /\ UNCHANGED <<config, system, auditStream, consumer, poller, stream,
                   sub, written, reopened, started, failed>>

\* The rest of Stop, under the lock.
ClearStopped(t) ==
    /\ pc[t] = "clear"
    /\ stream' = IF auditStream = None THEN stream
                 ELSE [stream EXCEPT ![auditStream] = "closed"]
    /\ auditStream' = None
    /\ system' = None
    /\ draining' = FALSE
    /\ started' = FALSE
    /\ Return(t)
    /\ UNCHANGED <<config, consumer, node, poller, sub, auditVars, failed>>

\* consumeSystemEvents sees the closed channel and returns.
PollerEnds(s) ==
    /\ poller[s] = "signalled"
    /\ poller' = [poller EXCEPT ![s] = "ended"]
    /\ UNCHANGED <<config, gatewayVars, threadVars, node, stream, sub,
                   auditVars, started, failed>>

----------------------------------------------------------------------------
(* The API.  A call that requireRunning or its own validation rejects      *)
(* returns at once and changes nothing.                                    *)

\* requireRunning, then the lookup of an actor.
RequireRunning(t, label) ==
    /\ pc[t] = "idle"
    /\ ~draining
    /\ system # None
    /\ own' = [own EXCEPT ![t] = system]
    /\ Goto(t, label)
    /\ UNCHANGED <<config, gatewayVars, node, poller, stream, sub, auditVars,
                   started, failed>>

Invoke(t) == RequireRunning(t, "resolveRouter")
InvokeStream(t) == RequireRunning(t, "resolveRouter")
ListTools(t) == RequireRunning(t, "resolveRegistrar")
ListSessions(t) == RequireRunning(t, "resolveRegistrar")

\* RegisterTool and UpdateTool validate the tool first.
ChangeTool(t) ==
    /\ \E tool \in ToolArguments : ValidateTool(tool)
    /\ RequireRunning(t, "resolveRegistrar")
RegisterTool(t) == ChangeTool(t)
UpdateTool(t) == ChangeTool(t)

\* The calls that name a tool; an empty tool ID is an error.
DisableTool(t) == RequireRunning(t, "resolveRegistrar")
EnableTool(t) == RequireRunning(t, "resolveRegistrar")
RemoveTool(t) == RequireRunning(t, "resolveRegistrar")
DrainTool(t) == RequireRunning(t, "resolveRegistrar")
ResetCircuit(t) == RequireRunning(t, "resolveRegistrar")
GetToolStatus(t) == RequireRunning(t, "resolveRegistrar")
GetToolSchema(t) == RequireRunning(t, "resolveRegistrar")

\* GetGatewayStatus reads the fields, and requireRunning reads them again;
\* it answers "not running" when either says so.
GetGatewayStatus(t) == RequireRunning(t, "status")
StatusRequiresRunning(t) ==
    /\ pc[t] = "status"
    /\ IF draining \/ system = None
       THEN Return(t)
       ELSE pc' = [pc EXCEPT ![t] = "tools"]
            /\ own' = [own EXCEPT ![t] = system]
    /\ UNCHANGED <<config, gatewayVars, node, poller, stream, sub, auditVars,
                   started, failed>>

\* The manager is looked up, then its child, or the actor system-wide.
Resolves(s, actor) ==
    node[s].state = "running" /\ {"manager", actor} \subseteq node[s].actors

Resolve(t, label, actor, next) ==
    /\ pc[t] = label
    /\ IF Resolves(own[t], actor)
       THEN Goto(t, next) /\ UNCHANGED own
       ELSE Return(t)
    /\ UNCHANGED <<config, gatewayVars, node, poller, stream, sub, auditVars,
                   started, failed>>

ResolveRouter(t) == Resolve(t, "resolveRouter", "router", "ask")
ResolveRegistrar(t) == Resolve(t, "resolveRegistrar", "registrar", "ask")

\* GetGatewayStatus asks the registrar for the tools, then the sessions.
StatusTools(t) == Resolve(t, "tools", "registrar", "ask")

\* The answer to the Ask, or its timeout, or the actor is gone.
AskReturns(t) ==
    /\ pc[t] = "ask"
    /\ Return(t)
    /\ UNCHANGED <<config, gatewayVars, node, poller, stream, sub, auditVars,
                   started, failed>>

----------------------------------------------------------------------------
(* Audit subscriptions.                                                    *)

\* SubscribeAudit reads the stream under the lock ...
SubscribeAudit(t) ==
    /\ pc[t] = "idle"
    /\ auditStream # None
    /\ \E u \in Subscribers : sub[u] = None
    /\ own' = [own EXCEPT ![t] = auditStream]
    /\ Goto(t, "attach")
    /\ UNCHANGED <<config, gatewayVars, node, poller, stream, sub, auditVars,
                   started, failed>>

\* ... and attaches a new subscriber to it without the lock.
Attach(t) ==
    /\ pc[t] = "attach"
    /\ \/ \E u \in Subscribers :
              sub[u] = None /\ sub' = [sub EXCEPT ![u] = own[t]]
       \/ (\A u \in Subscribers : sub[u] # None) /\ UNCHANGED sub
    /\ Return(t)
    /\ UNCHANGED <<config, gatewayVars, node, poller, stream, auditVars,
                   started, failed>>

\* UnsubscribeAudit asks the current stream to remove the subscriber, which
\* has no effect on one that is attached to another stream.
UnsubscribeAudit(u) ==
    /\ sub[u] # None
    /\ sub[u] = auditStream
    /\ sub' = [sub EXCEPT ![u] = None]
    /\ UNCHANGED <<config, gatewayVars, threadVars, node, poller, stream,
                   auditVars, started, failed>>

----------------------------------------------------------------------------
(* The manager and the journal of a system.                                *)

\* spawnFoundationalActors, on PostStart: the registrar (in a cluster the
\* singleton, or the one that exists already), the journal, the health
\* checker, the policy maker and the credential broker, then the router if
\* all of them run.  The journal's PreStart takes the sink.
SpawnFoundationalActors(s) ==
    /\ node[s].state = "running"
    /\ "manager" \in node[s].actors
    /\ ~node[s].booted
    /\ \E up \in SUBSET Foundation, router \in BOOLEAN :
        /\ node' = [node EXCEPT
               ![s].booted = TRUE,
               ![s].actors = @ \cup up \cup
                   (IF up = Foundation /\ router THEN {"router"} ELSE {})]
        /\ IF "journal" \in up
           THEN /\ sink' = CreateAuditSink(ConfiguredSink, sink)
                /\ reopened' = (reopened \/ (ConfiguredSink /\ ~sink.open))
           ELSE UNCHANGED <<sink, reopened>>
    /\ UNCHANGED <<config, gatewayVars, threadVars, poller, stream, sub,
                   written, started, failed>>

\* An actor of the system tells the journal an event; the mailbox is bounded.
RecordAuditEvent(s) ==
    /\ "journal" \in node[s].actors
    /\ node[s].mailbox < config.mailbox
    /\ written + node[s].mailbox < EventBound
    /\ node' = [node EXCEPT ![s].mailbox = @ + 1]
    /\ UNCHANGED <<config, gatewayVars, threadVars, poller, stream, sub,
                   auditVars, started, failed>>

\* handleRecordAuditEvent: the event is written, and published on the
\* stream.  A write to a closed sink reports no error.
HandleRecordAuditEvent(s) ==
    /\ "journal" \in node[s].actors
    /\ node[s].mailbox > 0
    /\ node' = [node EXCEPT ![s].mailbox = @ - 1]
    /\ sink' \in SinkWrites(sink)
    /\ written' = IF sink.open /\ sink'.broken THEN written ELSE written + 1
    /\ UNCHANGED <<config, gatewayVars, threadVars, poller, stream, sub,
                   reopened, started, failed>>

----------------------------------------------------------------------------

StartSteps(t) ==
    \/ ActorSystemOptions(t)
    \/ StartSystem(t)
    \/ SpawnManager(t)
    \/ PublishSystem(t)
    \/ StartEventConsumer(t)

StopSteps(t) ==
    \/ StopEventConsumer(t)
    \/ StopSystem(t)
    \/ ClearStopped(t)

CallSteps(t) ==
    \/ StatusRequiresRunning(t)
    \/ ResolveRouter(t)
    \/ ResolveRegistrar(t)
    \/ StatusTools(t)
    \/ AskReturns(t)
    \/ Attach(t)

Calls(t) ==
    \/ Start(t)
    \/ Stop(t)
    \/ Invoke(t)
    \/ InvokeStream(t)
    \/ ListTools(t)
    \/ ListSessions(t)
    \/ RegisterTool(t)
    \/ UpdateTool(t)
    \/ DisableTool(t)
    \/ EnableTool(t)
    \/ RemoveTool(t)
    \/ DrainTool(t)
    \/ ResetCircuit(t)
    \/ GetToolStatus(t)
    \/ GetToolSchema(t)
    \/ GetGatewayStatus(t)
    \/ SubscribeAudit(t)

Next ==
    \/ \E t \in Threads : Calls(t) \/ StartSteps(t) \/ StopSteps(t)
                          \/ CallSteps(t)
    \/ \E u \in Subscribers : UnsubscribeAudit(u)
    \/ \E s \in Systems :
        \/ PollerEnds(s)
        \/ SpawnFoundationalActors(s)
        \/ RecordAuditEvent(s)
        \/ HandleRecordAuditEvent(s)

Spec == Init /\ [][Next]_vars

----------------------------------------------------------------------------
(* Properties.                                                             *)

\* A gateway that accepts calls (requireRunning) has a running actor system:
\* API calls never start on a system that Stop has already shut down or
\* that Start has not brought up.
ServingIsRunning ==
    system # None /\ ~draining => node[system].state = "running"

\* An actor system that runs is the gateway's, or is still being started.
\* The one exception is a system without actors: its manager could not be
\* spawned, and the Stop with which Start cleans up failed too.
NoSystemLeaked ==
    \A s \in Systems :
        node[s].state = "running" =>
            \/ s = system
            \/ s \in failed /\ node[s].actors = {} /\ poller[s] # "polling"
            \/ \E t \in Threads : own[t] = s /\ pc[t] \in {"spawn", "publish"}

\* The event poller of a system that has been stopped has been told to end
\* (startEventConsumer and stopEventConsumer pair up), so none outlives its
\* actor system; one that did not start has none.
PollerStopsWithSystem ==
    \A s \in Systems :
        node[s].state \in {"stopped", "failed"} => poller[s] # "polling"

\* A subscriber of a gateway that was started becomes inert when it is
\* stopped: once Stop is over the stream it is attached to is closed.  (After a
\* Start that failed nothing closes the stream it put in place.)
SubscriberInert ==
    \A u \in Subscribers, s \in Systems :
        sub[u] = s /\ node[s].state = "stopped" /\ s \notin failed =>
            \/ stream[s] = "closed"
            \/ \E t \in Threads : pc[t] = "clear" /\ own[t] = s

\* Stop leaves nothing behind of a gateway that was started: no actor system
\* that nobody will stop, no poller, no stream that still looks open to a
\* subscriber.  Of a Start that failed no poller is left, and an actor system
\* only without actors.
StopLeavesNothing == NoSystemLeaked /\ PollerStopsWithSystem /\ SubscriberInert

\* What the sink accepted it keeps, over flushes and the Close of the
\* journal's PostStop, as long as the disk works and no journal is given a
\* sink that an earlier Stop closed.
AuditComplete ==
    ConfiguredSink /\ ~sink.broken /\ ~reopened
        => written = sink.stored + sink.buffer

====
