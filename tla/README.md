# A verification project for goakt-mcp

goakt-mcp is a gateway between MCP clients and MCP tool backends, built from
actors: an invocation enters through an ingress, a router actor checks it, a
supervisor actor per tool admits or rejects it, and a session grain per
(tenant, client, tool) runs it on a backend executor. This project models the
parts of it that keep state and run concurrently, checks them with TLC and
proves their safety properties with TLAPS.

## Inventory

| Component | State | Operations | Interacts with |
|---|---|---|---|
| Circuit breaker (`mcp/circuit.go`) | state, failure count, time of opening, half-open slots in use | Peek, Acquire, OnSuccess, OnFailure, Reset | owned by one tool supervisor |
| Tool supervisor (`internal/runtime/actor/tool_supervisor.go`) | tool definition, draining flag, breaker, session map | CanAcceptWork, GetOrCreateSession, ReportSuccess/Failure, SessionActivated/Deactivated, RefreshToolConfig, DrainTool, ResetCircuit, GetToolStatus | routers (Ask), grains (Tell), registrar (spawn, stop, Ask, Tell), health checker (Ask) |
| Session grain (`session_grain.go`) | executor, credentials, counter of running streams | OnActivate, SessionInvoke, SessionInvokeStream, OnDeactivate | executor (calls), supervisor (Tell), stream goroutines and the caller (channels) |
| Registrar and catalog (`registrar.go`, `registrar_catalog.go`, `extension/extensions.go`) | catalog with schemas, supervisors, shared ToolConfigExtension | Register, Update, Disable, Enable, Remove, Drain, Bootstrap, UpdateToolHealth, queries | supervisors, health checker, gateway API, gateway managers of all nodes |
| Health checker (`health.go`) | none between rounds | a round: ListTools, probe each tool, UpdateToolHealth | registrar, supervisors |
| Router (`router.go`, `router_pipeline.go`) | references to the other actors | RouteInvocation, RouteInvokeStream | registrar, policy, credential broker, supervisor, grain, journal |
| Policy (`policy.go`, `policy/evaluator.go`) | request window per tenant | EvaluateRequest | router, registrar (session count) |
| Credential broker (`credential_broker.go`) | cache with expiry and a size limit | ResolveCredentials | providers, router |
| Journal (`journal.go`, `audit/`) | sink: open or closed, buffer, file | RecordAuditEvent, PostStop; Write, Close of a sink | router, supervisors, gateway (subscribers) |
| Gateway (`gateway.go`, `api.go`, `admin.go`, `gateway_manager.go`) | actor system, draining flag, event consumer, audit stream | Start, Stop, Invoke, InvokeStream, admin calls, audit subscriptions | all actors, goroutines of the application |
| Settings (`config/`, `mcp/tool_validation.go`, `security/tls.go`, `cluster/`) | none | defaults, validation of tenants and tools, TLS configuration, cluster options | gateway |
| gRPC ingress (`internal/ingress/grpc`, `mcp/auth.go`) | tool-name cache | CallTool, CallToolStream, ListTools, interceptors | gateway, token verifier |
| MCP ingresses (`internal/ingress/pkg`, `http`, `sse`, `ws`) | the MCP session: identity, tools, resources; a WebSocket connection | session opening, tool calls, resource reads; Read, Write, Close, pings | gateway, MCP SDK |
| Egress (`internal/egress/`) | one backend connection per executor | Execute, ExecuteStream, ReadResource, Close; schema, resource and descriptor fetches | session grains, registrar |

What is hard in this code: an actor handles one message at a time, but an
*operation* spans several actors, and each boundary is an Ask that may time out
while the request still sits in a mailbox, or a Tell that is lost when the
receiver is gone. Admission takes a half-open slot in one message and gives it
back in another, sent by another actor, on another path. A tool's definition
exists in three copies that are updated one after the other. Streams run in
goroutines beside the grain that started them. Outside the actors, goroutines of the
application share the gateway handle, those of the gRPC server share the tool-name
cache and its lock, and five goroutines share one WebSocket. An outcome passes four
conversions between a backend and a client.

Correctness, per component:

* breaker: counters agree with the state; no more half-open admissions than slots;
* supervisor: a slot is always owned by someone who will report; the session map
  follows the grains; the session limit is not exceeded by more than the races allow;
* grain: no executor leaks; no use of a closed executor; exactly one truthful
  report per invocation; deactivation ends;
* registrar: the copies of a definition agree; no change is lost; a disabled tool
  stays disabled;
* policy: quotas hold up to an overshoot that is known; only authorized tenants
  get sessions; every request is finished, although the audit path may block;
* credential cache: bounded; a replaced secret is not served beyond the TTL and the rest
  of the provider call that read it; the entry that is evicted is the right one;
* gateway: calls are let in only while the actor system runs; Stop leaves no system, no
  poller and no open stream of a started gateway behind, and a failed Start no poller and
  no actors (it does leave its stream open: a finding); what the audit sink accepted is
  stored;
* tool-name cache: bounded staleness; one refresh per expiry; every request answered;
* ingresses: where tokens are verified, nothing reaches the gateway without an accepted
  one; under enterprise authorization calls and sessions have the identity and scopes of
  it, unless the application resolves identities itself; a client is told success
  exactly when the backend said so, and gets its texts in their order;
* WebSocket: a write reports truly what was sent; a connection that is over ends all
  of its goroutines.

## Modules

| Module | What it is |
|---|---|
| `CircuitBreaker` | the breaker as a value, each method an operator on it |
| `BreakerContract` | abstract specification: what a circuit promises to the backend |
| `ToolSupervisor` | the supervisor and its mailbox, composed with routers, grains, health probes and re-registration; EXTENDS `CircuitBreaker` |
| `Registrar` | registrar, catalog, extension, the supervisors' copies of the definition, health checker |
| `SessionGrain` | one grain with its executors and the goroutines of its streams |
| `PolicyMaker` | the policy actor and its evaluator as functions of the actor's state |
| `Pipeline` | one node's router, policy actor, a tool's supervisor with its sessions, and the journal; EXTENDS `PolicyMaker` |
| `CredentialBroker` | the broker's cache |
| `Settings` | defaults, validation, TLS and cluster options as operators |
| `Journal` | an audit sink as a value, each operation an operator on it |
| `Gateway` | the gateway handle: Start, Stop, calls and subscriptions of goroutines, with the manager and the journal; EXTENDS `Settings`, `Journal` |
| `NameCache` | the gRPC ingress's tool-name cache under concurrent requests |
| `Conversion` | executors, schema fetches and conversions of results as operators |
| `Ingress` | the gRPC service and the MCP sessions in front of the gateway; EXTENDS `Conversion` |
| `WSConn` | one WebSocket connection and its goroutines |
| `ToolSupervisor_proofs` (with the breaker), `Registrar_proofs`, `SessionGrain_proofs`, `Pipeline_proofs`, `CredentialBroker_proofs`, `NameCache_proofs`, `Gateway_proofs`, `Ingress_proofs` (with `WSConn`) | theorems and their proofs |
| `MCToolSupervisor`, `MCRegistrar`, `MCSessionGrain`, `MCPipeline`, `MCCredentialBroker`, `MCGateway`, `MCNameCache`, `MCIngress`, `MCWSConn` | instances for TLC |

Operators named as mutants in their comments are plausible bugs. No specification uses
them; they show that a property notices.

### How state and actions correspond to the code

**CircuitBreaker.** A record with the fields of `CircuitBreaker`. The clock enters
the code only as `now - openedAt >= OpenDuration`, so the record carries `openFor`,
the time since opening, which stops growing at `OpenDuration`; `Elapse` is one unit
of it. `Threshold`, `Cooldown` and `ProbeLimit` are the sanitised parameters.
`Acquire` returns an outcome and changes the breaker: `AcquireAccepts` and
`Acquire` are the two halves.

**ToolSupervisor.** `running`, `tool`, `draining`, `breaker`, `sessions` are the
actor's fields; `mailbox` holds the routers' Asks and the grains' Tells in order.
Each `Handle...` action is one handler, whole. `stage[i]` says where an
invocation is between router and grain. A router waits in an Ask, so it has one
invocation in the stages before `detached`; `AskTimeout` abandons the wait and
leaves the message queued. A grain's activation happens inside
GetOrCreateSession, so `HandleGetOrCreateSession` appends SessionActivated.
Admin requests and health probes need no place in the mailbox because nothing
queued depends on their sender; they are actions enabled at any time.
`GrainUnreachable` is an AskGrain that fails before the grain has the request: nobody
reports. `tool` is the part of the definition the handlers read, the state and
`MaxSessionsPerTool`; a refresh may change both. `StopSupervisor`/`SpawnSupervisor` are
the two halves of a re-registration, between which reports are lost. A router keeps the
PID it looked up, so an invocation the old actor admitted gets no session from the new
one. A `PostStart` that fails leaves a running actor without a tool (`NoTool`), which
ignores reports and rejects requests until a refresh gives it one. `probes` is a history
variable: the invocations admitted in the current half-open period.

**Registrar.** A tool definition is its state, its transport kind and the value of
that transport's configuration. Each registrar handler is one action, including
the writes to the extension, the stop and spawn of a supervisor and the Tell to
it. Schema fetch and spawn may fail. A supervisor reads the extension when it
handles PostStart or RefreshToolConfig, not when the message is sent. The health
checker takes a snapshot (`HealthList`), probes one tool at a time (`HealthProbe`)
and its updates reach the registrar later (`HandleUpdateToolHealth`). `asked` is
a history variable: the operator disabled the tool and has not enabled it since.

**SessionGrain.** `handling`, `step` and `target` are where `OnReceive` is, since
an execution, a recovery and a retry are separate steps that streams interleave
with. `handles` is the state of every executor ever created. A stream is a record of
its three goroutines: the producer (executor), the forwarder (`forwardStream`) and
the consumer (`CallToolStream`), and of the channels between them. `told` is the
sequence of calls of `reportOutcomeToSupervisor` and `notifySupervisor`. Both return
without a Tell when the supervisor has no PID; that loss is in `ToolSupervisor`, where
`ReportOutcome` and `Passivate` send nothing to a supervisor that is not running.

**PolicyMaker and Pipeline.** `router` is the request the router serves and the stage
it is in: each stage of `runPreExecutionPipeline`, the execution and the audit event is
one action, or two when it is an Ask (the request, and its answer or timeout). The
mailboxes of the policy actor and the supervisor keep abandoned requests, which are
handled like others; their answers are dropped. `policy` is `requestCounts` and
whether `currentMinute` is still current. A request stands for its tenant and client,
so its session is named after it: `live` are the active grains, `sessions` those the
supervisor has registered, and the two differ while SessionActivated and
SessionDeactivated are queued. `journal` counts the events in the bounded mailbox.
The breaker's admission (subject of `ToolSupervisor`) and credentials have any
outcome here. The policy actor and the journal run, as the manager makes sure
before it spawns the router. The router's Asks share one deadline, which the model
leaves out: after one Ask times out the next may still be answered, so the model has
more behaviours than the code. `dispatched`, `uncounted` and `late` are history
variables: dispatches in this minute, tenants whose sessions could not be counted
and tenants with an abandoned session request.

**CredentialBroker.** An entry carries its age instead of `expiresAt`, and instead of
`lastAccess` the keys accessed after it, which is all eviction compares. The moment
of expiry is kept apart: then an entry is no longer served and not yet counted as
expired. A request that misses is three steps: the broker asks the providers, one of
them reads the secret (or none has it), and the answer is stored, with an `expiresAt`
taken only then. Time and replacements of secrets come in between; `MaxCall` names
the longest time from the reading to the answer; the broker itself sets no deadline. `call` is the
request under way; `old` (how long ago the provider replaced the secret), `since` and
`served` are history. A provider may answer or fail at any request.

**Settings, Journal and Gateway.** `system`, `draining`, `auditStream` and `consumer` are
the fields `g.mu` protects; `pc` and `own` are where a goroutine is in a call and the
system it holds in a local variable. A step is what happens between two points at
which another goroutine can see the difference, so Start has six and Stop four. Each
Start makes one actor system, one audit stream and at most one event poller, so the
three carry its number. The actor system is external: it starts, spawns and stops as
goakt reports, and a failed stop leaves it running with all or none of its actors.
`SpawnFoundationalActors` is the manager's PostStart, in which any of the actors may
fail to spawn. The journal is opened by PreStart with the configured sink, the same one
for every Start, and closes it in PostStop. `Serialized` says that the application does
not call Start and Stop concurrently; calls and subscriptions overlap them and each other
in any way. `started`, `failed` (the systems of Starts that failed), `written` and
`reopened` are history.

**NameCache.** A critical section without a blocking call is one step. The write lock is
held over ListTools, so `Lock`, `ListReply` and `Refresh` are three, and others wait in
`Resolve` and `Lock` meanwhile. ListTools returns the catalog in any order, as it
iterates over a map, and takes at most `ListTimeout`. With the cache turned off
(`List`, `ResolveToolID`) the first tool of the list with the name wins; in the cache the
last one does. `lastSeen` is history: when each catalog was last the registrar's.

**Conversion and Ingress.** A content item is its type, the set of its fields that
are not empty and a number for what they say, so that two texts are told apart; a tool is
its transport, what its backend has, and whether its descriptors are complete. A header is
what the token verifier says of it. A name is resolved by any catalog among `recent`: what
`NameCache` shows of the cache. A session keeps the tools, resources and identity it was
opened with, while each request brings its own header, except on a WebSocket, which has
only that of the upgrade. A tool handler reads the scopes from its context, which is the
request's or the one the session was opened with, as the MCP SDK chooses: the model has
both. What the router's pipeline does in between is any of its outcomes: it is the subject
of `Pipeline`.

**WSConn.** `reader` is the SDK's goroutine, which calls Read until it fails; `writer` are
calls of Write; `pinger` and `handler` are pingLoop and ServeHTTP; `closing` is the
body of `closeOnce`, in its three steps. gorilla/websocket is external: its read error
sticks, and the read after `MaxFailedReads` failed ones panics (1000 in the library); its
write buffer belongs to whoever wrote it last; nothing is written after a close frame.

## Runs

| Run | Question | Result |
|---|---|---|
| `sup_faults` | does the breaker keep its contract when Asks time out, credentials fail, the health checker probes and the tool is re-registered? | yes |
| `sup_reliable` | with none of these, is every slot owned and released, and is the session map right? | yes |
| `sup_cap` | how far can the session limit be exceeded? | by one per additional router |
| `registrar` | do the copies of a tool agree, and do changes reach the supervisor? | yes |
| `registrar_disabled` | does a disabled tool stay disabled? | no: finding |
| `grain` | executors, reports, streams, deactivation | yes |
| `pipeline` | do quotas and authorization hold, and are requests finished, whatever times out? | yes, with an overshoot of one |
| `broker` | is the cache bounded, is what it serves recent, is the right entry evicted? | yes, up to the TTL and one provider call; the TTL alone is exceeded when a secret is replaced during the call |
| `gateway` | are calls let in only on a running system, does Stop leave nothing behind, is the audit complete, whatever step of Start or Stop fails? | yes, for lifecycle calls that do not overlap and a sink that is not reused |
| `name_cache` | how stale can a name be, who refreshes, is everyone answered? | one TTL and one ListTools; one request per expiry; yes |
| `ingress` | is what reaches the gateway authorized where tokens are verified, and is what the client is told true? | yes; a gRPC server without interceptors verifies none (a finding) |
| `ws` | do writes tell the truth, and does every goroutine of a connection end? | yes, unless an idle peer makes a read panic |

Bounds. The supervisor runs have two invocations of two routers (three in
`sup_cap`, so that two share a router and a session is opened behind a full
limit), each with its own session; two invocations suffice for one to be a late
report while the other probes. The failure threshold is 2, so one failure, the
tripping failure and a reset in between all occur, the cooldown is one unit, and
the number of half-open slots is 2 in `sup_faults` and 0 (sanitised to 1)
elsewhere. The limit on sessions is one in `sup_cap`, where a greater one could not be
exceeded by three sessions (the theorem covers limits that change), changes between none
and one in `sup_faults` and is none in `sup_reliable`. The two nodes of `sup_faults` are
alike, so that run uses their symmetry. `MailboxBound` stops new work at a backlog of two;
replies, reports and lifecycle messages are never held back, so longer mailboxes occur.
The registrar runs have one tool (tools share nothing but the registrar's loop), two
backends, a transport whose configuration an update keeps and one whose configuration it
does not, and a backlog of three messages per supervisor. The grain runs have two requests
(one stream and one invocation, or two streams), three executors (activation, one
recovery, a second activation or recovery), two events per stream and activations until
four messages have been told. Requests of the grain are finite, so its run may stop: it
does not check deadlock. The pipeline run has two requests of a tenant with both quotas at
one and a custom evaluator, and one of a tenant that is not allowed; a request's id is
used again when it is free, so requests never end. One request waits in the router's
mailbox, an Ask times out or a session passivates while at most one message is queued (the
abandoned message and those behind it stay), and the audit mailbox holds one event. Both
overshoots the properties allow occur. The broker run has four keys for three entries, a
TTL of two units and provider calls of up to one, so that entries are fresh, expiring and
expired when the cache is full, and a secret is replaced while it is read. The keys are
alike, so the run uses their symmetry. The gateway run has two goroutines, so that a call,
a subscription or the other half of an operation overlaps every step of Start and Stop;
two starts, so that there is a restart and a cleanup after a failed one; one subscriber,
which may be left over from the first; two audit events, one in the buffer while another
is written; and four configurations, of which New refuses one and Start another. The
application may stop calling, so deadlock is not checked there, in `name_cache` (the clock
is bounded), `ingress` (the number of requests is) and `ws` (a connection ends). The name
cache run has two requests that start again when they are over, a TTL of two ticks or
none, ListTools of up to one tick and three ticks in all: a map is filled, expires and is
filled again, after a list that was old already; its two catalogs share a name between
different tools. The ingress run has one client, whose requests need no other to go wrong,
since clients share only the name cache; four requests, so that a session opens, calls,
reads and calls again after the catalog has changed; configurations with and without
enterprise authorization, interceptors and a resolver of the application's; headers that
are accepted, lack scopes, yield no token info or are rejected; tools of the three
transports, one unreachable, one with incomplete descriptors; and answers of every kind,
one with two texts around an image. The WebSocket run has two writers, one frame of the
peer, and a panic at the third failed read, so that a read fails, is retried, and fails
for good.

Fairness. `ToolSupervisor` assumes that the actor runtime delivers what is in a
mailbox, that a router continues an invocation it has started, and that an execution
ends in a report (the request timeout bounds it). `Registrar` assumes delivery of a
supervisor's mailbox. `SessionGrain` assumes that OnReceive and goroutines run,
bounded by the request timeout, the stream's context and the send timeout, and that
a deactivation the engine has begun is carried out. `Pipeline` assumes that the
router, the policy actor, the supervisor and the journal each go on with their
mailbox, and that the router's Asks end (in an answer or in the timeout). `NameCache`
assumes that goroutines run and ListTools returns (weak fairness), and that a request
gets the lock if it is free again and again (strong fairness of `Resolve` and `Lock`:
Go's RWMutex starves neither readers nor writers). `WSConn` assumes that the handler, the
reader, the ping loop, Close and a write that has begun go on; reads have a deadline.
`Gateway` and `Ingress` check safety only. Nobody assumes anything of
clients, operators, health probes, time, peers or stream consumers.

## Findings

1. `registrar_disabled`: a health update computed from an old snapshot overwrites
   the disabled state.
2. Found while modelling, without a run (`PROJECT.json` quotes the lines). They are
   behaviours of the models, or assumptions the models state:
   * a health probe takes the only half-open slot and nobody reports on it: until an
     operator resets the circuit, the tool rejects everything; so does an invocation that
     fails between admission and its grain;
   * the late success of an invocation admitted before the circuit opened closes the
     half-open circuit;
   * recovery closes the executor under a running stream;
   * an abandoned stream closes Final without a result;
   * Stop closes the audit sink, and the next Start uses it again: later events are
     accepted and lost;
   * a failed Start leaves its audit stream in place, open: SubscribeAudit succeeds
     afterwards, and the next Start replaces the stream without closing it;
   * Starts and Stops that overlap leave a draining flag, a poller or a system behind;
   * a gRPC server without interceptors answers ListTools, and calls whose identity the
     application resolves, without a token, under enterprise authorization too;
   * the gRPC ingress loses the MIME type of content and does not decode its data;
   * the gRPC executor never reads the configured method when it calls;
   * a WebSocket without traffic for one read deadline spins until a read panics;
   * resolved credentials reach no executor.
3. Found while reading (`PROJECT.json` quotes the lines):
   * an update of a gRPC tool replaces its transport configuration;
   * any update of an enabled tool ends its draining;
   * allowed policy decisions are not in the audit journal;
   * optional credentials are never resolved;
   * a live session goes on with a replaced secret, and expired secrets stay in
     memory while the cache is not full;
   * the router waits for the audit journal when its mailbox is full;
   * a tenant at its limit of sessions is throttled on the sessions it has.

The overshoot that `SessionQuotaRespected` and `RateRespected` allow is what the code
does and no document excludes: one request counted in the minute before, one session
opened by an abandoned request; and the session quota is not enforced when the
count fails.

## Proofs

The theorems hold for all values of the constants that satisfy the named
assumptions: integers of any sign for the circuit's configuration
(`CircuitConfigAssumption`), finite sets of invocations, sessions and routers and
functions of the right type and limits on sessions with a greatest one
(`SupervisorAssumption`), the bounds natural numbers (`RegistrarAssumption`,
`GrainAssumption`, `PipelineAssumption`, `BrokerAssumption`), rate quotas below the
bound at which counts saturate (`PolicyAssumption`), finite catalogs whose tools have
known names (`ConstantsAssumption` of `NameCache`), and absent values distinct from
present ones. `GatewayAssumption` types the configurations and bounds of `Gateway`, and
`ConstantsAssumption` of `Ingress` what a verifier, a tool and a backend can be: three
verdicts, three transports, and answers whose text items are texts and nothing else.

* `ToolSupervisor_proofs` begins with what each operation of the breaker preserves: its
  type, `WellFormed`, and where half-open slots can come from. `TypeCorrect`,
  `CircuitSafe` and `ProbesBounded` follow from one inductive invariant: types, the
  breaker's well-formedness, and that probes are within the slots. The bound on probes
  needs the well-formedness (outside the half-open state there are no slots) and the
  finiteness of invocations. `Refinement` shows that every step of the supervisor is a
  step of `BreakerContract` or leaves its variables unchanged.
  * `MapCorrect`, for a supervisor that is not replaced. `SessionMapAuthoritative` says
    of every session that the last lifecycle message queued for it, or the map if
    there is none, agrees with the grain; stated by position in the mailbox it is
    inductive with the types and that the supervisor has a tool, since a message is
    appended exactly when a grain changes and applied when it is the first.
  * `SlotsHaveOwners`, for callers that all report (`CallersReport`: no health probing, no
    failed Ask, no re-registration, no required credentials and no session limit, each of
    which leaves a slot behind; see the findings). `SlotInv` says that every probe is
    between admission and report or has its report queued, that a queued request belongs
    to a router that still waits for its answer, and that the slots in use of a half-open
    circuit are as many as the probes.
  * `OvershootBounded`, when no Ask is abandoned and the supervisor is not replaced
    (`NothingLost`). The number of sessions alone is not inductive: `CapInv` bounds the
    sessions that live *or are claimed* by an invocation that was admitted and has not
    activated its session yet. A router has at most one such invocation, because it waits
    in its Ask. The map lags behind by the SessionActivated messages that are queued: each
    is owed to a router of its own, which has been granted nothing since and has no
    activation under way. The limit a refresh sets is never above the greatest, which is
    what the bound speaks of.
* `Registrar_proofs`: `RecordsStayTogether` is inductive with the types;
  `NoRefreshLost` needs that a PostStart or refresh is queued *after* every change
  of the extension, so its invariant speaks of the mailbox as a whole;
  `SchemasCurrent` needs that a fetch is of the definition that goes into the catalog
  with it and that an update which keeps the schemas keeps the endpoint too;
  `DisabledHoldsWithoutProbing` shows that the health update is the only way a
  disabled tool comes back.
* `SessionGrain_proofs`: `TypeCorrect`, `NoLeak` and `DispatchOpen` from an invariant
  that adds that OnReceive runs only in an active grain and dispatches to the
  executor it holds, that streams live within an activation, and that a producer that
  has ended has left a result in Final. `ReportedOnce`, `SuccessTrue` and `WithinSession`
  add `ToldInv`: what has been told of a request, by where that request is (nothing while
  the grain or its forwarder is at it, one report after), what its caller was given, and
  whether the last message told was a deactivation, by the state of the grain.
* `Pipeline_proofs`: `TypeCorrect`; `OnlyAuthorized`, whose invariant adds that the
  request the router waits for is the last in the policy actor's mailbox (so that an
  answer decides the request it was asked for, whatever was abandoned before) and that
  a request past policy is of an authorized tenant; `RateLimited`, whose invariant
  counts what was dispatched and what is on its way against what the policy actor
  counted in this minute, up to the quota, and one. `QuotaExact` needs to know what a
  count in flight has missed: `QuotaInv` says that every live session is registered or
  has its registration queued behind anything that would remove it; that a tenant has at
  most one session request and one registration queued, the registration first; that the
  count the router waits for is behind the tenant's session requests, and in front of a
  registration only after an abandoned request; and that the active sessions are at most
  what was counted, or one more after an abandoned request, with room left while a
  granted request is on its way.
* `CredentialBroker_proofs`: `TypeCorrect`; `Expiry`, whose invariant says that a cached
  secret was replaced no longer ago than the entry's age and the call that stored it, and
  one that is being read no longer ago than it was read; and `Bounded`, which needs that
  the access order of the cached keys is an order: then a full cache has a least recently
  used entry, and evicting it makes room. `LeastRecentEvicted` needs that the order is
  total and agrees with the history (`KeptInv`): an entry that is evicted while the cache
  is full has all the others after it, so at least MaxEntries - 1 keys were used since.
* `NameCache_proofs`: `TypeCorrect`; `Staleness`, whose invariant follows a list from the
  Ask to the map (a list is that of a catalog the registrar had since the Ask, the map is
  true of one it had no earlier than one ListTools before the map was stored); and
  `SingleRefresh`, which needs that whoever holds the write lock found the map expired
  under it and nobody else could replace it since.
* `Gateway_proofs`: `Serving`, `LeavesNothing` and `AuditKept`, under the hypothesis
  `Serialized`. The invariant says what the one goroutine in Start or Stop holds at each
  label (the state of its system, which fields are set, that the consumer is gone when
  the system is halted), and what the fields say of each other when there is none. For
  the audit sink it adds that only the gateway's system, or the one about to be, has
  actors, so that only its journal can close the sink.
* `Ingress_proofs`: `Authorized`, whose invariant `AuthInv` follows a token from the
  header to the gateway: where tokens are verified, what is being resolved or listed and
  every open session has an accepted token, with its identity if tokens are resolved, and
  a request of a session has the scopes of its own token or of the session's.
  `AnswersTrue` goes through the conversions one by one: each keeps the texts of a
  sequence of items, each with what it says, where they were. `Texts` is a loop over the
  items; that it has an outcome, that what it gathers are texts, and that texts are their
  own texts is shown by induction over their number, from the well-foundedness of the
  naturals. `WritesTrue` is about `WSConn`: `WriteInv` says that whoever is in
  WriteMessage holds the mutex and has its own message in gorilla's buffer, that only a
  call that is done has sent, and that writing has failed for good once there is a close
  frame.

Each inductive invariant was checked with TLC on the instance of its run before it was
proved.

Only model-checked: the liveness properties (`ProbeSlotsReleased`,
`ChangesReachSupervisor`, `EveryInvocationReported`, `DeactivationCompletes`,
`RequestsFinish`, `RequestsAnswered`, `ConnectionEnds`), since this prover has neither
fairness nor ENABLED. Every invariant and action property that the passing runs check is
a theorem.

## Plan

In the order of importance:

1. done: breaker, supervisor, contract and refinement; registrar; session grain;
   pipeline with policy and journal; credential broker; gateway lifecycle with
   settings, manager and audit sinks; tool-name cache; ingresses with the conversions
   and executors; WebSocket connection.
2. The health of a tool end to end: probe, reason, catalog state, availability
   (composition of `Registrar` and `ToolSupervisor`).
3. Proofs: how far the session limit can be exceeded when Asks are abandoned, and the
   session map across a re-registration.

## Not modelled

* Wire formats: JSON-RPC, protobuf and JSON Schema as text, and the construction of
  clients and servers (I/O and data). What passes through them is in `Conversion`.
* The Streamable HTTP and SSE sessions below the handlers: they are the MCP SDK's.
* Telemetry: written, never read. Token exchange: one HTTP exchange for applications, no
  state, not called by the gateway. The file format of `internal/runtime/config`: the
  gateway is given its configuration as a value.
* The cluster: the discovery adapter hands calls through, and membership, remoting and
  the relocation of the registrar, a cluster singleton whose in-memory catalog is lost
  with its node, belong to goakt.
* What is in the audit sink's buffer when the process dies is lost; the model has no
  crash of the whole process, since nothing is read back after one.
* The generated protobuf code and the programs under `examples/`.
