---- MODULE Registrar ----
(***************************************************************************)
(* The registrar actor (internal/runtime/actor/registrar.go), its catalog  *)
(* (registrar_catalog.go), the ToolConfigExtension shared by the actor     *)
(* system (extension/extensions.go), the supervisors' copies of the tool   *)
(* definition (tool_supervisor.go) and the health checker (health.go).     *)
(*                                                                         *)
(* A tool definition lives in three places.  The registrar owns the        *)
(* catalog, writes the extension, and tells the supervisor to refresh; the *)
(* supervisor reads the extension when it gets to the message.  The health *)
(* checker works on a snapshot of the catalog and writes back to the       *)
(* catalog alone.  The registrar handles one message at a time, so each of *)
(* its handlers is one action.                                             *)
(***************************************************************************)
EXTENDS Naturals, Sequences

CONSTANTS
    Tools,          \* tool identifiers
    Endpoints,      \* values of a transport configuration
    Kinds,          \* transports: a subset of {"stdio", "http", "grpc"}
    HealthProbing,  \* HealthProbe interval > 0
    NoTool,         \* absence of a definition
    BacklogBound    \* administration pauses beyond this supervisor backlog

ASSUME RegistrarAssumption ==
    /\ Kinds \subseteq {"stdio", "http", "grpc"}
    /\ HealthProbing \in BOOLEAN
    /\ BacklogBound \in Nat

ToolStates == {"enabled", "disabled", "unavailable", "degraded"}

\* mcp.Tool: its state, its transport and the configuration of that transport.
ToolConfigs == [state : ToolStates, kind : Kinds, endpoint : Endpoints]
ASSUME NoToolAssumption == NoTool \notin ToolConfigs

VARIABLES
    catalog,    \* x.catalog: the definition of each tool, or NoTool
    schemas,    \* the catalog's schemas and resources: the endpoint that what
                \* there is of them was fetched from
    extension,  \* ToolConfigExtension.tools
    sup,        \* x.supervisors: the running supervisor of each tool
    snapshot,   \* the health checker's copy of ListTools, tools still to probe
    updates,    \* UpdateToolHealth messages on their way to the registrar
    asked       \* history: the tool was disabled and not enabled since

vars == <<catalog, schemas, extension, sup, snapshot, updates, asked>>

SupMessages == {"PostStart", "RefreshToolConfig", "DrainTool"}
NoSup == [up |-> FALSE, tool |-> NoTool, draining |-> FALSE, mailbox |-> <<>>]
NewSup == [up |-> TRUE, tool |-> NoTool, draining |-> FALSE,
           mailbox |-> <<"PostStart">>]

Init ==
    /\ catalog = [t \in Tools |-> NoTool]
    /\ schemas = [t \in Tools |-> NoTool]
    /\ extension = [t \in Tools |-> NoTool]
    /\ sup = [t \in Tools |-> NoSup]
    /\ snapshot = [t \in Tools |-> NoTool]
    /\ updates = [t \in Tools |-> NoTool]
    /\ asked = [t \in Tools |-> FALSE]

Has(t) == catalog[t] # NoTool

----------------------------------------------------------------------------
(* The registrar's handlers.                                               *)

(* The catalog.                                                            *)

\* A new entry, for which nothing is fetched yet.
Put(t, tool) == catalog' = [catalog EXCEPT ![t] = tool]

\* An existing entry keeps what was fetched for it.
UpdateTool(t, tool) ==
    /\ catalog' = [catalog EXCEPT ![t] = tool]
    /\ UNCHANGED schemas

\* The entry goes with its schemas and resources.
Remove(t) ==
    /\ catalog' = [catalog EXCEPT ![t] = NoTool]
    /\ schemas' = [schemas EXCEPT ![t] = NoTool]

\* SetSchemas, SetResources.
SetMetadata(t, fetched) == schemas' = [schemas EXCEPT ![t] = fetched]

(* The ToolConfigExtension.                                                *)

RegisterConfig(t, tool) == extension' = [extension EXCEPT ![t] = tool]
RemoveConfig(t) == extension' = [extension EXCEPT ![t] = NoTool]
GetConfig(t) == extension[t]

(* What the handlers share.                                                *)

\* Mutant: a failed fetch leaves what was fetched for the old entry.
FetchAndCacheKeepsOld(t, tool) ==
    \E fetched \in {tool.endpoint, schemas[t]} : SetMetadata(t, fetched)

\* fetchAndCacheSchemas and fetchAndCacheResources: what was cached is
\* cleared, and both fetches may fail.
FetchAndCache(t, tool) ==
    \E fetched \in {tool.endpoint, NoTool} : SetMetadata(t, fetched)

\* The tool is registered with the extension first; the spawn may fail.
SpawnSupervisor(t, tool) ==
    /\ RegisterConfig(t, tool)
    /\ \E new \in {NewSup, NoSup} : sup' = [sup EXCEPT ![t] = new]

\* The supervisor stops, and its queue is lost, with its configuration.
StopSupervisorIfExists(t) ==
    /\ sup' = [sup EXCEPT ![t] = NoSup]
    /\ RemoveConfig(t)

\* stopSupervisorIfExists, whose effects are overwritten within the handler,
\* catalog.Put, the two fetches and spawnSupervisor.
Install(t, tool) ==
    /\ Put(t, tool)
    /\ FetchAndCache(t, tool)
    /\ SpawnSupervisor(t, tool)

\* A supervisor that runs is told.
NotifySupervisor(t) ==
    sup' = IF sup[t].up
           THEN [sup EXCEPT ![t].mailbox = Append(@, "RefreshToolConfig")]
           ELSE sup

\* Mutant: the supervisor is not told.
PublishSilently(t, tool) ==
    /\ UpdateTool(t, tool)
    /\ RegisterConfig(t, tool)
    /\ UNCHANGED sup

\* catalog.UpdateTool, updateToolExtension and notifySupervisor.
Publish(t, tool) ==
    /\ UpdateTool(t, tool)
    /\ RegisterConfig(t, tool)
    /\ NotifySupervisor(t)

(* The handlers.                                                           *)

\* A registration keeps the disabled state of the definition it replaces.
Registered(t, tool) ==
    IF Has(t) /\ catalog[t].state = "disabled"
    THEN [tool EXCEPT !.state = "disabled"]
    ELSE tool

HandleRegisterTool(t) ==
    /\ \E tool \in ToolConfigs :
        /\ Install(t, Registered(t, tool))
        /\ asked' = [asked EXCEPT ![t] = @ \/ tool.state = "disabled"]
    /\ UNCHANGED <<snapshot, updates>>

\* Every node's manager sends BootstrapTools; the singleton may be in use.
HandleBootstrapTools(t) ==
    /\ \E tool \in ToolConfigs :
        /\ Install(t, tool)
        /\ asked' = [asked EXCEPT ![t] = (tool.state = "disabled")]
    /\ UNCHANGED <<snapshot, updates>>

\* Mutant: the update loses the transport's configuration.
UpdatedLosesConfig(old, new) ==
    [state |-> old.state,
     kind |-> old.kind,
     endpoint |-> IF old.kind = "grpc" THEN new.endpoint ELSE NoTool]

\* What an update keeps of the registered definition: identity, transport,
\* the stdio and http configuration, and the state.
Updated(old, new) ==
    [state |-> old.state,
     kind |-> old.kind,
     endpoint |-> IF old.kind = "grpc" THEN new.endpoint ELSE old.endpoint]

HandleUpdateTool(t) ==
    /\ Has(t)
    /\ Len(sup[t].mailbox) < BacklogBound
    /\ \E tool \in ToolConfigs : Publish(t, Updated(catalog[t], tool))
    /\ UNCHANGED <<snapshot, updates, asked>>

HandleDisableTool(t) ==
    /\ Has(t)
    /\ Len(sup[t].mailbox) < BacklogBound
    /\ Publish(t, [catalog[t] EXCEPT !.state = "disabled"])
    /\ asked' = [asked EXCEPT ![t] = TRUE]
    /\ UNCHANGED <<snapshot, updates>>

HandleEnableTool(t) ==
    /\ Has(t)
    /\ Len(sup[t].mailbox) < BacklogBound
    /\ Publish(t, [catalog[t] EXCEPT !.state = "enabled"])
    /\ asked' = [asked EXCEPT ![t] = FALSE]
    /\ UNCHANGED <<snapshot, updates>>

\* Mutant: the definition stays in the extension.
HandleRemoveToolKeepsExtension(t) ==
    /\ Has(t)
    /\ Remove(t)
    /\ sup' = [sup EXCEPT ![t] = NoSup]
    /\ asked' = [asked EXCEPT ![t] = FALSE]
    /\ UNCHANGED <<extension, snapshot, updates>>

HandleRemoveTool(t) ==
    /\ Has(t)
    /\ StopSupervisorIfExists(t)
    /\ Remove(t)
    /\ asked' = [asked EXCEPT ![t] = FALSE]
    /\ UNCHANGED <<snapshot, updates>>

\* handleDrainTool: the request joins the supervisor's mailbox.  The registrar
\* waits for the answer for as long as the request timeout, then goes on, so
\* it is not kept from the next message here.
HandleDrainTool(t) ==
    /\ Has(t)
    /\ sup[t].up
    /\ Len(sup[t].mailbox) < BacklogBound
    /\ sup' = [sup EXCEPT ![t].mailbox = Append(@, "DrainTool")]
    /\ UNCHANGED <<catalog, schemas, extension, snapshot, updates, asked>>

\* The catalog alone takes the state the health checker found.
HandleUpdateToolHealth(t) ==
    /\ updates[t] # NoTool
    /\ updates' = [updates EXCEPT ![t] = NoTool]
    /\ catalog' = IF Has(t) THEN [catalog EXCEPT ![t].state = updates[t]]
                  ELSE catalog
    /\ UNCHANGED <<schemas, extension, sup, snapshot, asked>>

----------------------------------------------------------------------------
(* The supervisor's handlers that concern its definition.                  *)

Receives(t, msg) == sup[t].mailbox # <<>> /\ Head(sup[t].mailbox) = msg

\* PostStart resolves the tool; without one the actor stays up, toolless.
SupPostStart(t) ==
    /\ Receives(t, "PostStart")
    /\ sup' = [sup EXCEPT ![t].tool = GetConfig(t),
                          ![t].mailbox = Tail(@)]
    /\ UNCHANGED <<catalog, schemas, extension, snapshot, updates, asked>>

\* Mutant: a draining supervisor ignores the refresh.
SupRefreshToolConfigUnlessDraining(t) ==
    /\ Receives(t, "RefreshToolConfig")
    /\ sup' = [sup EXCEPT
         ![t].mailbox = Tail(@),
         ![t].tool = IF sup[t].draining THEN @ ELSE GetConfig(t)]
    /\ UNCHANGED <<catalog, schemas, extension, snapshot, updates, asked>>

SupRefreshToolConfig(t) ==
    /\ Receives(t, "RefreshToolConfig")
    /\ sup' = [sup EXCEPT
         ![t].mailbox = Tail(@),
         ![t].tool = IF GetConfig(t) = NoTool THEN @ ELSE GetConfig(t),
         ![t].draining = /\ @
                         /\ \/ GetConfig(t) = NoTool
                            \/ GetConfig(t).state # "enabled"]
    /\ UNCHANGED <<catalog, schemas, extension, snapshot, updates, asked>>

SupDrainTool(t) ==
    /\ Receives(t, "DrainTool")
    /\ sup' = [sup EXCEPT ![t].mailbox = Tail(@), ![t].draining = TRUE]
    /\ UNCHANGED <<catalog, schemas, extension, snapshot, updates, asked>>

----------------------------------------------------------------------------
(* The health checker.                                                     *)

\* scheduleNext: a round is due an interval after the last has ended, if there
\* is an interval.  The updates of the last round precede its ListTools in the
\* registrar's mailbox.
RoundDue ==
    /\ HealthProbing
    /\ \A t \in Tools : snapshot[t] = NoTool /\ updates[t] = NoTool

\* ListTools.
HealthList ==
    /\ RoundDue
    /\ snapshot' = [t \in Tools |->
           IF Has(t) /\ catalog[t].state # "disabled" THEN catalog[t]
           ELSE NoTool]
    /\ UNCHANGED <<catalog, schemas, extension, sup, updates, asked>>

\* What probeTool can conclude.  A supervisor that is missing or does not
\* answer in time is unavailable.  One that answers has handled what was
\* queued before: it accepts, or names its circuit, or gives a reason that
\* leaves the state as it was in the snapshot.
ProbeResults(t) ==
    {"unavailable"} \cup
    (IF ~sup[t].up \/ sup[t].mailbox # <<>> THEN {}
     ELSE IF sup[t].tool = NoTool THEN {snapshot[t].state}
     ELSE IF sup[t].tool.state = "disabled" \/ sup[t].draining
          THEN {snapshot[t].state}
     ELSE {"enabled", snapshot[t].state})

HealthProbe(t) ==
    /\ snapshot[t] # NoTool
    /\ \E st \in ProbeResults(t) :
           updates' = IF st = snapshot[t].state THEN updates
                      ELSE [updates EXCEPT ![t] = st]
    /\ snapshot' = [snapshot EXCEPT ![t] = NoTool]
    /\ UNCHANGED <<catalog, schemas, extension, sup, asked>>

----------------------------------------------------------------------------

SupHandle(t) == SupPostStart(t) \/ SupRefreshToolConfig(t) \/ SupDrainTool(t)

Next ==
    \/ \E t \in Tools :
        \/ HandleRegisterTool(t)
        \/ HandleBootstrapTools(t)
        \/ HandleUpdateTool(t)
        \/ HandleDisableTool(t)
        \/ HandleEnableTool(t)
        \/ HandleRemoveTool(t)
        \/ HandleDrainTool(t)
        \/ HandleUpdateToolHealth(t)
        \/ SupHandle(t)
        \/ HealthProbe(t)
    \/ HealthList

Spec == Init /\ [][Next]_vars

\* The actor runtime delivers what a supervisor has in its mailbox.
FairSpec == Spec /\ \A t \in Tools : WF_vars(SupHandle(t))

----------------------------------------------------------------------------
(* Properties.                                                             *)

\* Every variable has its type.
TypeOK ==
    /\ catalog \in [Tools -> ToolConfigs \cup {NoTool}]
    /\ schemas \in [Tools -> Endpoints \cup {NoTool}]
    /\ extension \in [Tools -> ToolConfigs \cup {NoTool}]
    /\ sup \in [Tools -> [up : BOOLEAN,
                          tool : ToolConfigs \cup {NoTool},
                          draining : BOOLEAN,
                          mailbox : Seq(SupMessages)]]
    /\ snapshot \in [Tools -> ToolConfigs \cup {NoTool}]
    /\ updates \in [Tools -> ToolStates \cup {NoTool}]
    /\ asked \in [Tools -> BOOLEAN]

\* The three records of a tool stay together through every registration,
\* update, removal and failed spawn (registrar.go): the extension has a
\* definition exactly of the tools in the catalog, it differs from the
\* catalog's at most in the state the health checker wrote, and only a
\* catalogued tool has a supervisor.
RecordsAgree ==
    \A t \in Tools :
        /\ Has(t) <=> extension[t] # NoTool
        /\ Has(t) => /\ extension[t].kind = catalog[t].kind
                     /\ extension[t].endpoint = catalog[t].endpoint
        /\ sup[t].up => Has(t)

\* The schemas and resources served for a tool were fetched from the backend
\* its definition names (registrar_catalog.go, Put and UpdateTool): neither a
\* failed fetch nor an update leaves those of an earlier backend.  A gRPC
\* tool's backend can be changed by an update, which does not fetch.
SchemasOfBackend ==
    \A t \in Tools :
        schemas[t] # NoTool =>
            /\ Has(t)
            /\ catalog[t].kind # "grpc" => schemas[t] = catalog[t].endpoint

\* No refresh is lost (registrar.go, notifySupervisor; tool_supervisor.go,
\* handleRefreshToolConfig): a supervisor with no PostStart and no refresh
\* left in its mailbox works with the definition of the extension.
SupervisorUpToDate ==
    \A t \in Tools :
        sup[t].up /\ (\A k \in 1..Len(sup[t].mailbox) :
                          sup[t].mailbox[k] = "DrainTool")
            => sup[t].tool = extension[t]

\* A supervisor that works with an outdated definition gets the current one,
\* however often the tool is changed meanwhile.
ChangesReachSupervisor ==
    \A t \in Tools :
        (sup[t].up /\ sup[t].tool # extension[t]) ~>
            (~sup[t].up \/ sup[t].tool = extension[t])

\* A tool the operator disabled rejects new requests until it is enabled
\* (registrar.go:197, "all new requests are rejected"; registrar.go:137, a
\* registration preserves the disabled state): once its supervisor has
\* handled its mailbox, it holds the disabled state.
DisabledHolds ==
    \A t \in Tools :
        asked[t] /\ sup[t].up /\ sup[t].mailbox = <<>> =>
            sup[t].tool.state = "disabled"

====
