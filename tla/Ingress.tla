---- MODULE Ingress ----
(***************************************************************************)
(* The ingresses: the gRPC service and its interceptors                    *)
(* (internal/ingress/grpc, mcp/auth.go), and the MCP sessions served over  *)
(* Streamable HTTP, SSE and WebSocket (internal/ingress/pkg and the        *)
(* handlers of http, sse and ws), in front of one gateway.                 *)
(*                                                                         *)
(* A client has one request at a time.  A header stands for what the token *)
(* verifier says of it.  Names are resolved as module NameCache shows: to  *)
(* what they were in a recent catalog.  Invoke returns what the executor   *)
(* of the tool makes of the backend's answer (module Conversion), what the *)
(* router's pipeline turned the invocation down with, or an error.         *)
(***************************************************************************)
EXTENDS Conversion, Integers, FiniteSetsExt, SequencesExt

CONSTANTS
    Clients,         \* the callers
    Names,           \* names a call may use; "" is the missing name
    Registries,      \* the sets of tools that may be registered
    Configs,         \* ingress configurations
    Headers,         \* authorization headers of requests
    RequiredScopes,  \* EnterpriseAuthConfig.RequiredScopes
    Answers,         \* what a backend call comes to
    MaxCalls         \* bound on the requests of all clients

\* mcp.IngressConfig and mcp.GRPCIngressConfig: enterprise authorization, with
\* its verifier and its resource metadata, whether the gRPC server has the
\* interceptors, and the application's own resolver.
IngressConfigs ==
    [enterprise : BOOLEAN, verifier : BOOLEAN, metadata : BOOLEAN,
     interceptors : BOOLEAN, resolver : {"none", "custom"}]

\* What the token verifier may say of a header: it rejects the token, or
\* accepts it with or without information on it.
Verdicts == {"ok", "nil", "rejected"}

\* What a backend may answer.  A text item has a text and nothing else; an
\* item is of a type the gateway knows or of another one.
ItemTypes == KnownTypes \cup {"unknown"}
Items ==
    {item \in [type : ItemTypes, fields : SUBSET Fields, value : Nat] :
        item.type = "text" => item.fields \subseteq {"text"}}
BackendAnswers ==
    [kind : {"ok", "error", "deadline"}, isError : BOOLEAN,
     content : Seq(Items), structured : BOOLEAN]

ASSUME ConstantsAssumption ==
    /\ MaxCalls \in Nat /\ Registries # {} /\ "" \in Names
    /\ Configs \subseteq IngressConfigs
    /\ \A h \in Headers : h.verdict \in Verdicts
    /\ \A tools \in Registries : \A tool \in tools :
           tool.transport \in {"stdio", "http", "grpc"}
    /\ Answers \subseteq BackendAnswers

VARIABLES
    config,      \* the ingress configuration
    registry,    \* the registrar's catalog
    recent,      \* catalogs a name may still be resolved by
    pc, req,     \* per client: where its request is, and the request
    session,     \* per client: its MCP session
    calls        \* requests made

vars == <<config, registry, recent, pc, req, session, calls>>

----------------------------------------------------------------------------
(* Authentication.                                                         *)

\* extractBearerToken: one authorization value, with the bearer prefix.
ExtractBearerToken(h) == h.scheme = "bearer"

\* checkScopes: nothing is required, or the token info has all of it.
CheckScopes(h) ==
    \/ RequiredScopes = {}
    \/ h.verdict # "nil" /\ RequiredScopes \subseteq h.scopes

AuthenticateGRPC(h) ==
    IF ~ExtractBearerToken(h) \/ h.verdict = "rejected" THEN "Unauthenticated"
    ELSE IF CheckScopes(h) THEN "OK" ELSE "PermissionDenied"

\* AuthInterceptors: what the unary and the stream interceptor let through,
\* on a server that has them.
AuthInterceptors(h) ==
    IF config.interceptors THEN AuthenticateGRPC(h) ELSE "OK"

\* The token info a handler finds in its context: the interceptors, or the
\* bearer token middleware, put it there.
HasTokenInfo(guarded, h) == guarded /\ h.verdict = "ok"

\* The scopes of an invocation are those of that token info.
TokenScopes(guarded, h) == IF HasTokenInfo(guarded, h) THEN h.scopes ELSE {}

\* DefaultIdentityMapper.
MapIdentity(h) ==
    [tenant |-> "default", client |-> IF h.user = "" THEN "default" ELSE h.user]

\* The identity an application's own resolver returns.
CustomIdentity == [tenant |-> "acme", client |-> "app"]

\* A request without a token is let in as the default client (a mutant of
\* ResolveIdentity).
ResolveIdentityAnyway(resolver, guarded, h) ==
    CASE resolver = "token" -> {MapIdentity(h)}
      [] resolver = "custom" -> {CustomIdentity}

\* The identities a resolver may return; none when it returns an error.  A
\* resolver of the application may do either.
ResolveIdentity(resolver, guarded, h) ==
    CASE resolver = "token" ->
            IF HasTokenInfo(guarded, h) THEN {MapIdentity(h)} ELSE {}
      [] resolver = "custom" -> {CustomIdentity}

\* resolveGRPCAuthDefaults: the resolver of the configuration, "none" when it
\* has none, or "refused".
ResolveGRPCAuthDefaults(cfg) ==
    IF ~cfg.enterprise THEN cfg.resolver
    ELSE IF ~cfg.verifier THEN "refused"
    ELSE IF cfg.resolver = "none" THEN "token" ELSE cfg.resolver

\* ResolveAuthDefaults, for the MCP handlers: the resource metadata are
\* wanted as well.
ResolveAuthDefaults(cfg) ==
    IF cfg.enterprise /\ ~cfg.metadata THEN "refused"
    ELSE ResolveGRPCAuthDefaults(cfg)

\* A service without a resolver is refused.
OrRefused(resolver) == IF resolver = "none" THEN "refused" ELSE resolver

NewServer(cfg) == OrRefused(ResolveGRPCAuthDefaults(cfg))

\* New of the http, sse and ws handlers.
NewHTTPHandler(cfg) == OrRefused(ResolveAuthDefaults(cfg))
NewSSEHandler(cfg) == OrRefused(ResolveAuthDefaults(cfg))
NewWSHandler(cfg) == OrRefused(ResolveAuthDefaults(cfg))

\* RegisterGRPCService, Handler, SSEHandler and WSHandler of the gateway.
Handler(over, cfg) ==
    CASE over = "grpc" -> NewServer(cfg)
      [] over = "http" -> NewHTTPHandler(cfg)
      [] over = "sse" -> NewSSEHandler(cfg)
      [] over = "ws" -> NewWSHandler(cfg)

----------------------------------------------------------------------------
(* Names.  ListTools returns the catalog in the order of a map iteration:  *)
(* any order.                                                              *)

Listings(tools) == SetToSeqs(tools)

Exports(tool, name) == name = tool.id \/ name \in FetchSchemas(tool)

\* RegisterTool of a session: the schemas, or the ID of a tool without; a
\* name added twice is replaced.
RegisterTools(list) ==
    [n \in Names |->
        LET is == {i \in DOMAIN list :
                      IF FetchSchemas(list[i]) = {} THEN n = list[i].id
                      ELSE n \in FetchSchemas(list[i])}
        IN  IF is = {} THEN "" ELSE list[Max(is)].id]

\* RegisterResources: the tools whose resources the session reads.
RegisterResources(list) ==
    {list[i].id : i \in {j \in DOMAIN list : FetchResources(list[j]) # {}}}

----------------------------------------------------------------------------
(* Requests.                                                               *)

NoIdentity == [tenant |-> "", client |-> ""]
NoHeader == [scheme |-> "none", verdict |-> "rejected", user |-> "",
             scopes |-> {}]
NoAnswer == [kind |-> "none", isError |-> TRUE, content |-> <<>>,
             structured |-> FALSE]

\* A request: its kind and what it says, the identity and scopes it carries
\* on, the tool it goes to, and how it ended: the executor, what the backend
\* said to it, and what the client is answered.
NoRequest ==
    [kind |-> "none", name |-> "", backendName |-> "", header |-> NoHeader,
     identity |-> NoIdentity, scopes |-> {}, tool |-> "", code |-> "",
     via |-> "none", said |-> NoAnswer, status |-> "none",
     answer |-> ErrorAnswer]

NoSession == [open |-> FALSE, over |-> "none", header |-> NoHeader,
              identity |-> NoIdentity, tools |-> [n \in Names |-> ""],
              resources |-> {}]

Init ==
    /\ config \in Configs
    /\ registry \in Registries
    /\ recent = {registry}
    /\ pc = [c \in Clients |-> "idle"]
    /\ req = [c \in Clients |-> NoRequest]
    /\ session = [c \in Clients |-> NoSession]
    /\ calls = 0

Goto(c, l) == pc' = [pc EXCEPT ![c] = l]

\* The request is over with this code; the client has its answer.
Finish(c, r, code) ==
    /\ req' = [req EXCEPT ![c] = [r EXCEPT !.code = code]]
    /\ Goto(c, "done")
Refuse(c, code) == Finish(c, NoRequest, code)

NewRequest(c) ==
    /\ pc[c] = "idle" /\ calls < MaxCalls
    /\ calls' = calls + 1
    /\ UNCHANGED <<config, registry, recent, session>>

\* CallTool and CallToolStream as far as buildInvocation's identity: the
\* interceptor, the empty name, the resolver.
CallTool(c, kind, h, name) ==
    LET resolver == Handler("grpc", config)
        guarded == config.interceptors
    IN  /\ resolver # "refused" /\ ~session[c].open
        /\ NewRequest(c)
        /\ \/ /\ AuthInterceptors(h) # "OK"
              /\ Refuse(c, AuthInterceptors(h))
           \/ /\ AuthInterceptors(h) = "OK"
              /\ \/ /\ name = ""
                    /\ Refuse(c, "InvalidArgument")
                 \/ /\ name # ""
                    /\ \/ resolver = "custom"
                       \/ ResolveIdentity(resolver, guarded, h) = {}
                    /\ Refuse(c, "Unauthenticated")
                 \/ /\ name # ""
                    /\ \E who \in ResolveIdentity(resolver, guarded, h) :
                         req' = [req EXCEPT ![c] =
                            [NoRequest EXCEPT
                                !.kind = kind, !.name = name,
                                !.backendName = name,
                                !.header = IF guarded THEN h ELSE NoHeader,
                                !.identity = who,
                                !.scopes = TokenScopes(guarded, h)]]
                    /\ Goto(c, "resolve")

\* ListTools of the gRPC service: through the interceptor, if the server has
\* it, to the gateway; no identity is resolved.
ListTools(c, h) ==
    /\ Handler("grpc", config) # "refused" /\ ~session[c].open
    /\ NewRequest(c)
    /\ \/ /\ AuthInterceptors(h) # "OK"
          /\ Refuse(c, AuthInterceptors(h))
       \/ /\ AuthInterceptors(h) = "OK"
          /\ req' = [req EXCEPT ![c] =
                [NoRequest EXCEPT
                    !.kind = "ListTools",
                    !.header = IF config.interceptors THEN h ELSE NoHeader]]
          /\ Goto(c, "listTools")

\* The gateway lists, or the Ask fails.
ToolsListed(c) ==
    /\ pc[c] = "listTools"
    /\ \E code \in {"OK", "Internal"} : Refuse(c, code)
    /\ UNCHANGED <<config, registry, recent, session, calls>>

\* The rest of buildInvocation: the name resolved by the cache or by
\* ListTools, not found or ListTools failed, arguments that are not JSON.
BuildInvocation(c) ==
    /\ pc[c] = "resolve"
    /\ \/ \E code \in {"NotFound", "InvalidArgument"} : Refuse(c, code)
       \/ /\ \E tools \in recent : \E t \in tools :
               /\ Exports(t, req[c].name)
               /\ req' = [req EXCEPT ![c].tool = t.id]
          /\ Goto(c, "invoke")
    /\ UNCHANGED <<config, registry, recent, session, calls>>

----------------------------------------------------------------------------
(* MCP sessions.                                                           *)

\* RequireBearerToken, the middleware of the handlers; a WebSocket passes it
\* once, with the upgrade.
BearerMiddleware(h) == config.enterprise => AuthenticateGRPC(h) = "OK"

\* BuildGetServer as far as ListTools: the middleware and the identity, once
\* per session.
OpenSession(c, over, h) ==
    LET resolver == Handler(over, config)
        r == [NoRequest EXCEPT
                 !.kind = "session", !.name = over,
                 !.header = IF config.enterprise THEN h ELSE NoHeader]
    IN  /\ resolver # "refused" /\ ~session[c].open
        /\ NewRequest(c)
        /\ \/ /\ \/ ~BearerMiddleware(h) \/ resolver = "custom"
                 \/ ResolveIdentity(resolver, config.enterprise, h) = {}
              /\ Refuse(c, "Refused")
           \/ /\ BearerMiddleware(h)
              /\ \E who \in ResolveIdentity(resolver, config.enterprise, h) :
                   req' = [req EXCEPT ![c] = [r EXCEPT !.identity = who]]
              /\ Goto(c, "list")

\* The rest of BuildGetServer: the tools and the resources listed now are
\* those of the session for as long as it lives.  Without a list there is no
\* session.
SessionOpens(c) ==
    /\ pc[c] = "list"
    /\ \/ /\ \E list \in Listings(registry) :
               session' = [session EXCEPT ![c] =
                  [open |-> TRUE, over |-> req[c].name,
                   header |-> req[c].header, identity |-> req[c].identity,
                   tools |-> RegisterTools(list),
                   resources |-> RegisterResources(list)]]
          /\ Refuse(c, "OK")
       \/ Refuse(c, "Refused") /\ UNCHANGED session
    /\ UNCHANGED <<config, registry, recent, calls>>

\* DispatchToolCall and RequestToInvocation: the handler of the session's
\* tool, with the session's identity and the scopes of the token info in the
\* handler's context ctx.  A "name" argument names the backend's tool.
SessionRequest(c, kind, h, ctx, tool, name) ==
    [NoRequest EXCEPT
        !.kind = kind, !.header = IF config.enterprise THEN h ELSE NoHeader,
        !.identity = session[c].identity,
        !.scopes = TokenScopes(config.enterprise, ctx),
        !.tool = tool, !.backendName = name]

\* A request of an open session: refused by the middleware, by the SDK or for
\* arguments that are not JSON, or handed to the handler.  Whether the context
\* there is that of the request or that of the one that opened the session is
\* up to the SDK and the transport; a WebSocket has only the latter.
SessionDispatch(c, kind, h, tool, name) ==
    /\ session[c].open
    /\ session[c].over = "ws" /\ config.enterprise => h = session[c].header
    /\ NewRequest(c)
    /\ \/ Refuse(c, "Refused")
       \/ /\ BearerMiddleware(h) /\ tool # ""
          /\ \E ctx \in {h, session[c].header} :
               req' = [req EXCEPT ![c] =
                          SessionRequest(c, kind, h, ctx, tool, name)]
          /\ Goto(c, "invoke")

DispatchToolCall(c, h, name, nested) ==
    SessionDispatch(c, "session call", h, session[c].tools[name],
                    IF nested # "" THEN nested ELSE name)

\* DispatchResourceRead, for a resource of one of the session's tools.
DispatchResourceRead(c, h, tool) ==
    /\ tool \in session[c].resources
    /\ SessionDispatch(c, "resource read", h, tool, "")

\* The client leaves, or the session has been idle for too long.
CloseSession(c) ==
    /\ pc[c] = "idle" /\ session[c].open
    /\ session' = [session EXCEPT ![c] = NoSession]
    /\ UNCHANGED <<config, registry, recent, pc, req, calls>>

----------------------------------------------------------------------------
(* The gateway's answer.                                                   *)

Convert(kind, res) ==
    CASE kind = "session call" -> ExecutionResultToCallToolResult(res)
      [] kind = "resource read" -> ExecutionResultToReadResourceResult(res)
      [] OTHER -> ExecutionResultToCallToolResponse(res)

\* Invoke and InvokeStream return a result: of the executor, of the pipeline
\* that turned the invocation down, or none when the stream ended without.
InvokeReturns(c) ==
    LET r == req[c]
        Answer(via, said, res) ==
            Finish(c, [NoRequest EXCEPT
                          !.kind = r.kind, !.via = via, !.said = said,
                          !.status = res.status,
                          !.answer = Convert(r.kind, res)], "OK")
    IN  /\ pc[c] = "invoke"
        /\ \/ \E tool \in registry, open \in BOOLEAN, said \in Answers :
                /\ tool.id = r.tool /\ (open => Creatable(tool))
                /\ Answer(tool.transport, said,
                          CASE r.kind = "resource read" ->
                                  ReadResource(open, tool, said)
                            [] r.kind = "CallToolStream" ->
                                  ExecuteStream(open, tool, r.backendName, said)
                            [] OTHER ->
                                  Execute(open, tool, r.backendName, said))
           \/ \E status \in {"denied", "throttled", "failure"} :
                Answer("none", NoAnswer, Result(status, NoOutput))
           \/ /\ r.kind = "CallToolStream"
              /\ Answer("none", NoAnswer, NoResult)
        /\ UNCHANGED <<config, registry, recent, session, calls>>

\* Invoke returns an error and no result: a status for gRPC, a tool error for
\* a session.
InvokeFails(c) ==
    /\ pc[c] = "invoke"
    /\ Refuse(c, IF req[c].kind \in {"CallTool", "CallToolStream"}
                 THEN "Internal" ELSE "ToolError")
    /\ UNCHANGED <<config, registry, recent, session, calls>>

\* The client has its answer and may call again.
Return(c) ==
    /\ pc[c] = "done"
    /\ Goto(c, "idle") /\ req' = [req EXCEPT ![c] = NoRequest]
    /\ UNCHANGED <<config, registry, recent, session, calls>>

\* Tools are registered and removed; what caches hold of the catalogs there
\* were grows old.
RegistryChanges ==
    /\ registry' \in Registries \ {registry}
    /\ recent' = recent \cup {registry'}
    /\ UNCHANGED <<config, pc, req, session, calls>>

CachesExpire ==
    /\ recent' = {registry}
    /\ UNCHANGED <<config, registry, pc, req, session, calls>>

Call(c) ==
    \E h \in Headers :
      \/ \E kind \in {"CallTool", "CallToolStream"}, name \in Names :
            CallTool(c, kind, h, name)
      \/ ListTools(c, h)
      \/ \E over \in {"http", "sse", "ws"} : OpenSession(c, over, h)
      \/ \E name, nested \in Names : DispatchToolCall(c, h, name, nested)
      \/ \E tool \in Names : DispatchResourceRead(c, h, tool)

Next ==
    \/ \E c \in Clients :
         \/ Call(c) \/ ToolsListed(c) \/ BuildInvocation(c)
         \/ SessionOpens(c)
         \/ InvokeReturns(c) \/ InvokeFails(c) \/ Return(c) \/ CloseSession(c)
    \/ RegistryChanges \/ CachesExpire

Spec == Init /\ [][Next]_vars

----------------------------------------------------------------------------
(* Properties.                                                             *)

\* Whether the request has a token verified: a gRPC server does it that has
\* the interceptors, the handlers of sessions do it under enterprise
\* authorization.
Guarded(c) ==
    IF req[c].kind \in {"CallTool", "CallToolStream", "ListTools"}
    THEN config.interceptors ELSE config.enterprise

\* authenticateGRPC, the middleware and the resolvers.  Where tokens are
\* verified, a request that asks the gateway for anything (its list of tools,
\* an invocation) has an accepted token, and so has its session; an invocation
\* carries the scopes of one of the two, the required ones among them.  Under
\* enterprise authorization without a resolver of the application's, calls and
\* sessions are such requests, also on a gRPC server without interceptors,
\* with the identity of the token: the request's over gRPC, the session's
\* otherwise.  Nothing is said of two requests on a gRPC server without
\* interceptors: ListTools, which resolves no identity, and a call whose
\* identity is the application resolver's.  Those reach the gateway without a
\* token.
RequestsAuthorized ==
    \A c \in Clients :
        pc[c] \in {"resolve", "list", "listTools", "invoke"} =>
            LET h == req[c].header
                who == IF session[c].open THEN session[c].header ELSE h
            IN  /\ Guarded(c) =>
                     AuthenticateGRPC(h) = "OK" /\ AuthenticateGRPC(who) = "OK"
                /\ Guarded(c) /\ pc[c] = "invoke" =>
                     /\ RequiredScopes \subseteq req[c].scopes
                     /\ \/ req[c].scopes = TokenScopes(TRUE, h)
                        \/ req[c].scopes = TokenScopes(TRUE, who)
                /\ NewServer(config) = "token" /\ pc[c] # "listTools" =>
                     /\ Guarded(c)
                     /\ who.verdict = "ok" /\ req[c].identity = MapIdentity(who)

\* The conversions of convert.go, dispatch.go and mcpconv.go in a row: a
\* client that sees no error has the answer of a backend that reported none,
\* and a success is not shown as an error.  From an MCP backend it has every
\* text, in the backend's order, and the whole output beside it; the answer of
\* a gRPC backend is one text the executor composes, which is not compared.
ResultsTruthful ==
    \A c \in Clients :
        LET r == req[c] IN
        pc[c] = "done" /\ r.code = "OK" /\ r.kind # "none" =>
            /\ r.answer.isError <=> r.status # "success"
            /\ r.status = "success" => r.said.kind = "ok"
            /\ r.status = "success" /\ r.via # "grpc" =>
                 /\ \/ Texts(r.said.content) = <<>>
                    \/ Texts(r.answer.content) = Texts(r.said.content)
                 /\ \/ r.kind = "resource read"
                    \/ /\ ~r.said.isError
                       /\ r.answer.raw = CallResultToOutput(r.said)

====
