---- MODULE Ingress_proofs ----
(***************************************************************************)
(* Proofs about the ingresses: what reaches the gateway is authorized, for *)
(* any clients, names, tools, configurations, headers and scopes, and what *)
(* a client is answered is what the backend said.                          *)
(***************************************************************************)
EXTENDS Ingress, WSConn, WellFoundedInduction, TLAPS

----------------------------------------------------------------------------
(* Authorization.                                                          *)

Places == {"idle", "resolve", "list", "listTools", "invoke", "done"}

\* What the variables range over, as far as the proofs need it.
Shape ==
    /\ config \in Configs /\ registry \in Registries
    /\ pc \in [Clients -> Places]
    /\ req = [c \in Clients |-> req[c]]
    /\ \A c \in Clients : DOMAIN req[c] = DOMAIN NoRequest
    /\ session = [c \in Clients |-> session[c]]

\* The scopes that go with a header.
ScopesOf(h) == TokenScopes(TRUE, h)

\* A header that authenticates its caller, with the required scopes.
Accepted(h) == AuthenticateGRPC(h) = "OK" /\ RequiredScopes \subseteq ScopesOf(h)

\* A header whose token gives this identity.
Identifies(h, who) == h.verdict = "ok" /\ who = MapIdentity(h)

\* What is known of a session: under enterprise authorization it was opened
\* with an accepted token, and has its identity if tokens are resolved.
SessionVouched(s) ==
    s.open => /\ config.enterprise => Accepted(s.header)
              /\ NewServer(config) = "token" => Identifies(s.header, s.identity)

\* What is known of a request that has reached the gateway.
InvokeVouched(r, s) ==
    /\ s.open => r.kind \in {"session call", "resource read"}
    /\ (IF r.kind \in {"CallTool", "CallToolStream", "ListTools"}
        THEN config.interceptors ELSE config.enterprise) =>
         /\ Accepted(r.header)
         /\ r.scopes \in {ScopesOf(r.header)} \cup
               (IF s.open THEN {ScopesOf(s.header)} ELSE {})
    /\ NewServer(config) = "token" =>
         IF s.open THEN r.identity = s.identity
         ELSE /\ Identifies(r.header, r.identity)
              /\ r.kind \in {"CallTool", "CallToolStream"}
              /\ config.interceptors

\* What is known of a client: its session and its request carry accepted
\* tokens where tokens are verified.
Vouched(c) ==
    LET r == req[c]
        s == session[c]
    IN  /\ SessionVouched(s)
        /\ pc[c] = "resolve" => /\ ~s.open /\ InvokeVouched(r, s)
                                /\ r.kind \in {"CallTool", "CallToolStream"}
        /\ pc[c] = "list" =>
             /\ ~s.open /\ r.kind = "session"
             /\ config.enterprise => Accepted(r.header)
             /\ NewServer(config) = "token" => Identifies(r.header, r.identity)
        /\ pc[c] = "listTools" =>
             /\ ~s.open /\ r.kind = "ListTools"
             /\ config.interceptors => Accepted(r.header)
        /\ pc[c] = "invoke" => InvokeVouched(r, s)

AuthInv == Shape /\ \A c \in Clients : Vouched(c)

\* resolveGRPCAuthDefaults and ResolveAuthDefaults: under enterprise
\* authorization without a resolver of the application's, a handler resolves
\* identities from tokens or is refused.
LEMMA TokenResolvers ==
    ASSUME NEW cfg \in Configs, NewServer(cfg) = "token"
    PROVE  /\ cfg.enterprise
           /\ Handler("grpc", cfg) = "token"
           /\ \A over \in {"http", "sse", "ws"} :
                  Handler(over, cfg) \in {"token", "refused"}
<1>1. cfg \in IngressConfigs
  BY ConstantsAssumption
<1>2. cfg.enterprise /\ ResolveGRPCAuthDefaults(cfg) = "token"
  BY <1>1 DEF NewServer, OrRefused, ResolveGRPCAuthDefaults, IngressConfigs
<1>3. ResolveAuthDefaults(cfg) \in {"token", "refused"}
  BY <1>2 DEF ResolveAuthDefaults
<1> QED
  BY <1>2, <1>3
  DEF Handler, NewServer, NewHTTPHandler, NewSSEHandler, NewWSHandler,
      OrRefused

\* The resolver of tokens returns the identity of a token the handler was
\* given, or an error.
LEMMA TokenIdentity ==
    ASSUME NEW guarded, NEW h, NEW who \in ResolveIdentity("token", guarded, h)
    PROVE  guarded /\ h.verdict = "ok" /\ who = MapIdentity(h)
<1>1. who \in IF HasTokenInfo(guarded, h) THEN {MapIdentity(h)} ELSE {}
  BY DEF ResolveIdentity
<1> QED
  BY <1>1 DEF HasTokenInfo

\* checkScopes: a token that passes has the required scopes.
LEMMA ScopesChecked ==
    ASSUME NEW h \in Headers, AuthenticateGRPC(h) = "OK"
    PROVE  Accepted(h)
<1>1. h.verdict \in {"ok", "nil"} /\ CheckScopes(h)
  BY ConstantsAssumption DEF AuthenticateGRPC, Verdicts
<1>2. RequiredScopes \subseteq IF h.verdict = "ok" THEN h.scopes ELSE {}
  BY <1>1 DEF CheckScopes
<1> QED
  BY <1>2 DEF Accepted, ScopesOf, TokenScopes, HasTokenInfo

\* What is known of a client depends on its own state only.
LEMMA Untouched ==
    ASSUME NEW d, Vouched(d), pc'[d] = pc[d], req'[d] = req[d],
           session'[d] = session[d], config' = config
    PROVE  Vouched(d)'
BY DEF Vouched, SessionVouched, InvokeVouched

\* Refusing a request leaves nothing to vouch for but the session.
LEMMA Refused ==
    ASSUME Shape, NEW c \in Clients, NEW code, Refuse(c, code)
    PROVE  /\ pc' = [pc EXCEPT ![c] = "done"]
           /\ pc' \in [Clients -> Places]
           /\ req' = [d \in Clients |-> req'[d]]
           /\ \A d \in Clients : DOMAIN req'[d] = DOMAIN NoRequest
           /\ req'[c].kind = "none"
           /\ \A d \in Clients : d # c => req'[d] = req[d]
BY DEF Refuse, Finish, Goto, Shape, Places, NoRequest

\* A step of one client keeps the invariant when it does for that client.
LEMMA OneClient ==
    ASSUME AuthInv, Shape', config' = config, NEW c \in Clients,
           \A d \in Clients : d # c => /\ pc'[d] = pc[d] /\ req'[d] = req[d]
                                       /\ session'[d] = session[d],
           Vouched(c)'
    PROVE  AuthInv'
<1>1. ASSUME NEW d \in Clients, d # c PROVE Vouched(d)'
  BY <1>1, Untouched DEF AuthInv
<1> QED
  BY <1>1 DEF AuthInv

\* A request that is refused keeps it.
LEMMA RefusedAuth ==
    ASSUME AuthInv, NEW c \in Clients, NEW code, Refuse(c, code),
           UNCHANGED <<config, registry, session>>
    PROVE  AuthInv'
<1>1. Shape
  BY DEF AuthInv
<1>2. Shape'
  BY <1>1, Refused DEF Shape
<1>3. pc'[c] = "done"
  BY <1>1, Refused DEF Shape
<1>4. Vouched(c)'
  BY <1>3 DEF AuthInv, Vouched, SessionVouched
<1>5. \A d \in Clients : d # c => /\ pc'[d] = pc[d] /\ req'[d] = req[d]
                                   /\ session'[d] = session[d]
  BY <1>1, Refused DEF Shape
<1> QED
  BY <1>2, <1>4, <1>5, OneClient

\* A request that goes on to another place, with the session as it is.
LEMMA MovedOn ==
    ASSUME Shape, NEW c \in Clients, NEW r, DOMAIN r = DOMAIN NoRequest,
           req' = [req EXCEPT ![c] = r], NEW l \in Places, Goto(c, l),
           UNCHANGED <<config, registry, session>>
    PROVE  /\ Shape' /\ pc'[c] = l /\ req'[c] = r
           /\ \A d \in Clients : d # c => /\ pc'[d] = pc[d] /\ req'[d] = req[d]
                                          /\ session'[d] = session[d]
BY DEF Shape, Goto

\* CallTool and CallToolStream.
LEMMA CallToolAuth ==
    ASSUME AuthInv, NEW c \in Clients,
           NEW kind \in {"CallTool", "CallToolStream"}, NEW h \in Headers,
           NEW name, CallTool(c, kind, h, name)
    PROVE  AuthInv'
<1> DEFINE resolver == Handler("grpc", config)
           guarded == config.interceptors
<1>1. UNCHANGED <<config, registry, session>> /\ ~session[c].open
  BY DEF CallTool, NewRequest
<1>2. CASE \E code : Refuse(c, code)
  BY <1>1, <1>2, RefusedAuth
<1>3. ASSUME AuthInterceptors(h) = "OK",
             NEW who \in ResolveIdentity(resolver, guarded, h),
             req' = [req EXCEPT ![c] =
                [NoRequest EXCEPT
                    !.kind = kind, !.name = name, !.backendName = name,
                    !.header = IF guarded THEN h ELSE NoHeader,
                    !.identity = who,
                    !.scopes = TokenScopes(guarded, h)]],
             Goto(c, "resolve")
      PROVE  AuthInv'
  <2> DEFINE r == [NoRequest EXCEPT
                    !.kind = kind, !.name = name, !.backendName = name,
                    !.header = IF guarded THEN h ELSE NoHeader,
                    !.identity = who,
                    !.scopes = TokenScopes(guarded, h)]
  <2>1. /\ DOMAIN r = DOMAIN NoRequest
        /\ r.header = IF guarded THEN h ELSE NoHeader
        /\ r.identity = who /\ r.kind = kind
        /\ r.scopes = TokenScopes(guarded, h)
    BY DEF NoRequest
  <2>2. req' = [req EXCEPT ![c] = r]
    BY <1>3
  <2> HIDE DEF r
  <2>3. /\ Shape' /\ pc'[c] = "resolve" /\ req'[c] = r
        /\ \A d \in Clients : d # c => /\ pc'[d] = pc[d] /\ req'[d] = req[d]
                                       /\ session'[d] = session[d]
    BY <1>1, <1>3, <2>1, <2>2, MovedOn DEF AuthInv, Places
  <2>4. ASSUME guarded
        PROVE  /\ r.header = h /\ Accepted(r.header)
               /\ r.scopes = ScopesOf(r.header)
    <3>1. r.header = h /\ r.scopes = ScopesOf(h)
      BY <2>1, <2>4 DEF TokenScopes, HasTokenInfo, ScopesOf
    <3>2. AuthenticateGRPC(h) = "OK"
      BY <1>3, <2>4 DEF AuthInterceptors
    <3> QED
      BY <3>1, <3>2, ScopesChecked
  <2>5. ASSUME NewServer(config) = "token"
        PROVE  guarded /\ Identifies(r.header, r.identity)
    <3>1. resolver = "token"
      BY <2>5, TokenResolvers DEF AuthInv, Shape
    <3>2. guarded /\ h.verdict = "ok" /\ who = MapIdentity(h)
      BY <1>3, <3>1, TokenIdentity
    <3> QED
      BY <2>1, <3>2 DEF Identifies
  <2>6. Vouched(c)
    BY DEF AuthInv
  <2>7. InvokeVouched(r, session[c])
    BY <1>1, <2>1, <2>4, <2>5 DEF InvokeVouched
  <2>8. Vouched(c)'
    BY <1>1, <2>1, <2>3, <2>6, <2>7 DEF Vouched, SessionVouched, InvokeVouched
  <2> QED
    BY <1>1, <2>3, <2>8, OneClient
<1> QED
  BY <1>2, <1>3 DEF CallTool

\* ListTools, as far as the gateway.
LEMMA ListToolsAuth ==
    ASSUME AuthInv, NEW c \in Clients, NEW h \in Headers, ListTools(c, h)
    PROVE  AuthInv'
<1> DEFINE r == [NoRequest EXCEPT
                   !.kind = "ListTools",
                   !.header = IF config.interceptors THEN h ELSE NoHeader]
<1>1. UNCHANGED <<config, registry, session>> /\ ~session[c].open
  BY DEF ListTools, NewRequest
<1>2. CASE \E code : Refuse(c, code)
  BY <1>1, <1>2, RefusedAuth
<1>3. CASE /\ AuthInterceptors(h) = "OK" /\ Goto(c, "listTools")
           /\ req' = [req EXCEPT ![c] = r]
  <2>1. /\ DOMAIN r = DOMAIN NoRequest /\ r.kind = "ListTools"
        /\ r.header = IF config.interceptors THEN h ELSE NoHeader
    BY DEF NoRequest
  <2>2. req' = [req EXCEPT ![c] = r]
    BY <1>3
  <2> HIDE DEF r
  <2>3. /\ Shape' /\ pc'[c] = "listTools" /\ req'[c] = r
        /\ \A d \in Clients : d # c => /\ pc'[d] = pc[d] /\ req'[d] = req[d]
                                       /\ session'[d] = session[d]
    BY <1>1, <1>3, <2>1, <2>2, MovedOn DEF AuthInv, Places
  <2>4. config.interceptors => Accepted(r.header)
    BY <1>3, <2>1, ScopesChecked DEF AuthInterceptors
  <2>5. Vouched(c)
    BY DEF AuthInv
  <2>6. Vouched(c)'
    BY <1>1, <2>1, <2>3, <2>4, <2>5 DEF Vouched, SessionVouched
  <2> QED
    BY <1>1, <2>3, <2>6, OneClient
<1> QED
  BY <1>2, <1>3 DEF ListTools

\* The gateway's list ends the request.
LEMMA ToolsListedAuth ==
    ASSUME AuthInv, NEW c \in Clients, ToolsListed(c)
    PROVE  AuthInv'
<1>1. UNCHANGED <<config, registry, session>> /\ \E code : Refuse(c, code)
  BY DEF ToolsListed
<1> QED
  BY <1>1, RefusedAuth

\* BuildInvocation.
LEMMA BuildInvocationAuth ==
    ASSUME AuthInv, NEW c \in Clients, BuildInvocation(c)
    PROVE  AuthInv'
<1>1. pc[c] = "resolve" /\ UNCHANGED <<config, registry, session>>
  BY DEF BuildInvocation
<1>2. CASE \E code : Refuse(c, code)
  BY <1>1, <1>2, RefusedAuth
<1>3. ASSUME NEW t, req' = [req EXCEPT ![c].tool = t], Goto(c, "invoke")
      PROVE  AuthInv'
  <2> DEFINE r == [req[c] EXCEPT !.tool = t]
  <2>1. /\ DOMAIN r = DOMAIN NoRequest
        /\ r.header = req[c].header /\ r.identity = req[c].identity
        /\ r.scopes = req[c].scopes /\ r.kind = req[c].kind
    BY DEF AuthInv, Shape, NoRequest
  <2>2. req' = [req EXCEPT ![c] = r]
    BY <1>3
  <2> HIDE DEF r
  <2>3. /\ Shape' /\ pc'[c] = "invoke" /\ req'[c] = r
        /\ \A d \in Clients : d # c => /\ pc'[d] = pc[d] /\ req'[d] = req[d]
                                       /\ session'[d] = session[d]
    BY <1>1, <1>3, <2>1, <2>2, MovedOn DEF AuthInv, Places
  <2>4. Vouched(c)
    BY DEF AuthInv
  <2>5. InvokeVouched(req[c], session[c])
    BY <1>1, <2>4 DEF Vouched
  <2>6. InvokeVouched(r, session[c])
    BY <2>1, <2>5 DEF InvokeVouched
  <2>7. Vouched(c)'
    BY <1>1, <2>3, <2>4, <2>6 DEF Vouched, SessionVouched, InvokeVouched
  <2> QED
    BY <1>1, <2>3, <2>7, OneClient
<1> QED
  BY <1>2, <1>3 DEF BuildInvocation

\* OpenSession, as far as the list of tools.
LEMMA OpenSessionAuth ==
    ASSUME AuthInv, NEW c \in Clients, NEW over \in {"http", "sse", "ws"},
           NEW h \in Headers, OpenSession(c, over, h)
    PROVE  AuthInv'
<1> DEFINE resolver == Handler(over, config)
           q == [NoRequest EXCEPT
                   !.kind = "session", !.name = over,
                   !.header = IF config.enterprise THEN h ELSE NoHeader]
<1>1. /\ UNCHANGED <<config, registry, session>> /\ ~session[c].open
      /\ resolver # "refused"
  BY DEF OpenSession, NewRequest
<1>2. CASE \E code : Refuse(c, code)
  BY <1>1, <1>2, RefusedAuth
<1>3. ASSUME BearerMiddleware(h),
             NEW who \in ResolveIdentity(resolver, config.enterprise, h),
             req' = [req EXCEPT ![c] = [q EXCEPT !.identity = who]],
             Goto(c, "list")
      PROVE  AuthInv'
  <2> DEFINE r == [q EXCEPT !.identity = who]
  <2>1. /\ DOMAIN r = DOMAIN NoRequest
        /\ r.header = IF config.enterprise THEN h ELSE NoHeader
        /\ r.identity = who /\ r.kind = "session"
    BY DEF NoRequest
  <2>2. req' = [req EXCEPT ![c] = r]
    BY <1>3
  <2> HIDE DEF r
  <2>3. /\ Shape' /\ pc'[c] = "list" /\ req'[c] = r
        /\ \A d \in Clients : d # c => /\ pc'[d] = pc[d] /\ req'[d] = req[d]
                                       /\ session'[d] = session[d]
    BY <1>1, <1>3, <2>1, <2>2, MovedOn DEF AuthInv, Places
  <2>4. ASSUME NewServer(config) = "token"
        PROVE  Identifies(r.header, r.identity)
    <3>1. config.enterprise /\ resolver = "token"
      BY <1>1, <2>4, TokenResolvers DEF AuthInv, Shape
    <3>2. h.verdict = "ok" /\ who = MapIdentity(h)
      BY <1>3, <3>1, TokenIdentity
    <3> QED
      BY <2>1, <3>1, <3>2 DEF Identifies
  <2>5. config.enterprise => Accepted(r.header)
    BY <1>3, <2>1, ScopesChecked DEF BearerMiddleware
  <2>6. Vouched(c)
    BY DEF AuthInv
  <2>7. Vouched(c)'
    BY <1>1, <2>1, <2>3, <2>4, <2>5, <2>6 DEF Vouched, SessionVouched
  <2> QED
    BY <1>1, <2>3, <2>7, OneClient
<1> QED
  BY <1>2, <1>3 DEF OpenSession

\* The rest of BuildGetServer: a session is opened with the header and the
\* identity of the request.
LEMMA SessionOpensAuth ==
    ASSUME AuthInv, NEW c \in Clients, SessionOpens(c)
    PROVE  AuthInv'
<1>0. Shape /\ UNCHANGED <<config, registry>> /\ pc[c] = "list"
  BY DEF SessionOpens, AuthInv
<1>1. PICK code : Refuse(c, code)
  BY DEF SessionOpens
<1>2. CASE UNCHANGED session
  BY <1>0, <1>1, <1>2, RefusedAuth
<1>3. ASSUME NEW tools, NEW resources,
             session' = [session EXCEPT ![c] =
                [open |-> TRUE, over |-> req[c].name,
                 header |-> req[c].header, identity |-> req[c].identity,
                 tools |-> tools, resources |-> resources]]
      PROVE  AuthInv'
  <2>1. /\ session' = [d \in Clients |-> session'[d]]
        /\ session'[c].header = req[c].header
        /\ session'[c].identity = req[c].identity
        /\ \A d \in Clients : d # c => session'[d] = session[d]
    BY <1>0, <1>3 DEF Shape
  <2>2. /\ pc' \in [Clients -> Places] /\ pc'[c] = "done"
        /\ \A d \in Clients : d # c => pc'[d] = pc[d] /\ req'[d] = req[d]
        /\ req' = [d \in Clients |-> req'[d]]
        /\ \A d \in Clients : DOMAIN req'[d] = DOMAIN NoRequest
    BY <1>0, <1>1, Refused DEF Shape
  <2>3. Shape'
    BY <1>0, <2>1, <2>2 DEF Shape
  <2>4. Vouched(c)
    BY DEF AuthInv
  <2>5. SessionVouched(session[c])'
    BY <1>0, <2>1, <2>4 DEF Vouched, SessionVouched
  <2>6. Vouched(c)'
    BY <2>2, <2>5 DEF Vouched
  <2> QED
    BY <1>0, <2>1, <2>2, <2>3, <2>6, OneClient
<1> QED
  BY <1>2, <1>3 DEF SessionOpens

\* DispatchToolCall and DispatchResourceRead: a request of the session, with
\* its identity and the scopes of the request's own token or of the session's.
LEMMA SessionRequestAuth ==
    ASSUME AuthInv, NEW c \in Clients,
           NEW kind \in {"session call", "resource read"}, NEW h \in Headers,
           NEW ctx \in {h, session[c].header}, NEW tool,
           NEW name, session[c].open, BearerMiddleware(h),
           req' = [req EXCEPT ![c] =
                      SessionRequest(c, kind, h, ctx, tool, name)],
           Goto(c, "invoke"), UNCHANGED <<config, registry, session>>
    PROVE  AuthInv'
<1> DEFINE r == SessionRequest(c, kind, h, ctx, tool, name)
<1>1. /\ DOMAIN r = DOMAIN NoRequest /\ r.kind = kind
      /\ r.header = IF config.enterprise THEN h ELSE NoHeader
      /\ r.identity = session[c].identity
      /\ r.scopes = TokenScopes(config.enterprise, ctx)
  BY DEF SessionRequest, NoRequest
<1>2. req' = [req EXCEPT ![c] = r]
  OBVIOUS
<1> HIDE DEF r
<1>3. /\ Shape' /\ pc'[c] = "invoke" /\ req'[c] = r
      /\ \A d \in Clients : d # c => /\ pc'[d] = pc[d] /\ req'[d] = req[d]
                                     /\ session'[d] = session[d]
  BY <1>1, <1>2, MovedOn DEF AuthInv, Places
<1>4. Vouched(c)
  BY DEF AuthInv
<1>5. ASSUME config.enterprise
      PROVE  /\ Accepted(r.header)
             /\ r.scopes \in {ScopesOf(r.header), ScopesOf(session[c].header)}
  <2>1. AuthenticateGRPC(h) = "OK"
    BY <1>5 DEF BearerMiddleware
  <2>2. Accepted(h) /\ r.header = h
    BY <1>1, <1>5, <2>1, ScopesChecked
  <2>3. r.scopes = ScopesOf(ctx)
    BY <1>1, <1>5 DEF ScopesOf, TokenScopes, HasTokenInfo
  <2> QED
    BY <2>2, <2>3
<1>6. InvokeVouched(r, session[c])
  BY <1>1, <1>5 DEF InvokeVouched
<1>7. Vouched(c)'
  BY <1>3, <1>4, <1>6 DEF Vouched, SessionVouched, InvokeVouched
<1> QED
  BY <1>3, <1>7, OneClient

LEMMA DispatchAuth ==
    ASSUME AuthInv, NEW c \in Clients, NEW h \in Headers,
           \/ \E name, nested \in Names : DispatchToolCall(c, h, name, nested)
           \/ \E tool \in Names : DispatchResourceRead(c, h, tool)
    PROVE  AuthInv'
<1>1. PICK kind \in {"session call", "resource read"} :
        \E tool, name : SessionDispatch(c, kind, h, tool, name)
  BY DEF DispatchToolCall, DispatchResourceRead
<1>2. PICK tool, name : SessionDispatch(c, kind, h, tool, name)
  BY <1>1
<1>3. UNCHANGED <<config, registry, session>> /\ session[c].open
  BY <1>2 DEF SessionDispatch, NewRequest
<1>4. CASE Refuse(c, "Refused")
  BY <1>3, <1>4, RefusedAuth
<1>5. CASE /\ BearerMiddleware(h) /\ Goto(c, "invoke")
           /\ \E ctx \in {h, session[c].header} :
                req' = [req EXCEPT ![c] =
                           SessionRequest(c, kind, h, ctx, tool, name)]
  BY <1>3, <1>5, SessionRequestAuth
<1> QED
  BY <1>2, <1>4, <1>5 DEF SessionDispatch

\* The gateway's answers end the request.
LEMMA InvokeAuth ==
    ASSUME AuthInv, NEW c \in Clients, InvokeReturns(c) \/ InvokeFails(c)
    PROVE  AuthInv'
<1>1. UNCHANGED <<config, registry, session>>
  BY DEF InvokeReturns, InvokeFails
<1>2. CASE \E code : Refuse(c, code)
  BY <1>1, <1>2, RefusedAuth
<1>3. ASSUME NEW via, NEW said, NEW res,
             Finish(c, [NoRequest EXCEPT
                          !.kind = req[c].kind, !.via = via, !.said = said,
                          !.status = res.status,
                          !.answer = Convert(req[c].kind, res)], "OK")
      PROVE  AuthInv'
  <2> DEFINE r == [[NoRequest EXCEPT
                      !.kind = req[c].kind, !.via = via, !.said = said,
                      !.status = res.status,
                      !.answer = Convert(req[c].kind, res)]
                    EXCEPT !.code = "OK"]
  <2>1. DOMAIN r = DOMAIN NoRequest
    BY DEF NoRequest
  <2>2. req' = [req EXCEPT ![c] = r] /\ Goto(c, "done")
    BY <1>3 DEF Finish
  <2> HIDE DEF r
  <2>3. /\ Shape' /\ pc'[c] = "done"
        /\ \A d \in Clients : d # c => /\ pc'[d] = pc[d] /\ req'[d] = req[d]
                                       /\ session'[d] = session[d]
    BY <1>1, <2>1, <2>2, MovedOn DEF AuthInv, Places
  <2>4. Vouched(c)'
    BY <1>1, <2>3 DEF AuthInv, Vouched, SessionVouched
  <2> QED
    BY <1>1, <2>3, <2>4, OneClient
<1> QED
  BY <1>2, <1>3, ZenonT(60) DEF InvokeReturns, InvokeFails

\* The client takes its answer, or leaves.
LEMMA LeavesAuth ==
    ASSUME AuthInv, NEW c \in Clients, Return(c) \/ CloseSession(c)
    PROVE  AuthInv'
<1>1. Shape /\ UNCHANGED <<config, registry>>
  BY DEF AuthInv, Return, CloseSession
<1>2. CASE Return(c)
  <2>1. /\ Shape' /\ pc'[c] = "idle" /\ session' = session
        /\ \A d \in Clients : d # c => /\ pc'[d] = pc[d] /\ req'[d] = req[d]
                                       /\ session'[d] = session[d]
    BY <1>1, <1>2, MovedOn DEF Return, Places
  <2>2. Vouched(c)'
    BY <1>1, <2>1 DEF AuthInv, Vouched, SessionVouched
  <2> QED
    BY <1>1, <2>1, <2>2, OneClient
<1>3. CASE CloseSession(c)
  <2>1. /\ session' = [session EXCEPT ![c] = NoSession]
        /\ UNCHANGED <<pc, req>> /\ pc[c] = "idle"
    BY <1>3 DEF CloseSession
  <2>2. /\ session' = [d \in Clients |-> session'[d]]
        /\ ~session'[c].open
        /\ \A d \in Clients : d # c => session'[d] = session[d]
    BY <1>1, <2>1 DEF Shape, NoSession
  <2>3. Shape'
    BY <1>1, <2>1, <2>2 DEF Shape
  <2>4. Vouched(c)'
    BY <2>1, <2>2 DEF Vouched, SessionVouched
  <2> QED
    BY <1>1, <2>1, <2>2, <2>3, <2>4, OneClient
<1> QED
  BY <1>2, <1>3

\* The invariant holds at first and no step breaks it.
LEMMA AuthInvariant == Spec => []AuthInv
<1>1. Init => AuthInv
  <2> SUFFICES ASSUME Init PROVE AuthInv
    OBVIOUS
  <2>1. Shape
    BY DEF Init, Shape, Places
  <2>2. ASSUME NEW c \in Clients PROVE Vouched(c)
    <3>1. pc[c] = "idle" /\ ~session[c].open
      BY DEF Init, NoSession
    <3> QED
      BY <3>1 DEF Vouched, SessionVouched
  <2> QED
    BY <2>1, <2>2 DEF AuthInv
<1>2. AuthInv /\ [Next]_vars => AuthInv'
  <2> SUFFICES ASSUME AuthInv, [Next]_vars PROVE AuthInv'
    OBVIOUS
  <2>1. ASSUME NEW c \in Clients, Call(c) PROVE AuthInv'
    <3>1. PICK h \in Headers :
            \/ \E kind \in {"CallTool", "CallToolStream"}, name \in Names :
                  CallTool(c, kind, h, name)
            \/ ListTools(c, h)
            \/ \E over \in {"http", "sse", "ws"} : OpenSession(c, over, h)
            \/ \E name, nested \in Names : DispatchToolCall(c, h, name, nested)
            \/ \E tool \in Names : DispatchResourceRead(c, h, tool)
      BY <2>1 DEF Call
    <3> QED
      BY <3>1, CallToolAuth, ListToolsAuth, OpenSessionAuth, DispatchAuth
  <2>2. ASSUME NEW c \in Clients,
               \/ ToolsListed(c) \/ BuildInvocation(c) \/ SessionOpens(c)
               \/ InvokeReturns(c) \/ InvokeFails(c)
               \/ Return(c) \/ CloseSession(c)
        PROVE  AuthInv'
    BY <2>2, ToolsListedAuth, BuildInvocationAuth, SessionOpensAuth,
       InvokeAuth, LeavesAuth
  <2>3. CASE RegistryChanges \/ CachesExpire \/ UNCHANGED vars
    <3>1. /\ UNCHANGED <<config, pc, req, session>>
          /\ registry' \in Registries
      BY <2>3 DEF RegistryChanges, CachesExpire, vars, AuthInv, Shape
    <3>2. Shape'
      BY <3>1 DEF AuthInv, Shape
    <3>3. \A c \in Clients : Vouched(c) => Vouched(c)'
      BY <3>1, Untouched
    <3> QED
      BY <3>1, <3>2, <3>3 DEF AuthInv
  <2> QED
    BY <2>1, <2>2, <2>3 DEF Next
<1> QED
  BY <1>1, <1>2, PTL DEF Spec

\* authenticateGRPC, checkScopes, the bearer middleware and the resolvers:
\* where tokens are verified, every request that asks the gateway for anything
\* has an accepted token with the required scopes; without a resolver of the
\* application's, so has every call and session under enterprise authorization,
\* and the identity of that token or of the one its session was opened with.
\* A gRPC server without interceptors verifies none: its ListTools, and its
\* calls with the application's resolver, are outside the claim.
THEOREM Authorized == Spec => []RequestsAuthorized
<1>1. AuthInv => RequestsAuthorized
  <2> SUFFICES ASSUME AuthInv, NEW c \in Clients,
                      pc[c] \in {"resolve", "list", "listTools", "invoke"}
               PROVE  LET h == req[c].header
                          who == IF session[c].open THEN session[c].header
                                 ELSE h
                      IN  /\ Guarded(c) =>
                               /\ AuthenticateGRPC(h) = "OK"
                               /\ AuthenticateGRPC(who) = "OK"
                          /\ Guarded(c) /\ pc[c] = "invoke" =>
                               /\ RequiredScopes \subseteq req[c].scopes
                               /\ \/ req[c].scopes = TokenScopes(TRUE, h)
                                  \/ req[c].scopes = TokenScopes(TRUE, who)
                          /\ NewServer(config) = "token" /\ pc[c] # "listTools" =>
                               /\ Guarded(c)
                               /\ who.verdict = "ok"
                               /\ req[c].identity = MapIdentity(who)
    BY DEF RequestsAuthorized
  <2>1. Vouched(c)
    BY DEF AuthInv
  <2>2. NewServer(config) = "token" => config.enterprise
    BY TokenResolvers DEF AuthInv, Shape
  <2>3. CASE pc[c] = "list"
    BY <2>1, <2>2, <2>3 DEF Vouched, Guarded, Accepted, Identifies
  <2>4. CASE pc[c] = "listTools"
    BY <2>1, <2>4 DEF Vouched, Guarded, Accepted
  <2>5. CASE pc[c] \in {"resolve", "invoke"} /\ ~session[c].open
    BY <2>1, <2>5
    DEF Vouched, InvokeVouched, Guarded, Accepted, Identifies, ScopesOf
  <2>6. CASE pc[c] = "invoke" /\ session[c].open
    BY <2>1, <2>2, <2>6
    DEF Vouched, SessionVouched, InvokeVouched, Guarded, Accepted, Identifies,
        ScopesOf
  <2> QED
    BY <2>1, <2>3, <2>4, <2>5, <2>6 DEF Vouched
<1> QED
  BY <1>1, AuthInvariant, PTL

----------------------------------------------------------------------------
(* The texts of a sequence of items.                                       *)

\* Induction: there is no least number outside of the set.
LEMMA Induction ==
    ASSUME NEW M \in SUBSET Nat, 0 \in M, \A m \in M : m + 1 \in M
    PROVE  M = Nat
<1> SUFFICES ASSUME Nat \ M # {} PROVE FALSE
  OBVIOUS
<1> DEFINE T == Nat \ M
           R == OpToRel(<, Nat)
<1>1. IsWellFoundedOn(R, Nat)
  BY NatLessThanWellFounded
<1>2. PICK x \in T : \A y \in T : ~(<<y, x>> \in R)
  <2>1. T \subseteq Nat /\ T # {}
    OBVIOUS
  <2> HIDE DEF R, T
  <2> QED
    BY <1>1, <2>1, WFMin
<1>3. x \in Nat /\ x # 0 /\ x \notin M
  BY <1>2
<1>4. x - 1 \in Nat /\ x - 1 < x
  BY <1>3
<1>5. <<x - 1, x>> \in R
  BY <1>3, <1>4 DEF OpToRel
<1>6. x - 1 \in M
  BY <1>2, <1>4, <1>5
<1> QED
  BY <1>3, <1>6

\* One turn of the loop over the items, for every prefix of them.
Turn(s, f, n) ==
    IF n = 0 THEN <<>>
    ELSE IF IsText(s[n]) THEN Append(f[n - 1], s[n])
    ELSE f[n - 1]
Loop(s, f) == [n \in 0 .. Len(s) |-> Turn(s, f, n)]

LEMMA TextsLoop ==
    ASSUME NEW s
    PROVE  Texts(s) = (CHOOSE f : f = Loop(s, f))[Len(s)]
BY DEF Texts, Loop, Turn

\* Two sequences with the same texts in the same places.
LEMMA SameTexts ==
    ASSUME NEW x, NEW y, Len(x) = Len(y), Len(x) \in Nat,
           \A i \in 1 .. Len(x) : /\ IsText(x[i]) <=> IsText(y[i])
                                  /\ IsText(x[i]) => x[i] = y[i]
    PROVE  Texts(x) = Texts(y)
<1>1. ASSUME NEW f PROVE Loop(x, f) = Loop(y, f)
  <2>1. ASSUME NEW n \in 0 .. Len(x) PROVE Turn(x, f, n) = Turn(y, f, n)
    BY DEF Turn
  <2> QED
    BY <2>1 DEF Loop
<1>2. (CHOOSE f : f = Loop(x, f)) = (CHOOSE f : f = Loop(y, f))
  BY <1>1
<1> QED
  BY <1>2, TextsLoop

\* The loop has an outcome.
LEMMA Gathered ==
    ASSUME NEW s, Len(s) \in Nat
    PROVE  \E f : /\ \A n \in 0 .. Len(s) : f[n] = Turn(s, f, n)
                  /\ Texts(s) = f[Len(s)]
<1> DEFINE Upto(m, f) == f = [n \in 0 .. m |-> Turn(s, f, n)]
           M == {m \in Nat : \E f : Upto(m, f)}
<1>1. 0 \in M
  <2>1. Upto(0, [n \in 0 .. 0 |-> <<>>])
    BY DEF Turn
  <2> QED
    BY <2>1
<1>2. ASSUME NEW m \in M PROVE m + 1 \in M
  <2>1. m \in Nat
    OBVIOUS
  <2>2. PICK f : Upto(m, f)
    OBVIOUS
  <2> DEFINE g == [n \in 0 .. m + 1 |->
                     IF n = m + 1 THEN Turn(s, f, n) ELSE f[n]]
  <2>3. ASSUME NEW n \in 0 .. m + 1 PROVE g[n] = Turn(s, g, n)
    <3>1. CASE n = 0
      BY <2>1, <2>2, <3>1 DEF Turn
    <3>2. CASE n # 0
      <4>1. n - 1 \in 0 .. m
        BY <2>1, <3>2
      <4>2. g[n - 1] = f[n - 1]
        BY <2>1, <4>1
      <4>3. g[n] = Turn(s, f, n)
        BY <2>1, <2>2
      <4> HIDE DEF g
      <4> QED
        BY <3>2, <4>2, <4>3 DEF Turn
    <3> QED
      BY <3>1, <3>2
  <2>4. Upto(m + 1, g)
    <3>1. g = [n \in 0 .. m + 1 |-> g[n]]
      OBVIOUS
    <3> HIDE DEF g
    <3> QED
      BY <2>3, <3>1
  <2> HIDE DEF Upto, g
  <2> QED
    BY <2>1, <2>4
<1>3. M = Nat
  <2>1. M \in SUBSET Nat
    OBVIOUS
  <2> HIDE DEF M
  <2> QED
    BY <1>1, <1>2, <2>1, Induction
<1>4. \E f : f = Loop(s, f)
  BY <1>3 DEF Loop
<1> DEFINE F == CHOOSE f : f = Loop(s, f)
<1>5. F = Loop(s, F)
  <2> HIDE DEF Loop
  <2> QED
    BY <1>4
<1> HIDE DEF F
<1>6. ASSUME NEW n \in 0 .. Len(s) PROVE F[n] = Turn(s, F, n)
  <2>1. F[n] = Loop(s, F)[n]
    BY <1>5
  <2>2. Loop(s, F)[n] = Turn(s, F, n)
    BY DEF Loop
  <2> QED
    BY <2>1, <2>2
<1>7. Texts(s) = F[Len(s)]
  BY TextsLoop DEF F
<1> QED
  BY <1>6, <1>7

\* What the loop gathers is a sequence of texts.
LEMMA TextsAreTexts ==
    ASSUME NEW S, NEW s \in Seq(S)
    PROVE  /\ Texts(s) \in Seq(S)
           /\ \A i \in 1 .. Len(Texts(s)) : IsText(Texts(s)[i])
<1>1. PICK f : /\ \A n \in 0 .. Len(s) : f[n] = Turn(s, f, n)
               /\ Texts(s) = f[Len(s)]
  <2>1. Len(s) \in Nat
    OBVIOUS
  <2> QED
    BY <2>1, Gathered
<1> DEFINE Good(q) == q \in Seq(S) /\ \A i \in 1 .. Len(q) : IsText(q[i])
           M == {n \in Nat : n <= Len(s) => Good(f[n])}
<1>2. 0 \in M
  <2>1. f[0] = <<>>
    BY <1>1 DEF Turn
  <2>2. Good(<<>>)
    OBVIOUS
  <2> QED
    BY <2>1, <2>2
<1>3. ASSUME NEW n \in M, n + 1 <= Len(s) PROVE Good(f[n + 1])
  <2>1. n \in Nat /\ Len(s) \in Nat /\ n <= Len(s) /\ Good(f[n])
    BY <1>3
  <2>2. f[n + 1] = Turn(s, f, n + 1)
    BY <1>1, <1>3, <2>1
  <2>3. f[n + 1] = IF IsText(s[n + 1]) THEN Append(f[n], s[n + 1]) ELSE f[n]
    BY <2>1, <2>2 DEF Turn
  <2>4. s[n + 1] \in S
    BY <1>3, <2>1
  <2>5. CASE ~IsText(s[n + 1])
    BY <2>1, <2>3, <2>5
  <2>6. CASE IsText(s[n + 1])
    <3> DEFINE q == Append(f[n], s[n + 1])
    <3>1. /\ q \in Seq(S) /\ Len(q) = Len(f[n]) + 1 /\ Len(f[n]) \in Nat
          /\ \A i \in 1 .. Len(f[n]) : q[i] = f[n][i]
          /\ q[Len(f[n]) + 1] = s[n + 1]
      BY <2>1, <2>4
    <3> HIDE DEF q
    <3>2. ASSUME NEW i \in 1 .. Len(q) PROVE IsText(q[i])
      <4>1. CASE i = Len(f[n]) + 1
        BY <2>6, <3>1, <4>1
      <4>2. CASE i # Len(f[n]) + 1
        <5>1. i \in 1 .. Len(f[n])
          BY <3>1, <4>2
        <5> QED
          BY <2>1, <3>1, <5>1
      <4> QED
        BY <4>1, <4>2
    <3>3. f[n + 1] = q
      BY <2>3, <2>6 DEF q
    <3> QED
      BY <3>1, <3>2, <3>3
  <2> QED
    BY <2>5, <2>6
<1>4. M = Nat
  <2>1. \A n \in M : n + 1 \in M
    BY <1>3
  <2>2. M \in SUBSET Nat
    OBVIOUS
  <2> HIDE DEF M
  <2> QED
    BY <1>2, <2>1, <2>2, Induction
<1>5. Len(s) \in M
  BY <1>4
<1>6. Good(f[Len(s)])
  BY <1>5
<1> QED
  BY <1>1, <1>6

\* Texts are their own texts.
LEMMA TextsOfTexts ==
    ASSUME NEW S, NEW s \in Seq(S), \A i \in 1 .. Len(s) : IsText(s[i])
    PROVE  Texts(s) = s
<1>1. PICK f : /\ \A n \in 0 .. Len(s) : f[n] = Turn(s, f, n)
               /\ Texts(s) = f[Len(s)]
  <2>1. Len(s) \in Nat
    OBVIOUS
  <2> QED
    BY <2>1, Gathered
<1> DEFINE Same(n) == f[n] = SubSeq(s, 1, n)
           M == {n \in Nat : n <= Len(s) => Same(n)}
<1>2. 0 \in M
  <2>1. f[0] = <<>>
    BY <1>1 DEF Turn
  <2>2. SubSeq(s, 1, 0) = <<>>
    OBVIOUS
  <2> QED
    BY <2>1, <2>2
<1>3. ASSUME NEW n \in M, n + 1 <= Len(s) PROVE Same(n + 1)
  <2>1. n \in Nat /\ Len(s) \in Nat /\ n <= Len(s) /\ Same(n)
    BY <1>3
  <2>2. f[n + 1] = Turn(s, f, n + 1)
    BY <1>1, <1>3, <2>1
  <2>3. f[n + 1] = Append(f[n], s[n + 1])
    BY <1>3, <2>1, <2>2 DEF Turn
  <2>4. Append(SubSeq(s, 1, n), s[n + 1]) = SubSeq(s, 1, n + 1)
    BY <1>3, <2>1
  <2> QED
    BY <2>1, <2>3, <2>4
<1>4. M = Nat
  <2>1. \A n \in M : n + 1 \in M
    BY <1>3
  <2>2. M \in SUBSET Nat
    OBVIOUS
  <2> HIDE DEF M
  <2> QED
    BY <1>2, <2>1, <2>2, Induction
<1>5. Len(s) \in M
  BY <1>4
<1>6. f[Len(s)] = SubSeq(s, 1, Len(s))
  BY <1>5
<1>7. SubSeq(s, 1, Len(s)) = s
  OBVIOUS
<1> QED
  BY <1>1, <1>6, <1>7

----------------------------------------------------------------------------
(* What a client is answered.                                              *)

\* Same items, a text where there was that text.
Alike(x, y) ==
    /\ y \in Seq(Items) /\ Len(y) = Len(x)
    /\ \A i \in 1 .. Len(x) : /\ IsText(x[i]) <=> IsText(y[i])
                              /\ IsText(x[i]) => x[i] = y[i]

LEMMA AlikeTexts ==
    ASSUME NEW x \in Seq(Items), NEW y, Alike(x, y)
    PROVE  Texts(y) = Texts(x)
<1>1. Len(x) \in Nat
  OBVIOUS
<1> QED
  BY <1>1, SameTexts DEF Alike

\* A text item has its text and no other field.
LEMMA TextItem ==
    ASSUME NEW x \in Items
    PROVE  /\ x = [type |-> x.type, fields |-> x.fields, value |-> x.value]
           /\ x.type \in ItemTypes /\ x.fields \in SUBSET Fields
           /\ x.value \in Nat
           /\ IsText(x) => x.fields = {"text"}
<1>1. /\ x \in [type : ItemTypes, fields : SUBSET Fields, value : Nat]
      /\ x.type = "text" => x.fields \subseteq {"text"}
  BY DEF Items
<1>2. /\ x = [type |-> x.type, fields |-> x.fields, value |-> x.value]
      /\ x.type \in ItemTypes /\ x.fields \in SUBSET Fields
      /\ x.value \in Nat
  BY <1>1
<1>3. IsText(x) => x.fields = {"text"}
  BY <1>1 DEF IsText
<1> QED
  BY <1>2, <1>3

\* An item that keeps its type and what it holds, and of its fields the text
\* at least.
LEMMA KeepsText ==
    ASSUME NEW x \in Items, NEW F, "text" \in F,
           NEW y, y = [type |-> x.type, fields |-> x.fields \cap F,
                       value |-> x.value]
    PROVE  /\ y \in Items
           /\ IsText(x) <=> IsText(y)
           /\ IsText(x) => x = y
<1>1. /\ y.type = x.type /\ y.fields = x.fields \cap F
      /\ y \in [type : ItemTypes, fields : SUBSET Fields, value : Nat]
  BY TextItem
<1>2. y \in Items
  BY <1>1 DEF Items
<1>3. IsText(x) <=> IsText(y)
  BY <1>1 DEF IsText
<1>4. ASSUME IsText(x) PROVE x = y
  <2>1. x.fields = {"text"}
    BY <1>4, TextItem
  <2>2. x.fields \cap F = x.fields
    BY <2>1
  <2> QED
    BY <2>2, TextItem
<1> QED
  BY <1>2, <1>3, <1>4

\* contentToSlice.
LEMMA ContentToMapItem ==
    ASSUME NEW x \in Items
    PROVE  /\ ContentToMap(x) \in Items
           /\ IsText(x) <=> IsText(ContentToMap(x))
           /\ IsText(x) => x = ContentToMap(x)
<1>1. CASE x.type \notin KnownTypes
  <2>1. ContentToMap(x) = [type |-> "unknown", fields |-> {}, value |-> 0]
    BY <1>1 DEF ContentToMap
  <2>2. ~IsText(x)
    BY <1>1 DEF IsText, KnownTypes
  <2>3. ~IsText(ContentToMap(x))
    BY <2>1 DEF IsText
  <2>4. ContentToMap(x) \in Items
    <3> DEFINE y == [type |-> "unknown", fields |-> {}, value |-> 0]
    <3>1. /\ y \in [type : ItemTypes, fields : SUBSET Fields, value : Nat]
          /\ y.type # "text"
      BY DEF ItemTypes
    <3> HIDE DEF y
    <3>2. y \in Items
      BY <3>1 DEF Items
    <3> QED
      BY <2>1, <3>2 DEF y
  <2> QED
    BY <2>2, <2>3, <2>4
<1>2. CASE x.type = "text"
  <2>1. ContentToMap(x) = [type |-> x.type, fields |-> x.fields \cap {"text"},
                           value |-> x.value]
    BY <1>2 DEF ContentToMap, KnownTypes, Kept
  <2>2. x.fields \cap {"text"} = x.fields
    BY <1>2 DEF Items
  <2>3. ContentToMap(x) = x
    BY <2>1, <2>2, TextItem
  <2> QED
    BY <2>3
<1>3. CASE x.type \in KnownTypes /\ x.type # "text"
  <2>1. ContentToMap(x) =
            [type |-> x.type, fields |-> x.fields \cap Kept[x.type],
             value |-> x.value]
    BY <1>3 DEF ContentToMap
  <2>2. ~IsText(x) /\ ~IsText(ContentToMap(x))
    BY <1>3, <2>1 DEF IsText
  <2>3. /\ x.type \in ItemTypes /\ x.fields \in SUBSET Fields
        /\ x.value \in Nat
    BY TextItem
  <2>4. ContentToMap(x) \in Items
    BY <1>3, <2>1, <2>3 DEF Items
  <2> QED
    BY <2>2, <2>4
<1> QED
  BY <1>1, <1>2, <1>3

LEMMA SliceAlike ==
    ASSUME NEW x \in Seq(Items)
    PROVE  Alike(x, ContentToSlice(x))
<1> DEFINE y == ContentToSlice(x)
<1>1. /\ DOMAIN x = 1 .. Len(x) /\ Len(x) \in Nat
      /\ \A i \in 1 .. Len(x) : x[i] \in Items
  OBVIOUS
<1>2. y = [i \in 1 .. Len(x) |-> ContentToMap(x[i])]
  BY <1>1 DEF ContentToSlice
<1>3. y \in Seq(Items) /\ Len(y) = Len(x)
  BY <1>1, <1>2, ContentToMapItem
<1>4. \A i \in 1 .. Len(x) : y[i] = ContentToMap(x[i])
  BY <1>2
<1> HIDE DEF y
<1>5. Alike(x, y)
  BY <1>1, <1>3, <1>4, ContentToMapItem DEF Alike
<1> QED
  BY <1>5 DEF y

\* outputToContentItems.
LEMMA ContentItemsAlike ==
    ASSUME NEW out, out.content \in Seq(Items)
    PROVE  Alike(out.content, OutputToContentItems(out))
<1> DEFINE x == out.content
           y == OutputToContentItems(out)
<1>0. PICK F : F = {"text", "data", "mime_type"}
  OBVIOUS
<1>1. /\ DOMAIN x = 1 .. Len(x) /\ Len(x) \in Nat
      /\ \A i \in 1 .. Len(x) : x[i] \in Items
  OBVIOUS
<1>2. y = [i \in 1 .. Len(x) |->
              [type |-> x[i].type, fields |-> x[i].fields \cap F,
               value |-> x[i].value]]
  BY <1>0, <1>1 DEF OutputToContentItems
<1>3. ASSUME NEW i \in 1 .. Len(x)
      PROVE  /\ y[i] \in Items
             /\ IsText(x[i]) <=> IsText(y[i])
             /\ IsText(x[i]) => x[i] = y[i]
  <2>1. x[i] \in Items
    BY <1>1
  <2>2. y[i] = [type |-> x[i].type, fields |-> x[i].fields \cap F,
                value |-> x[i].value]
    BY <1>2
  <2>3. "text" \in F
    BY <1>0
  <2> HIDE DEF x, y
  <2> QED
    BY <2>1, <2>2, <2>3, KeepsText
<1>4. y \in Seq(Items) /\ Len(y) = Len(x)
  <2>1. y = [i \in 1 .. Len(x) |-> y[i]]
    BY <1>2
  <2> HIDE DEF y, x
  <2> QED
    BY <1>1, <1>3, <2>1
<1> QED
  BY <1>3, <1>4 DEF Alike

\* The contents of a resource.
LEMMA ContentsAlike ==
    ASSUME NEW x \in Seq(Items), NEW y,
           y = [i \in DOMAIN x |-> [x[i] EXCEPT !.fields =
                    @ \cap {"uri", "mimeType", "text", "blob"}]]
    PROVE  Alike(x, y)
<1>0. PICK F : F = {"uri", "mimeType", "text", "blob"}
  OBVIOUS
<1>1. /\ DOMAIN x = 1 .. Len(x) /\ Len(x) \in Nat
      /\ \A i \in 1 .. Len(x) : x[i] \in Items
  OBVIOUS
<1>2. ASSUME NEW i \in 1 .. Len(x)
      PROVE  /\ y[i] \in Items
             /\ IsText(x[i]) <=> IsText(y[i])
             /\ IsText(x[i]) => x[i] = y[i]
  <2>1. x[i] \in Items
    BY <1>1
  <2>2. y[i] = [x[i] EXCEPT !.fields = @ \cap F]
    BY <1>0, <1>1
  <2>3. x[i] = [type |-> x[i].type, fields |-> x[i].fields,
                value |-> x[i].value]
    BY <2>1, TextItem
  <2>4. y[i] = [type |-> x[i].type, fields |-> x[i].fields \cap F,
                value |-> x[i].value]
    BY <2>2, <2>3
  <2>5. "text" \in F
    BY <1>0
  <2> QED
    BY <2>1, <2>4, <2>5, KeepsText
<1>3. y \in Seq(Items) /\ Len(y) = Len(x)
  <2>1. y = [i \in 1 .. Len(x) |-> y[i]]
    BY <1>1
  <2> QED
    BY <1>1, <1>2, <2>1
<1> QED
  BY <1>2, <1>3 DEF Alike

\* OutputToCallToolResult shows the texts there are.
LEMMA SessionAnswer ==
    ASSUME NEW x \in Seq(Items), NEW out, ~out.nil,
           out.content \in Seq(Items), Texts(out.content) = Texts(x)
    PROVE  \/ Texts(x) = <<>>
           \/ Texts(OutputToCallToolResult(out).content) = Texts(x)
<1> SUFFICES ASSUME Texts(x) # <<>>
             PROVE  Texts(OutputToCallToolResult(out).content) = Texts(x)
  OBVIOUS
<1>1. OutputToCallToolResult(out).content = Texts(x)
  BY DEF OutputToCallToolResult
<1>2. /\ Texts(x) \in Seq(Items)
      /\ \A i \in 1 .. Len(Texts(x)) : IsText(Texts(x)[i])
  BY TextsAreTexts
<1>3. Texts(Texts(x)) = Texts(x)
  BY <1>2, TextsOfTexts
<1> QED
  BY <1>1, <1>3

\* What the executors make of an answer: only one without an error becomes a
\* success, and what it says becomes the output.
LEMMA ExecuteSucceeds ==
    ASSUME NEW open, NEW tool, NEW name, NEW said \in BackendAnswers,
           tool.transport \in {"stdio", "http", "grpc"},
           NEW res \in {Execute(open, tool, name, said),
                        ExecuteStream(open, tool, name, said)},
           res.status = "success"
    PROVE  /\ said.kind = "ok"
           /\ tool.transport # "grpc" =>
                ~said.isError /\ res.output = CallResultToOutput(said)
<1>0. said.kind \in {"ok", "error", "deadline"} /\ said.isError \in BOOLEAN
  BY DEF BackendAnswers
<1>1. ASSUME NEW called, ExecuteHTTP(open, tool, called, said).status = "success"
      PROVE  /\ said.kind = "ok" /\ ~said.isError
             /\ ExecuteHTTP(open, tool, called, said).output =
                    CallResultToOutput(said)
  BY <1>0, <1>1 DEF ExecuteHTTP, Result
<1>2. ASSUME NEW called, ExecuteGRPC(open, tool, called, said).status = "success"
      PROVE  said.kind = "ok"
  BY <1>0, <1>2 DEF ExecuteGRPC, Result
<1>3. ASSUME NEW called,
             ExecuteStreamGRPC(open, tool, called, said).status = "success"
      PROVE  said.kind = "ok"
  BY <1>2, <1>3 DEF ExecuteStreamGRPC
<1> DEFINE to == ParamsFromInvocation(tool, name)
<1>4. CASE tool.transport = "grpc"
  <2>1. \/ res = ExecuteGRPC(open, tool, to, said)
        \/ res = ExecuteStreamGRPC(open, tool, to, said)
    BY <1>4 DEF Execute, ExecuteStream
  <2> QED
    BY <1>2, <1>3, <1>4, <2>1
<1>5. CASE tool.transport # "grpc"
  <2>1. res = ExecuteHTTP(open, tool, to, said)
    BY <1>5 DEF Execute, ExecuteStream, ExecuteStdio, ExecuteStreamHTTP
  <2> QED
    BY <1>1, <2>1
<1> QED
  BY <1>4, <1>5

LEMMA ReadSucceeds ==
    ASSUME NEW open, NEW tool, NEW said \in BackendAnswers,
           tool.transport \in {"stdio", "http", "grpc"},
           ReadResource(open, tool, said).status = "success"
    PROVE  /\ said.kind = "ok"
           /\ ReadResource(open, tool, said).output =
                  ReadResourceResultToOutput(said)
<1>0. said.kind \in {"ok", "error", "deadline"}
  BY DEF BackendAnswers
<1>1. tool.transport # "grpc"
  BY DEF ReadResource, Result
<1>2. ReadResource(open, tool, said) = ReadResourceHTTP(open, said)
  BY <1>1 DEF ReadResource, ReadResourceStdio
<1> QED
  BY <1>0, <1>2 DEF ReadResourceHTTP, Result

\* What ResultsTruthful asks of an answer.
Truthful(kind, via, said, status, answer) ==
    /\ answer.isError <=> status # "success"
    /\ status = "success" => said.kind = "ok"
    /\ status = "success" /\ via # "grpc" =>
         /\ \/ Texts(said.content) = <<>>
            \/ Texts(answer.content) = Texts(said.content)
         /\ \/ kind = "resource read"
            \/ ~said.isError /\ answer.raw = CallResultToOutput(said)

\* A result that is no success is answered with an error.
LEMMA ErrorsTruthful ==
    ASSUME NEW kind, NEW via, NEW said, NEW res, res.status # "success"
    PROVE  Truthful(kind, via, said, res.status, Convert(kind, res))
<1>1. Convert(kind, res) = ErrorAnswer
  BY DEF Convert, ExecutionResultToCallToolResult,
         ExecutionResultToReadResourceResult,
         ExecutionResultToCallToolResponse
<1>2. Convert(kind, res).isError = TRUE
  BY <1>1 DEF ErrorAnswer
<1> QED
  BY <1>2 DEF Truthful

\* The result of a tool call.
LEMMA CallTruthful ==
    ASSUME NEW kind, kind # "resource read", NEW open, NEW tool, NEW name,
           NEW said \in BackendAnswers,
           tool.transport \in {"stdio", "http", "grpc"},
           NEW res \in {Execute(open, tool, name, said),
                        ExecuteStream(open, tool, name, said)},
           res.status = "success"
    PROVE  Truthful(kind, tool.transport, said, res.status, Convert(kind, res))
<1> DEFINE out == res.output
           answer == Convert(kind, res)
<1>0. said.content \in Seq(Items)
  BY DEF BackendAnswers
<1>1. /\ said.kind = "ok"
      /\ tool.transport # "grpc" =>
           ~said.isError /\ out = CallResultToOutput(said)
  BY ExecuteSucceeds
<1>2. /\ kind = "session call" => answer = OutputToCallToolResult(out)
      /\ kind # "session call" =>
           answer = [isError |-> FALSE, raw |-> out,
                     content |-> OutputToContentItems(out)]
  BY DEF Convert, ExecutionResultToCallToolResult,
         ExecutionResultToCallToolResponse
<1> HIDE DEF out, answer
<1>3. answer.isError = FALSE /\ answer.raw = out
  <2>1. CASE kind = "session call"
    <3>1. answer = OutputToCallToolResult(out)
      BY <1>2, <2>1
    <3> QED
      BY <3>1 DEF OutputToCallToolResult
  <2>2. CASE kind # "session call"
    <3>1. answer = [isError |-> FALSE, raw |-> out,
                    content |-> OutputToContentItems(out)]
      BY <1>2, <2>2
    <3> QED
      BY <3>1
  <2> QED
    BY <2>1, <2>2
<1>4. ASSUME tool.transport # "grpc"
      PROVE  \/ Texts(said.content) = <<>>
             \/ Texts(answer.content) = Texts(said.content)
  <2>1. out.content = ContentToSlice(said.content) /\ ~out.nil
    <3>1. out = CallResultToOutput(said)
      BY <1>1, <1>4
    <3> QED
      BY <3>1 DEF CallResultToOutput
  <2>2. /\ out.content \in Seq(Items)
        /\ Texts(out.content) = Texts(said.content)
    <3>1. Alike(said.content, out.content)
      BY <1>0, <2>1, SliceAlike
    <3>2. out.content \in Seq(Items)
      BY <3>1 DEF Alike
    <3> QED
      BY <1>0, <3>1, <3>2, AlikeTexts
  <2>3. CASE kind = "session call"
    <3>1. \/ Texts(said.content) = <<>>
          \/ Texts(OutputToCallToolResult(out).content) = Texts(said.content)
      BY <1>0, <2>1, <2>2, SessionAnswer
    <3> QED
      BY <1>2, <2>3, <3>1
  <2>4. CASE kind # "session call"
    <3>1. answer.content = OutputToContentItems(out)
      <4>1. answer = [isError |-> FALSE, raw |-> out,
                      content |-> OutputToContentItems(out)]
        BY <1>2, <2>4
      <4> QED
        BY <4>1
    <3>2. Alike(out.content, OutputToContentItems(out))
      BY <2>2, ContentItemsAlike
    <3>3. Texts(answer.content) = Texts(out.content)
      BY <2>2, <3>1, <3>2, AlikeTexts
    <3> QED
      BY <2>2, <3>3
  <2> QED
    BY <2>3, <2>4
<1>5. Truthful(kind, tool.transport, said, res.status, answer)
  BY <1>1, <1>3, <1>4 DEF Truthful
<1> QED
  BY <1>5 DEF answer

\* The result of reading a resource.
LEMMA ReadTruthful ==
    ASSUME NEW open, NEW tool, NEW said \in BackendAnswers,
           tool.transport \in {"stdio", "http", "grpc"},
           NEW res, res = ReadResource(open, tool, said),
           res.status = "success"
    PROVE  Truthful("resource read", tool.transport, said, res.status,
                    Convert("resource read", res))
<1> DEFINE out == res.output
           answer == Convert("resource read", res)
           x == said.content
<1>0. x \in Seq(Items)
  BY DEF BackendAnswers
<1>1. said.kind = "ok" /\ out = ReadResourceResultToOutput(said)
  BY ReadSucceeds
<1>2. answer = OutputToReadResourceResult(out)
  BY DEF Convert, ExecutionResultToReadResourceResult
<1>3. answer.isError = FALSE
  <2> HIDE DEF answer, out
  <2> QED
    BY <1>2 DEF OutputToReadResourceResult
<1> HIDE DEF answer
<1>4. Alike(x, out.content)
  <2>1. out.content = [i \in DOMAIN x |-> [x[i] EXCEPT !.fields =
                    @ \cap {"uri", "mimeType", "text", "blob"}]]
    BY <1>1 DEF ReadResourceResultToOutput
  <2> HIDE DEF out, x
  <2> QED
    BY <1>0, <2>1, ContentsAlike
<1> HIDE DEF out
<1>5. Texts(x) = <<>> \/ Texts(answer.content) = Texts(x)
  <2>1. Texts(out.content) = Texts(x)
    BY <1>0, <1>4, AlikeTexts
  <2>2. CASE out.content = <<>>
    <3>1. Texts(<<>>) = <<>>
      <4>1. <<>> \in Seq(Items) /\ \A i \in 1 .. Len(<<>>) : IsText(<<>>[i])
        OBVIOUS
      <4> QED
        BY <4>1, TextsOfTexts
    <3> QED
      BY <2>1, <2>2, <3>1
  <2>3. CASE out.content # <<>>
    BY <1>2, <2>1, <2>3 DEF OutputToReadResourceResult
  <2> QED
    BY <2>2, <2>3
<1>6. Truthful("resource read", tool.transport, said, res.status, answer)
  BY <1>1, <1>3, <1>5 DEF Truthful
<1> QED
  BY <1>6 DEF answer

\* One step of a client, or of the catalog, answers truthfully.
LEMMA TruthfulNext ==
    ASSUME AuthInv, ResultsTruthful, [Next]_vars
    PROVE  ResultsTruthful'
<1> DEFINE Fair(c) ==
        pc[c] = "done" /\ req[c].code = "OK" /\ req[c].kind # "none" =>
            Truthful(req[c].kind, req[c].via, req[c].said, req[c].status,
                     req[c].answer)
<1>0. Shape
  BY DEF AuthInv
<1>1. \A c \in Clients : Fair(c)
  BY DEF ResultsTruthful, Truthful
<1>2. SUFFICES \A c \in Clients : Fair(c)'
  BY <1>2 DEF ResultsTruthful, Truthful
<1>3. ASSUME NEW c \in Clients, Fair(c)',
             \A d \in Clients : d # c => pc'[d] = pc[d] /\ req'[d] = req[d]
      PROVE  \A d \in Clients : Fair(d)'
  BY <1>1, <1>3
<1>4. ASSUME NEW c \in Clients, NEW code, Refuse(c, code)
      PROVE  \A d \in Clients : Fair(d)'
  <2>1. /\ req'[c].kind = "none"
        /\ \A d \in Clients : d # c => pc'[d] = pc[d] /\ req'[d] = req[d]
    BY <1>0, <1>4, Refused DEF Shape
  <2>2. Fair(c)'
    BY <2>1
  <2> QED
    BY <1>3, <2>1, <2>2
<1>5. ASSUME NEW c \in Clients, NEW l \in Places, l # "done", Goto(c, l),
             NEW r, req' = [req EXCEPT ![c] = r]
      PROVE  \A d \in Clients : Fair(d)'
  <2>1. /\ pc'[c] # "done"
        /\ \A d \in Clients : d # c => pc'[d] = pc[d] /\ req'[d] = req[d]
    BY <1>0, <1>5 DEF Shape, Goto
  <2>2. Fair(c)'
    BY <2>1
  <2> QED
    BY <1>3, <2>1, <2>2
<1>6. ASSUME UNCHANGED <<pc, req>>
      PROVE  \A d \in Clients : Fair(d)'
  BY <1>1, <1>6
<1>7. ASSUME NEW c \in Clients, Call(c)
      PROVE  \A d \in Clients : Fair(d)'
  <2>1. \/ \E code : Refuse(c, code)
        \/ \E l \in Places \ {"done"} : \E r :
             Goto(c, l) /\ req' = [req EXCEPT ![c] = r]
    BY <1>7 DEF Call, CallTool, ListTools, OpenSession, DispatchToolCall,
                DispatchResourceRead, SessionDispatch, Places
  <2> QED
    BY <1>4, <1>5, <2>1
<1>8. ASSUME NEW c \in Clients,
             \/ ToolsListed(c) \/ BuildInvocation(c) \/ SessionOpens(c)
             \/ InvokeFails(c) \/ Return(c)
      PROVE  \A d \in Clients : Fair(d)'
  <2>1. CASE \E code : Refuse(c, code)
    BY <1>4, <2>1
  <2>2. ASSUME NEW t, req' = [req EXCEPT ![c].tool = t], Goto(c, "invoke")
        PROVE  \A d \in Clients : Fair(d)'
    <3>1. req' = [req EXCEPT ![c] = [req[c] EXCEPT !.tool = t]]
      BY <2>2
    <3> QED
      BY <1>5, <2>2, <3>1 DEF Places
  <2>3. CASE Goto(c, "idle") /\ req' = [req EXCEPT ![c] = NoRequest]
    BY <1>5, <2>3 DEF Places
  <2> QED
    BY <1>8, <2>1, <2>2, <2>3
    DEF ToolsListed, BuildInvocation, SessionOpens, InvokeFails, Return
<1>9. ASSUME NEW c \in Clients, NEW via, NEW said, NEW res,
             Truthful(req[c].kind, via, said, res.status,
                      Convert(req[c].kind, res)),
             Finish(c, [NoRequest EXCEPT
                          !.kind = req[c].kind, !.via = via, !.said = said,
                          !.status = res.status,
                          !.answer = Convert(req[c].kind, res)], "OK")
      PROVE  \A d \in Clients : Fair(d)'
  <2> DEFINE r == [[NoRequest EXCEPT
                      !.kind = req[c].kind, !.via = via, !.said = said,
                      !.status = res.status,
                      !.answer = Convert(req[c].kind, res)]
                    EXCEPT !.code = "OK"]
  <2>1. /\ r.kind = req[c].kind /\ r.via = via /\ r.said = said
        /\ r.status = res.status /\ r.answer = Convert(req[c].kind, res)
    BY DEF NoRequest
  <2>2. req' = [req EXCEPT ![c] = r] /\ Goto(c, "done")
    BY <1>9 DEF Finish
  <2> HIDE DEF r
  <2>3. /\ req'[c] = r
        /\ \A d \in Clients : d # c => pc'[d] = pc[d] /\ req'[d] = req[d]
    BY <1>0, <2>2 DEF Shape, Goto
  <2>4. Truthful(r.kind, r.via, r.said, r.status, r.answer)
    BY <1>9, <2>1
  <2>5. Fair(c)'
    BY <2>3, <2>4
  <2> QED
    BY <1>3, <2>3, <2>5
<1>10. ASSUME NEW c \in Clients, InvokeReturns(c)
       PROVE  \A d \in Clients : Fair(d)'
  <2> DEFINE kind == req[c].kind
             Ends(via, said, res) ==
                Finish(c, [NoRequest EXCEPT
                          !.kind = req[c].kind, !.via = via, !.said = said,
                          !.status = res.status,
                          !.answer = Convert(req[c].kind, res)], "OK")
  <2>1. ASSUME NEW tool \in registry, NEW open, NEW said \in Answers, NEW res,
               res = CASE kind = "resource read" ->
                            ReadResource(open, tool, said)
                       [] kind = "CallToolStream" ->
                            ExecuteStream(open, tool, req[c].backendName, said)
                       [] OTHER ->
                            Execute(open, tool, req[c].backendName, said),
               Ends(tool.transport, said, res)
        PROVE  \A d \in Clients : Fair(d)'
    <3>1. /\ tool.transport \in {"stdio", "http", "grpc"}
          /\ said \in BackendAnswers
      BY <1>0, ConstantsAssumption DEF Shape
    <3>2. CASE res.status # "success"
      <4>1. Truthful(kind, tool.transport, said, res.status,
                     Convert(kind, res))
        BY <3>2, ErrorsTruthful
      <4> QED
        BY <1>9, <2>1, <4>1
    <3>3. CASE res.status = "success" /\ kind = "resource read"
      <4>1. res = ReadResource(open, tool, said)
        BY <2>1, <3>3
      <4>2. Truthful(kind, tool.transport, said, res.status,
                     Convert(kind, res))
        BY <3>1, <3>3, <4>1, ReadTruthful
      <4> QED
        BY <1>9, <2>1, <4>2
    <3>4. CASE res.status = "success" /\ kind # "resource read"
      <4>1. res \in {Execute(open, tool, req[c].backendName, said),
                     ExecuteStream(open, tool, req[c].backendName, said)}
        BY <2>1, <3>4
      <4>2. Truthful(kind, tool.transport, said, res.status,
                     Convert(kind, res))
        BY <3>1, <3>4, <4>1, CallTruthful
      <4> QED
        BY <1>9, <2>1, <4>2
    <3> QED
      BY <3>2, <3>3, <3>4
  <2>2. ASSUME NEW status \in {"denied", "throttled", "failure", "none"},
               Ends("none", NoAnswer, Result(status, NoOutput))
        PROVE  \A d \in Clients : Fair(d)'
    <3>1. Result(status, NoOutput).status # "success"
      BY DEF Result
    <3> QED
      BY <1>9, <2>2, <3>1, ErrorsTruthful
  <2>3. CASE Ends("none", NoAnswer, NoResult)
    BY <2>2, <2>3 DEF NoResult
  <2> QED
    BY <1>10, <2>1, <2>2, <2>3, ZenonT(60) DEF InvokeReturns
<1>11. CASE \/ \E c \in Clients : CloseSession(c)
            \/ RegistryChanges \/ CachesExpire \/ UNCHANGED vars
  BY <1>6, <1>11 DEF CloseSession, RegistryChanges, CachesExpire, vars
<1> HIDE DEF Fair
<1> QED
  BY <1>7, <1>8, <1>10, <1>11 DEF Next

\* The executors, the egress conversions and those of the ingresses in a row:
\* whatever a backend answers, a client is shown an error if and only if the
\* call did not succeed, and what it is shown of a success of an MCP backend is
\* what the backend said: each of its texts, in their order.
THEOREM AnswersTrue == Spec => []ResultsTruthful
<1>1. Init => ResultsTruthful
  BY DEF Init, ResultsTruthful
<1>2. AuthInv /\ ResultsTruthful /\ [Next]_vars => ResultsTruthful'
  BY TruthfulNext
<1> QED
  BY <1>1, <1>2, AuthInvariant, PTL DEF Spec

----------------------------------------------------------------------------
(* A WebSocket connection, as module WSConn describes it: Write, Close and *)
(* the ping loop share the socket.                                         *)

\* The places in the wire that hold x.
At(x) == {i \in DOMAIN wire : wire[i] = x}

\* Whoever writes has the mutex and its message in the buffer; a call has not
\* sent before it is done; once a close frame is on the wire nothing follows.
WriteInv ==
    /\ writer \in [Writers -> {"idle", "encoded", "writing", "done"}]
    /\ result \in [Writers -> {"none", "nil", "error"}]
    /\ wire \in Seq(Writers \cup {"close"})
    /\ \A w \in Writers :
         /\ writer[w] = "writing" => writeMu = w /\ writeBuf = w
         /\ result[w] = "nil" => writer[w] = "done"
         /\ IF result[w] = "nil" THEN \E i \in At(w) : At(w) = {i}
            ELSE At(w) = {}
    /\ \A i \in DOMAIN wire : wire[i] = "close" => i = Len(wire) /\ writeErr

\* Appending to the wire.
LEMMA WireAppend ==
    ASSUME NEW S, wire \in Seq(S), NEW x \in S, wire' = Append(wire, x)
    PROVE  /\ wire' \in Seq(S) /\ Len(wire) \in Nat
           /\ Len(wire') = Len(wire) + 1
           /\ DOMAIN wire = 1 .. Len(wire)
           /\ DOMAIN wire' = 1 .. Len(wire) + 1
           /\ \A i \in DOMAIN wire : wire'[i] = wire[i]
           /\ wire'[Len(wire) + 1] = x
           /\ At(x)' = At(x) \cup {Len(wire) + 1}
           /\ \A y : y # x => At(y)' = At(y)
<1>1. /\ wire' \in Seq(S) /\ Len(wire) \in Nat
      /\ Len(wire') = Len(wire) + 1
      /\ DOMAIN wire = 1 .. Len(wire)
      /\ DOMAIN wire' = 1 .. Len(wire) + 1
      /\ \A i \in DOMAIN wire : wire'[i] = wire[i]
      /\ wire'[Len(wire) + 1] = x
  OBVIOUS
<1>2. At(x)' = At(x) \cup {Len(wire) + 1}
  BY <1>1 DEF At
<1>3. ASSUME NEW y, y # x PROVE At(y)' = At(y)
  BY <1>1, <1>3 DEF At
<1> QED
  BY <1>1, <1>2, <1>3

\* A step that leaves the wire alone, and takes a call at most to an error.
LEMMA WireKept ==
    ASSUME WriteInv, UNCHANGED wire, writeErr => writeErr',
           NEW w \in Writers, NEW l \in {"encoded", "writing", "done"},
           NEW r \in {"none", "error"}, result[w] # "nil",
           writer' = [writer EXCEPT ![w] = l],
           result' = [result EXCEPT ![w] = r],
           l = "writing" => writeMu' = w /\ writeBuf' = w,
           \A v \in Writers : v # w /\ writer[v] = "writing" =>
               writeMu' = v /\ writeBuf' = v
    PROVE  WriteInv'
<1>1. \A v : At(v)' = At(v)
  BY DEF At
<1>2. /\ writer' \in [Writers -> {"idle", "encoded", "writing", "done"}]
      /\ result' \in [Writers -> {"none", "nil", "error"}]
  BY DEF WriteInv
<1>3. ASSUME NEW v \in Writers
      PROVE  /\ writer'[v] = "writing" => writeMu' = v /\ writeBuf' = v
             /\ result'[v] = "nil" => writer'[v] = "done"
             /\ result'[v] = "nil" <=> result[v] = "nil"
  <2>1. CASE v = w
    BY <2>1 DEF WriteInv
  <2>2. CASE v # w
    BY <2>2 DEF WriteInv
  <2> QED
    BY <2>1, <2>2
<1>4. ASSUME NEW v \in Writers
      PROVE  IF result'[v] = "nil" THEN \E i \in At(v)' : At(v)' = {i}
             ELSE At(v)' = {}
  BY <1>1, <1>3 DEF WriteInv
<1> QED
  BY <1>2, <1>3, <1>4 DEF WriteInv

\* The invariant depends on the writers, the buffer and the wire.
LEMMA WriteInvUnchanged ==
    ASSUME WriteInv, UNCHANGED <<writer, result, writeMu, writeBuf, wire>>,
           writeErr => writeErr'
    PROVE  WriteInv'
<1>1. \A v : At(v)' = At(v)
  BY DEF At
<1> QED
  BY <1>1 DEF WriteInv

\* Each step of a call of Write keeps it.
LEMMA WritesKeep ==
    ASSUME WriteInv, NEW w \in Writers, Writes(w)
    PROVE  WriteInv'
<1>0. /\ result = [result EXCEPT ![w] = result[w]]
      /\ result[w] \in {"none", "nil", "error"}
  BY DEF WriteInv
<1>1. CASE Write(w)
  <2>1. /\ UNCHANGED <<wire, writeErr, writeMu, writeBuf>>
        /\ writer[w] = "idle"
    BY <1>1 DEF Write, wireVars
  <2>2. result[w] # "nil"
    BY <2>1 DEF WriteInv
  <2>3. CASE writer' = [writer EXCEPT ![w] = "encoded"] /\ UNCHANGED result
    BY <1>0, <2>1, <2>2, <2>3, WireKept DEF WriteInv
  <2>4. CASE /\ writer' = [writer EXCEPT ![w] = "done"]
             /\ result' = [result EXCEPT ![w] = "error"]
    BY <2>1, <2>2, <2>4, WireKept DEF WriteInv
  <2> QED
    BY <1>1, <2>3, <2>4 DEF Write, WriterAt, WriteReturns
<1>2. CASE WriteLock(w)
  <2>1. /\ UNCHANGED <<wire, writeErr>>
        /\ writer[w] = "encoded" /\ writeMu = NoOne
    BY <1>2 DEF WriteLock, wireVars
  <2>2. result[w] # "nil" /\ \A v \in Writers : writer[v] # "writing"
    BY <2>1, WSAssumption DEF WriteInv
  <2>3. CASE /\ writer' = [writer EXCEPT ![w] = "writing"]
             /\ UNCHANGED result /\ writeMu' = w /\ writeBuf' = w
    BY <1>0, <2>1, <2>2, <2>3, WireKept
  <2>4. CASE /\ writer' = [writer EXCEPT ![w] = "done"]
             /\ result' = [result EXCEPT ![w] = "error"]
             /\ UNCHANGED <<writeMu, writeBuf>>
    BY <2>1, <2>2, <2>4, WireKept
  <2> QED
    BY <1>2, <2>3, <2>4 DEF WriteLock, WriterAt, WriteReturns
<1>3. CASE WriteMessage(w)
  <2>1. writer[w] = "writing" /\ UNCHANGED writeBuf
    BY <1>3 DEF WriteMessage
  <2>2. /\ result[w] # "nil" /\ writeBuf = w
        /\ \A v \in Writers : v # w => writer[v] # "writing"
    BY <2>1 DEF WriteInv
  <2>3. CASE /\ writeErr' = TRUE /\ UNCHANGED wire
             /\ writer' = [writer EXCEPT ![w] = "done"]
             /\ result' = [result EXCEPT ![w] = "error"]
    BY <2>1, <2>2, <2>3, WireKept
  <2>4. CASE /\ ~writeErr /\ wire' = Append(wire, writeBuf)
             /\ UNCHANGED writeErr
             /\ writer' = [writer EXCEPT ![w] = "done"]
             /\ result' = [result EXCEPT ![w] = "nil"]
    <3> DEFINE S == Writers \cup {"close"}
               n == Len(wire) + 1
    <3>1. wire \in Seq(S) /\ w \in S /\ wire' = Append(wire, w)
      BY <2>2, <2>4 DEF WriteInv
    <3> HIDE DEF S
    <3>2. /\ wire' \in Seq(S) /\ Len(wire) \in Nat
          /\ DOMAIN wire = 1 .. Len(wire) /\ DOMAIN wire' = 1 .. n
          /\ \A i \in DOMAIN wire : wire'[i] = wire[i]
          /\ wire'[n] = w
          /\ At(w)' = At(w) \cup {n}
          /\ \A v : v # w => At(v)' = At(v)
      BY <3>1, WireAppend
    <3>3. /\ writer' \in [Writers -> {"idle", "encoded", "writing", "done"}]
          /\ result' \in [Writers -> {"none", "nil", "error"}]
      BY <2>4 DEF WriteInv
    <3>4. ASSUME NEW v \in Writers
          PROVE  /\ writer'[v] # "writing"
                 /\ result'[v] = "nil" => writer'[v] = "done"
                 /\ IF result'[v] = "nil" THEN \E i \in At(v)' : At(v)' = {i}
                    ELSE At(v)' = {}
      <4>1. CASE v = w
        <5>1. At(v)' = {n}
          BY <2>2, <3>2, <4>1 DEF WriteInv
        <5>2. writer'[v] = "done" /\ result'[v] = "nil"
          BY <2>4, <4>1 DEF WriteInv
        <5> QED
          BY <5>1, <5>2
      <4>2. CASE v # w
        <5>1. At(v)' = At(v) /\ writer'[v] = writer[v] /\ result'[v] = result[v]
          BY <2>4, <3>2, <4>2 DEF WriteInv
        <5> QED
          BY <2>2, <4>2, <5>1 DEF WriteInv
      <4> QED
        BY <4>1, <4>2
    <3>5. \A i \in DOMAIN wire' : wire'[i] # "close"
      <4>1. \A i \in DOMAIN wire : wire[i] # "close"
        BY <2>4 DEF WriteInv
      <4> QED
        BY <3>2, <4>1, WSAssumption
    <3> QED
      BY <3>2, <3>3, <3>4, <3>5 DEF WriteInv, S
  <2> QED
    BY <1>3, <2>3, <2>4 DEF WriteMessage, WriteReturns, WriterAt
<1> QED
  BY <1>1, <1>2, <1>3 DEF Writes

\* So does the close frame.
LEMMA CloseFrameKeeps ==
    ASSUME WriteInv, CloseFrame
    PROVE  WriteInv'
<1>1. /\ writeErr' = TRUE /\ UNCHANGED <<writer, result, writeMu, writeBuf>>
      /\ wire' = IF writeErr THEN wire ELSE Append(wire, "close")
  BY DEF CloseFrame, writeVars
<1>2. CASE writeErr
  BY <1>1, <1>2, WriteInvUnchanged
<1>3. CASE ~writeErr
  <2> DEFINE S == Writers \cup {"close"}
             n == Len(wire) + 1
  <2>1. wire \in Seq(S) /\ "close" \in S /\ wire' = Append(wire, "close")
    BY <1>1, <1>3 DEF WriteInv
  <2> HIDE DEF S
  <2>2. /\ wire' \in Seq(S) /\ Len(wire) \in Nat /\ Len(wire') = n
        /\ DOMAIN wire = 1 .. Len(wire) /\ DOMAIN wire' = 1 .. n
        /\ \A i \in DOMAIN wire : wire'[i] = wire[i]
        /\ \A v : v # "close" => At(v)' = At(v)
    BY <2>1, WireAppend
  <2>3. \A i \in DOMAIN wire' : wire'[i] = "close" => i = n
    <3>1. \A i \in DOMAIN wire : wire[i] # "close"
      BY <1>3 DEF WriteInv
    <3> QED
      BY <2>2, <3>1
  <2>4. \A w \in Writers : At(w)' = At(w)
    BY <2>2, WSAssumption
  <2> QED
    BY <1>1, <2>2, <2>3, <2>4 DEF WriteInv, S
<1> QED
  BY <1>2, <1>3

\* wsConn.Write, writeMu and closeOnce: for any number of callers, a call that
\* returns nil has sent its own message, whole and once, one that fails has sent
\* nothing, and no message follows the close frame, whichever of Close, the
\* ping loop and other calls run in between.
THEOREM WritesTrue == WSSpec => []WritesTruthful
<1>1. WSInit => WriteInv
  BY DEF WSInit, WriteInv, At
<1>2. WriteInv /\ [WSNext]_wsVars => WriteInv'
  <2> SUFFICES ASSUME WriteInv, [WSNext]_wsVars PROVE WriteInv'
    OBVIOUS
  <2>1. ASSUME NEW w \in Writers, Writes(w) PROVE WriteInv'
    BY <2>1, WritesKeep
  <2>2. CASE CloseFrame
    BY <2>2, CloseFrameKeeps
  <2>3. CASE \/ Serve \/ Ping \/ PingLoopEnds \/ Read
             \/ Close \/ CloseSocket
             \/ \E w \in Writers : CancelWrite(w)
             \/ ContextEnds \/ PeerSends \/ PeerLeaves
             \/ UNCHANGED wsVars
    <3>1. /\ UNCHANGED <<writer, result, writeMu, writeBuf, wire>>
          /\ writeErr => writeErr'
      BY <2>3
      DEF Serve, Connect, ConnectFails, StopServing,
          HandlerReturns, Ping, PingLoopEnds, Read, ReadCheck,
          ReadFrame, ReadFails, Close, CloseSocket,
          CancelWrite, ContextEnds, PeerSends, PeerLeaves,
          wsVars, writeVars, wireVars
    <3> QED
      BY <3>1, WriteInvUnchanged
  <2> QED
    BY <2>1, <2>2, <2>3 DEF WSNext, Closes
<1>3. WriteInv => WritesTruthful
  BY DEF WriteInv, At, WritesTruthful
<1> QED
  BY <1>1, <1>2, <1>3, PTL DEF WSSpec
====
