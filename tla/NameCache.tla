---- MODULE NameCache ----
(***************************************************************************)
(* How the gRPC ingress finds the tool of a name                           *)
(* (internal/ingress/grpc/cache.go and resolve.go): requests that share    *)
(* toolNameCache, a catalog that changes under them, and ListTools, an Ask *)
(* to the registrar that answers within ListTimeout or fails.              *)
(*                                                                         *)
(* A critical section without a blocking call is one step.  The read lock  *)
(* is held for such a section only; the write lock is held over ListTools. *)
(***************************************************************************)
EXTENDS Integers, FiniteSets

CONSTANTS
    Requests,     \* goroutines that serve CallTool and CallToolStream
    Names,        \* tool names of requests; a tool's ID is one
    Registries,   \* the catalogs the registrar may have: sets of tools
    TTLs,         \* GRPCIngressConfig.ToolCacheTTL
    DefaultTTL,   \* mcp.DefaultToolCacheTTL
    ListTimeout,  \* Runtime.RequestTimeout, the timeout of the Ask
    MaxTime       \* bound on the clock

NotFound == "not found"
NoRequest == "no request"

ASSUME ConstantsAssumption ==
    /\ TTLs \subseteq Int
    /\ DefaultTTL \in Nat \ {0} /\ ListTimeout \in Nat /\ MaxTime \in Nat
    /\ Registries # {} /\ NoRequest \notin Requests /\ NotFound \notin Names
    /\ \A tools \in Registries :
         /\ IsFiniteSet(tools)
         /\ \A t \in tools : t.id \in Names /\ t.schemas \subseteq Names

VARIABLES
    ttl,       \* the cache's ttl; no cache when it is not positive
    registry,  \* the registrar's catalog
    lastSeen,  \* when each catalog was last the registrar's (history)
    now,       \* the clock
    byName, expireAt,  \* toolNameCache
    mu,        \* the request that holds the write lock
    pc,        \* where a request is
    name,      \* the name it looks for
    list,      \* what its ListTools returned
    asked,     \* when it called ListTools
    found, at  \* what the name was resolved to, and when

vars == <<ttl, registry, lastSeen, now, byName, expireAt, mu, pc, name, list,
          asked, found, at>>

----------------------------------------------------------------------------
(* Names and lists.                                                        *)

\* A tool is found by its ID and by the names of its schemas.
Exports(tool, n) == n = tool.id \/ n \in tool.schemas

\* ListTools iterates over the catalog's map: the tools in any order.
Listings(tools) ==
    {s \in [1..Cardinality(tools) -> tools] :
        \A t \in tools : \E i \in DOMAIN s : s[i] = t}

\* buildToolNameMap: m is the map of this list, in which a later tool takes
\* a name over.
IsToolNameMap(m, s) ==
    \A n \in Names :
        \/ /\ m[n] = NotFound
           /\ \A i \in DOMAIN s : ~Exports(s[i], n)
        \/ \E i \in DOMAIN s :
             /\ Exports(s[i], n) /\ m[n] = s[i].id
             /\ \A j \in DOMAIN s : j > i => ~Exports(s[j], n)

\* resolveToolID: the first tool of the list that has the name.
ResolvesTo(s, n, id) ==
    \/ /\ id = NotFound
       /\ \A i \in DOMAIN s : ~Exports(s[i], n)
    \/ \E i \in DOMAIN s :
         /\ Exports(s[i], n) /\ id = s[i].id
         /\ \A j \in DOMAIN s : j < i => ~Exports(s[j], n)

\* NewServer: zero is the default, and a negative value turns the cache off.
CacheTTL(cfg) == IF cfg = 0 THEN DefaultTTL ELSE cfg

----------------------------------------------------------------------------

\* How old an answer may be, in ticks: one ListTools and, with the cache,
\* less than one TTL.
StalenessBound == ListTimeout + IF ttl > 0 THEN ttl - 1 ELSE 0
Never == -(MaxTime + StalenessBound + 1)

\* NewServer and newToolNameCache: an empty map that has expired.
Init ==
    /\ ttl \in {CacheTTL(cfg) : cfg \in TTLs}
    /\ registry \in Registries
    /\ now = 0
    /\ lastSeen = [r \in Registries |-> IF r = registry THEN 0 ELSE Never]
    /\ byName = [n \in Names |-> NotFound] /\ expireAt = 0
    /\ mu = NoRequest
    /\ pc = [r \in Requests |-> "start"]
    /\ name \in [Requests -> Names]
    /\ list = [r \in Requests |-> <<>>]
    /\ asked = [r \in Requests |-> 0]
    /\ found = [r \in Requests |-> NotFound]
    /\ at = [r \in Requests |-> 0]

\* What the request does next, and nothing else of it changes.
Goto(r, l) == pc' = [pc EXCEPT ![r] = l] /\ UNCHANGED <<found, at>>

\* The name is resolved, to a tool or to none.
Resolved(r, id) ==
    /\ pc' = [pc EXCEPT ![r] = "resolved"]
    /\ found' = [found EXCEPT ![r] = id]
    /\ at' = [at EXCEPT ![r] = now]

\* ListTools has returned and its list is not needed any more.
Forget(r) ==
    /\ list' = [list EXCEPT ![r] = <<>>]
    /\ asked' = [asked EXCEPT ![r] = 0]

\* resolve: under the read lock a fresh map answers, also that there is none.
Resolve(r) ==
    /\ pc[r] = "start" /\ ttl > 0
    /\ mu = NoRequest
    /\ IF now < expireAt
       THEN Resolved(r, byName[name[r]])
       ELSE Goto(r, "refresh")
    /\ UNCHANGED <<ttl, registry, lastSeen, now, byName, expireAt, mu, name,
                   list, asked>>

\* Mutant: the map is not looked at again under the write lock.
LockUnchecked(r) ==
    /\ pc[r] = "refresh" /\ mu = NoRequest
    /\ mu' = r /\ asked' = [asked EXCEPT ![r] = now] /\ Goto(r, "list")
    /\ UNCHANGED <<ttl, registry, lastSeen, now, byName, expireAt, name, list>>

\* refreshAndResolve as far as ListTools: the write lock and the second look.
Lock(r) ==
    /\ pc[r] = "refresh"
    /\ mu = NoRequest
    /\ IF now < expireAt
       THEN Resolved(r, byName[name[r]]) /\ UNCHANGED <<mu, asked>>
       ELSE mu' = r /\ asked' = [asked EXCEPT ![r] = now] /\ Goto(r, "list")
    /\ UNCHANGED <<ttl, registry, lastSeen, now, byName, expireAt, name, list>>

\* resolveToolID calls ListTools, with no lock and no cache.
List(r) ==
    /\ pc[r] = "start" /\ ttl <= 0
    /\ asked' = [asked EXCEPT ![r] = now] /\ Goto(r, "list")
    /\ UNCHANGED <<ttl, registry, lastSeen, now, byName, expireAt, mu, name,
                   list>>

\* The registrar answers ListTools.
ListReply(r) ==
    /\ pc[r] = "list"
    /\ \E s \in Listings(registry) : list' = [list EXCEPT ![r] = s]
    /\ Goto(r, "listed")
    /\ UNCHANGED <<ttl, registry, lastSeen, now, byName, expireAt, mu, name,
                   asked>>

\* Mutant: the expiry of the old map is kept, moved on by one ttl.
RefreshProlonged(r) ==
    /\ pc[r] = "listed" /\ mu = r
    /\ \E m \in [Names -> Names \cup {NotFound}] :
         /\ IsToolNameMap(m, list[r])
         /\ byName' = m /\ Resolved(r, m[name[r]])
    /\ expireAt' = now + ttl + ttl
    /\ mu' = NoRequest
    /\ Forget(r)
    /\ UNCHANGED <<ttl, registry, lastSeen, now, name>>

\* The end of refreshAndResolve: the new map, its expiry, and the unlock.
Refresh(r) ==
    /\ pc[r] = "listed" /\ mu = r
    /\ \E m \in [Names -> Names \cup {NotFound}] :
         /\ IsToolNameMap(m, list[r])
         /\ byName' = m /\ Resolved(r, m[name[r]])
    /\ expireAt' = now + ttl
    /\ mu' = NoRequest
    /\ Forget(r)
    /\ UNCHANGED <<ttl, registry, lastSeen, now, name>>

\* The end of resolveToolID.
ResolveToolID(r) ==
    /\ pc[r] = "listed" /\ mu # r
    /\ \E id \in Names \cup {NotFound} :
         ResolvesTo(list[r], name[r], id) /\ Resolved(r, id)
    /\ Forget(r)
    /\ UNCHANGED <<ttl, registry, lastSeen, now, byName, expireAt, mu, name>>

\* Mutant: the error return leaves the write lock held.
ListFailsLocked(r) ==
    /\ pc[r] \in {"list", "listed"}
    /\ Goto(r, "failed") /\ Forget(r)
    /\ UNCHANGED <<ttl, registry, lastSeen, now, byName, expireAt, mu, name>>

\* ListTools returns an error: its Ask timed out, the request was cancelled
\* or the gateway does not run.  The map and its expiry stay, and the write
\* lock is released; the request ends with NotFound and the error's text.
ListFails(r) ==
    /\ pc[r] \in {"list", "listed"}
    /\ mu' = IF mu = r THEN NoRequest ELSE mu
    /\ Goto(r, "failed") /\ Forget(r)
    /\ UNCHANGED <<ttl, registry, lastSeen, now, byName, expireAt, name>>

\* A new request takes the place of one that is over.
Begin(r) ==
    /\ pc[r] \in {"resolved", "failed"}
    /\ \E n \in Names : name' = [name EXCEPT ![r] = n]
    /\ pc' = [pc EXCEPT ![r] = "start"]
    /\ found' = [found EXCEPT ![r] = NotFound] /\ at' = [at EXCEPT ![r] = 0]
    /\ UNCHANGED <<ttl, registry, lastSeen, now, byName, expireAt, mu, list,
                   asked>>

\* Tools are registered, updated and removed.
RegistryChanges ==
    /\ \E tools \in Registries \ {registry} :
         registry' = tools /\ lastSeen' = [lastSeen EXCEPT ![tools] = now]
    /\ UNCHANGED <<ttl, now, byName, expireAt, mu, pc, name, list, asked,
                   found, at>>

\* Time passes; no ListTools is out for longer than its Ask.
Tick ==
    /\ now < MaxTime
    /\ \A r \in Requests :
         pc[r] \in {"list", "listed"} => now < asked[r] + ListTimeout
    /\ now' = now + 1
    /\ lastSeen' = [lastSeen EXCEPT ![registry] = now + 1]
    /\ UNCHANGED <<ttl, registry, byName, expireAt, mu, pc, name, list, asked,
                   found, at>>

\* The steps of the server for a request.
Serve(r) ==
    \/ Resolve(r) \/ Lock(r) \/ List(r) \/ ListReply(r) \/ Refresh(r)
    \/ ResolveToolID(r) \/ ListFails(r)

Next ==
    \/ \E r \in Requests : Serve(r) \/ Begin(r)
    \/ RegistryChanges \/ Tick

\* Goroutines run and the Ask returns.  The mutex of the cache lets no
\* goroutine starve, so each gets the lock if it is free again and again.
Fairness ==
    \A r \in Requests :
        WF_vars(Serve(r)) /\ SF_vars(Resolve(r)) /\ SF_vars(Lock(r))

Spec == Init /\ [][Next]_vars /\ Fairness

----------------------------------------------------------------------------
(* Properties.                                                             *)

\* The values of toolNameCache and of the requests.
TypeOK ==
    /\ ttl \in Int /\ registry \in Registries /\ now \in Nat
    /\ lastSeen \in [Registries -> Int]
    /\ byName \in [Names -> Names \cup {NotFound}] /\ expireAt \in Nat
    /\ mu \in Requests \cup {NoRequest}
    /\ pc \in [Requests -> {"start", "refresh", "list", "listed", "resolved",
                            "failed"}]
    /\ name \in [Requests -> Names]
    /\ DOMAIN list = Requests /\ asked \in [Requests -> Nat]
    /\ found \in [Requests -> Names \cup {NotFound}] /\ at \in [Requests -> Nat]

Owners(tools, n) == {t.id : t \in {u \in tools : Exports(u, n)}}

\* Name n was a name of this tool, or of none, in these tools.
TrueIn(tools, n, id) ==
    IF id = NotFound THEN Owners(tools, n) = {} ELSE id \in Owners(tools, n)

\* resolve and refreshAndResolve: what a name is resolved to, a tool or none,
\* was so in a catalog the registrar had within one TTL and one ListTools of
\* the answer; without the cache, within one ListTools.
StaleBounded ==
    \A r \in Requests :
        pc[r] = "resolved" =>
            \E tools \in Registries :
                /\ at[r] - lastSeen[tools] <= StalenessBound
                /\ TrueIn(tools, name[r], found[r])

\* refreshAndResolve: however many requests find the map expired, one of them
\* replaces it, and the next replacement waits for the next expiry.
OneRefreshPerExpiry ==
    [][<<byName, expireAt>>' # <<byName, expireAt>> => now >= expireAt]_vars

\* Every request is answered: the write lock is given back on every path, the
\* error returns included (refreshAndResolve's deferred unlock).
RequestsAnswered ==
    \A r \in Requests :
        pc[r] = "start" ~> pc[r] \in {"resolved", "failed"}
====
