---- MODULE CredentialBroker ----
(***************************************************************************)
(* The credential broker's cache (internal/runtime/actor/                  *)
(* credential_broker.go).  The broker is an actor and handles one request  *)
(* at a time; a request that needs the providers waits for them, while     *)
(* time passes and secrets are replaced.  Requests come in any order, and  *)
(* one whose router has given up is handled like any other.  A key is a    *)
(* tenant and a tool.                                                      *)
(*                                                                         *)
(* A cache maps the keys it holds to entries.  An entry's age is the time  *)
(* since it was written, so expiresAt is reached when age = CacheTTL.      *)
(* lastAccess is kept as an order: newer is the set of keys accessed since *)
(* the entry was.  old tells how long ago the provider replaced the        *)
(* secret, and is Current while it has not: no code reads it.              *)
(***************************************************************************)
EXTENDS Integers, FiniteSets

CONSTANTS
    Keys,        \* the keys that are asked for
    NoKey,
    CacheTTL,    \* CredentialsConfig.CacheTTL, 0 = no caching
    MaxEntries,  \* MaxCacheEntries after defaults
    MaxCall      \* how long a provider takes to return what it has read;
                 \* the code sets no bound

VARIABLES
    cache,   \* x.cache
    call,    \* the request that waits for the providers
    since,   \* history: the keys accessed since each key was
    served   \* history: the age of what each key was last resolved to

vars == <<cache, call, since, served>>

ASSUME BrokerAssumption ==
    /\ IsFiniteSet(Keys) /\ NoKey \notin Keys
    /\ CacheTTL \in Nat
    /\ MaxEntries \in Nat \ {0}
    /\ MaxCall \in Nat

Current == -1
Unread == -2

\* Ages count up to the first value at which nothing is told apart any more.
Ages == 0..(CacheTTL + 1)
OldAges == 0..(CacheTTL + MaxCall + 1)
Entries == [age : Ages, old : OldAges \cup {Current}, newer : SUBSET Keys]

\* A provider call: the key, how old the secret is that a provider has read
\* for it, and how long ago it did.
Calls == [key : Keys \cup {NoKey}, secret : OldAges \cup {Current, Unread},
          took : 0..MaxCall]
NoCall == [key |-> NoKey, secret |-> Unread, took |-> 0]

EmptyCache == [k \in {} |-> {}]

CachingEnabled == CacheTTL > 0

\* A cache hit: the entry is there and now is before expiresAt.
Hit(c, k) == CachingEnabled /\ k \in DOMAIN c /\ c[k].age < CacheTTL

\* The cache once the keys in D are deleted.
Without(c, D) ==
    [k \in DOMAIN c \ D |-> [c[k] EXCEPT !.newer = @ \ D]]

\* Mutant: a hit prolongs the entry's life.
TouchProlongs(c, k) ==
    [j \in DOMAIN c |->
        IF j = k THEN [c[j] EXCEPT !.newer = {}, !.age = 0]
        ELSE [c[j] EXCEPT !.newer = @ \cup {k}]]

\* A hit sets lastAccess and nothing else.
Touch(c, k) ==
    [j \in DOMAIN c |->
        IF j = k THEN [c[j] EXCEPT !.newer = {}]
        ELSE [c[j] EXCEPT !.newer = @ \cup {k}]]

Full(c) == Cardinality(DOMAIN c) >= MaxEntries

\* now is after expiresAt.  An entry that expires at this very moment is
\* neither served nor counted as expired here.
Expired(c) == {k \in DOMAIN c : c[k].age > CacheTTL}

LeastRecentlyUsed(c) ==
    {k \in DOMAIN c : \A j \in DOMAIN c : k \notin c[j].newer}

\* Mutant: eviction stops at the expired entries.
EvictExpiredOnly(c) ==
    IF Full(c) THEN Without(c, Expired(c)) ELSE c

\* Mutant: the most recently used entry goes.
EvictMostRecent(c) ==
    IF ~Full(c) THEN c
    ELSE LET kept == Without(c, Expired(c))
         IN  IF Full(kept)
             THEN Without(kept, {k \in DOMAIN kept : kept[k].newer = {}})
             ELSE kept

\* evictIfNeeded: the expired entries first, then the least recently used.
EvictIfNeeded(c) ==
    IF ~Full(c) THEN c
    ELSE LET kept == Without(c, Expired(c))
         IN  IF Full(kept) THEN Without(kept, LeastRecentlyUsed(kept))
             ELSE kept

\* The resolved secret is written over whatever the key held; its time starts
\* now, whenever the provider read it.
Store(c, k, secret) ==
    LET room == Without(EvictIfNeeded(c), {k})
    IN  IF ~CachingEnabled THEN c
        ELSE [j \in DOMAIN room \cup {k} |->
                IF j = k THEN [age |-> 0, old |-> secret, newer |-> {}]
                ELSE [room[j] EXCEPT !.newer = @ \cup {k}]]

Older(n, last) == IF n <= last THEN n + 1 ELSE n
OlderSecret(n) ==
    IF n \in {Current, Unread} THEN n ELSE Older(n, CacheTTL + MaxCall)

\* Time passes.
Age(c) ==
    [k \in DOMAIN c |->
        [c[k] EXCEPT !.age = Older(@, CacheTTL), !.old = OlderSecret(@)]]

\* The provider replaces the secret of k.
Rotate(c, k) ==
    [j \in DOMAIN c |->
        IF j = k /\ c[j].old = Current
        THEN [c[j] EXCEPT !.old = 0] ELSE c[j]]

----------------------------------------------------------------------------
(* The broker.                                                             *)

NoCachedSecret ==
    /\ since = [k \in Keys |-> {}]
    /\ served = [k \in Keys |-> CacheTTL + 1]

\* PreStart
Init == cache = EmptyCache /\ call = NoCall /\ NoCachedSecret

Accessed(k) ==
    since' = [j \in Keys |-> IF j = k THEN {} ELSE since[j] \cup {k}]

\* handleResolve, served from the cache.
ServeCached(k) ==
    /\ call = NoCall
    /\ Hit(cache, k)
    /\ cache' = Touch(cache, k)
    /\ Accessed(k)
    /\ UNCHANGED <<call, served>>

\* handleResolve on a miss: the first provider is called.
AskProviders(k) ==
    /\ call = NoCall
    /\ ~Hit(cache, k)
    /\ call' = [NoCall EXCEPT !.key = k]
    /\ UNCHANGED <<cache, since, served>>

\* A provider reads the secret; after one that fails the next one does.
ProviderReads ==
    /\ call.key # NoKey
    /\ call' = [key |-> call.key, secret |-> Current, took |-> 0]
    /\ UNCHANGED <<cache, since, served>>

\* The rest of handleResolve, when a provider has returned a secret.
ResolveAndStore ==
    /\ call.key # NoKey /\ call.secret # Unread
    /\ cache' = Store(cache, call.key, call.secret)
    /\ Accessed(call.key)
    /\ served' = [served EXCEPT ![call.key] = 0]
    /\ call' = NoCall

\* Mutant: what no provider has resolved is cached too.
ResolveFailsCached ==
    /\ call.key # NoKey
    /\ cache' = Store(cache, call.key, call.secret)
    /\ call' = NoCall
    /\ UNCHANGED <<since, served>>

\* The rest of handleResolve when every provider fails or has nothing: an
\* expired entry stays in the cache.
ResolveFails ==
    /\ call.key # NoKey
    /\ call' = NoCall
    /\ UNCHANGED <<cache, since, served>>

\* PostStop, after the last message, and the PreStart of a restart.
PostStop ==
    /\ call = NoCall
    /\ cache' = EmptyCache
    /\ since' = [k \in Keys |-> {}]
    /\ served' = [k \in Keys |-> CacheTTL + 1]
    /\ UNCHANGED call

\* The provider's secret is replaced.
RotateSecret(k) ==
    /\ k \in DOMAIN cache \/ k = call.key
    /\ cache' = Rotate(cache, k)
    /\ call' = IF k = call.key /\ call.secret = Current
               THEN [call EXCEPT !.secret = 0] ELSE call
    /\ UNCHANGED <<since, served>>

Tick ==
    /\ call.secret # Unread => call.took < MaxCall
    /\ cache' = Age(cache)
    /\ call' = IF call.secret = Unread THEN call
               ELSE [call EXCEPT !.secret = OlderSecret(@), !.took = @ + 1]
    /\ served' = [k \in Keys |-> Older(served[k], CacheTTL)]
    /\ UNCHANGED since

Next ==
    \/ \E k \in Keys : ServeCached(k) \/ AskProviders(k) \/ RotateSecret(k)
    \/ ProviderReads
    \/ ResolveAndStore
    \/ ResolveFails
    \/ PostStop
    \/ Tick

Spec == Init /\ [][Next]_vars

----------------------------------------------------------------------------
(* Properties.                                                             *)

\* Every variable keeps its type: what is cached was resolved, and the access
\* order speaks only of other entries of the cache.
TypeOK ==
    /\ DOMAIN cache \subseteq Keys
    /\ \A k \in DOMAIN cache :
           /\ cache[k] \in Entries
           /\ cache[k].newer \subseteq DOMAIN cache \ {k}
    /\ call \in Calls
    /\ since \in [Keys -> SUBSET Keys]
    /\ served \in [Keys -> Ages]

\* evictIfNeeded runs before the entry is written and makes room for one, so
\* the cache never holds more than MaxEntries, expired entries included.
CacheBounded == Cardinality(DOMAIN cache) <= MaxEntries

\* handleResolve sets expiresAt when the provider has returned, not when the
\* provider read the secret: one the broker would still serve was replaced
\* less than CacheTTL and the rest of that call ago, and no hit prolongs it.
ReplacedSecretsExpire ==
    \A k \in DOMAIN cache : Hit(cache, k) => cache[k].old < CacheTTL + MaxCall

\* evictIfNeeded takes the least recently used entry: what was resolved
\* less than CacheTTL ago is served without asking a provider while fewer
\* than MaxEntries - 1 other keys were accessed since.  (Not MaxEntries: a
\* key written again at the very moment it expires still counts as another
\* entry.)
RecentlyUsedKept ==
    CachingEnabled =>
        \A k \in Keys :
            served[k] < CacheTTL /\ Cardinality(since[k]) < MaxEntries - 1
                => Hit(cache, k)
====
