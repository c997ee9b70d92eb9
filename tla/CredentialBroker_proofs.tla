---- MODULE CredentialBroker_proofs ----
(***************************************************************************)
(* Proofs about the credential broker's cache.                             *)
(***************************************************************************)
EXTENDS CredentialBroker, FiniteSetTheorems, WellFoundedInduction, TLAPS

\* A cache as the type invariant describes it.
IsCache(c) ==
    /\ DOMAIN c \subseteq Keys
    /\ \A k \in DOMAIN c :
           /\ c[k] \in Entries
           /\ c[k].newer \subseteq DOMAIN c \ {k}

\* No entry was replaced before a provider read it.
OldWithinAge(c) == \A k \in DOMAIN c : c[k].old <= c[k].age + MaxCall

\* Deleting entries leaves a cache, whose entries keep age and secret.
LEMMA WithoutIsCache ==
    ASSUME NEW c, IsCache(c), NEW D
    PROVE  /\ DOMAIN Without(c, D) = DOMAIN c \ D
           /\ IsCache(Without(c, D))
           /\ \A k \in DOMAIN Without(c, D) :
                 /\ Without(c, D)[k].age = c[k].age
                 /\ Without(c, D)[k].old = c[k].old
  BY BrokerAssumption DEF IsCache, Without, Entries, Ages, OldAges, Current

\* Evicting leaves a cache, whose entries keep age and secret.
LEMMA EvictIsCache ==
    ASSUME NEW c, IsCache(c)
    PROVE  /\ IsCache(EvictIfNeeded(c))
           /\ DOMAIN EvictIfNeeded(c) \subseteq DOMAIN c
           /\ \A k \in DOMAIN EvictIfNeeded(c) :
                 /\ EvictIfNeeded(c)[k].age = c[k].age
                 /\ EvictIfNeeded(c)[k].old = c[k].old
  <1> DEFINE kept == Without(c, Expired(c))
  <1>1. /\ DOMAIN kept = DOMAIN c \ Expired(c)
        /\ IsCache(kept)
        /\ \A k \in DOMAIN kept : kept[k].age = c[k].age /\ kept[k].old = c[k].old
    BY WithoutIsCache
  <1> DEFINE rest == Without(kept, LeastRecentlyUsed(kept))
  <1>2. /\ DOMAIN rest = DOMAIN kept \ LeastRecentlyUsed(kept)
        /\ IsCache(rest)
        /\ \A k \in DOMAIN rest :
              rest[k].age = kept[k].age /\ rest[k].old = kept[k].old
    <2> HIDE DEF kept
    <2> QED
      BY <1>1, WithoutIsCache
  <1>3. EvictIfNeeded(c) \in {c, kept, rest}
    BY DEF EvictIfNeeded
  <1> QED
    BY <1>1, <1>2, <1>3

\* Writing an entry leaves a cache in which no secret is older than its entry
\* by more than a provider call.
LEMMA StoreIsCache ==
    ASSUME NEW c, IsCache(c), OldWithinAge(c), NEW k \in Keys,
           NEW secret \in OldAges \cup {Current}, secret <= MaxCall
    PROVE  IsCache(Store(c, k, secret)) /\ OldWithinAge(Store(c, k, secret))
  <1> DEFINE room == Without(EvictIfNeeded(c), {k})
  <1>1. /\ IsCache(EvictIfNeeded(c))
        /\ OldWithinAge(EvictIfNeeded(c))
    BY EvictIsCache DEF OldWithinAge
  <1>2. /\ IsCache(room)
        /\ DOMAIN room = DOMAIN EvictIfNeeded(c) \ {k}
        /\ OldWithinAge(room)
    <2> DEFINE kept == EvictIfNeeded(c)
    <2>1. IsCache(kept) /\ OldWithinAge(kept)
      BY <1>1
    <2> HIDE DEF kept
    <2>2. /\ DOMAIN Without(kept, {k}) = DOMAIN kept \ {k}
          /\ IsCache(Without(kept, {k}))
          /\ \A j \in DOMAIN Without(kept, {k}) :
                /\ Without(kept, {k})[j].age = kept[j].age
                /\ Without(kept, {k})[j].old = kept[j].old
      BY <2>1, WithoutIsCache
    <2>3. OldWithinAge(Without(kept, {k}))
      BY <2>1, <2>2 DEF OldWithinAge
    <2> QED
      BY <2>2, <2>3 DEF kept
  <1> DEFINE new == [j \in DOMAIN room \cup {k} |->
                IF j = k THEN [age |-> 0, old |-> secret, newer |-> {}]
                ELSE [room[j] EXCEPT !.newer = @ \cup {k}]]
  <1>3. Store(c, k, secret) = IF ~CachingEnabled THEN c ELSE new
    BY DEF Store
  <1> HIDE DEF room
  <1>4. \A j \in DOMAIN room : j # k /\ j \in Keys
    BY <1>2 DEF IsCache
  <1>5. IsCache(new)
    BY <1>2, <1>4, BrokerAssumption DEF IsCache, Entries, Ages, OldAges, Current
  <1>6. OldWithinAge(new)
    BY <1>2, <1>4, BrokerAssumption
       DEF IsCache, OldWithinAge, Entries, Ages, OldAges, Current
  <1> QED
    BY <1>3, <1>5, <1>6

\* Time leaves a cache, and a secret no older against its entry.
LEMMA AgeIsCache ==
    ASSUME NEW c, IsCache(c), OldWithinAge(c)
    PROVE  IsCache(Age(c)) /\ OldWithinAge(Age(c))
  <1>1. DOMAIN Age(c) = DOMAIN c
    BY DEF Age
  <1>2. ASSUME NEW k \in DOMAIN c
        PROVE  /\ Age(c)[k] \in Entries
               /\ Age(c)[k].newer = c[k].newer
               /\ Age(c)[k].old <= Age(c)[k].age + MaxCall
    <2> DEFINE e == c[k]
               a == Older(e.age, CacheTTL)
               o == OlderSecret(e.old)
    <2>1. /\ e \in Entries
          /\ e.age \in Ages
          /\ e.old \in OldAges \cup {Current}
          /\ e.old <= e.age + MaxCall
      BY DEF IsCache, OldWithinAge, Entries
    <2>2. Age(c)[k] = [e EXCEPT !.age = a, !.old = o]
      BY DEF Age
    <2>3. a \in Ages /\ o \in OldAges \cup {Current} /\ o <= a + MaxCall
      BY <2>1, BrokerAssumption
         DEF Older, OlderSecret, Ages, OldAges, Current, Unread
    <2> HIDE DEF e, a, o
    <2>4. /\ [e EXCEPT !.age = a, !.old = o] \in Entries
          /\ [e EXCEPT !.age = a, !.old = o].newer = e.newer
          /\ [e EXCEPT !.age = a, !.old = o].age = a
          /\ [e EXCEPT !.age = a, !.old = o].old = o
      BY <2>1, <2>3 DEF Entries
    <2> QED
      BY <2>2, <2>3, <2>4 DEF e
  <1> QED
    BY <1>1, <1>2 DEF IsCache, OldWithinAge

----------------------------------------------------------------------------
(* Types and expiry.                                                       *)

\* What a provider has read was current then.
ReadWithinCall == call.secret <= call.took

IInv == TypeOK /\ OldWithinAge(cache) /\ ReadWithinCall

\* What a call holds stays a call, and no older than the call.
LEMMA CallNext ==
    ASSUME TypeOK, ReadWithinCall, [Next]_vars
    PROVE  call' \in Calls /\ ReadWithinCall'
  <1>1. /\ call \in Calls /\ call.key \in Keys \cup {NoKey}
        /\ call.secret \in OldAges \cup {Current, Unread}
        /\ call.took \in 0..MaxCall /\ call.secret <= call.took
    BY DEF TypeOK, Calls, ReadWithinCall
  <1>2. NoCall \in Calls /\ NoCall.secret <= NoCall.took
    BY BrokerAssumption DEF NoCall, Calls, Unread
  <1>3. ASSUME NEW k \in Keys, AskProviders(k)
        PROVE  call' \in Calls /\ ReadWithinCall'
    BY <1>3, BrokerAssumption
       DEF AskProviders, NoCall, Calls, ReadWithinCall, Unread
  <1>4. ASSUME NEW k \in Keys, RotateSecret(k)
        PROVE  call' \in Calls /\ ReadWithinCall'
    <2>1. CASE call' = call
      BY <1>1, <2>1 DEF ReadWithinCall
    <2>2. CASE call' = [call EXCEPT !.secret = 0]
      BY <1>1, <2>2, BrokerAssumption DEF Calls, ReadWithinCall, OldAges
    <2> QED
      BY <1>4, <2>1, <2>2 DEF RotateSecret
  <1>5. CASE ProviderReads
    BY <1>1, <1>5, BrokerAssumption
       DEF ProviderReads, Calls, ReadWithinCall, Current
  <1>6. CASE Tick
    <2>1. CASE call.secret = Unread
      BY <1>1, <1>6, <2>1 DEF Tick, ReadWithinCall
    <2>2. CASE call.secret # Unread
      <3> DEFINE o == OlderSecret(call.secret)
      <3>1. /\ call.took < MaxCall
            /\ call' = [call EXCEPT !.secret = o, !.took = call.took + 1]
        BY <1>6, <2>2 DEF Tick
      <3>2. /\ o \in OldAges \cup {Current}
            /\ o <= call.took + 1 /\ call.took + 1 \in 0..MaxCall
        BY <1>1, <2>2, <3>1, BrokerAssumption
           DEF Older, OlderSecret, OldAges, Current, Unread
      <3> HIDE DEF o
      <3> QED
        BY <1>1, <3>1, <3>2 DEF Calls, ReadWithinCall
    <2> QED
      BY <2>1, <2>2
  <1>7. CASE ResolveAndStore \/ ResolveFails
    BY <1>2, <1>7 DEF ResolveAndStore, ResolveFails, ReadWithinCall
  <1>8. ASSUME \/ \E k \in Keys : ServeCached(k)
               \/ PostStop
               \/ UNCHANGED vars
        PROVE  call' \in Calls /\ ReadWithinCall'
    BY <1>1, <1>8 DEF ServeCached, PostStop, vars, ReadWithinCall
  <1> QED
    BY <1>3, <1>4, <1>5, <1>6, <1>7, <1>8 DEF Next

\* What a finished call writes.
LEMMA CallResult ==
    ASSUME TypeOK, ReadWithinCall, ResolveAndStore
    PROVE  /\ call.key \in Keys
           /\ call.secret \in OldAges \cup {Current} /\ call.secret <= MaxCall
  BY BrokerAssumption
     DEF TypeOK, Calls, ReadWithinCall, ResolveAndStore, OldAges, Current, Unread

\* The invariant holds initially and every step preserves it.
LEMMA Inductive == Spec => []IInv
  <1>1. Init => IInv
    BY BrokerAssumption
       DEF Init, NoCachedSecret, IInv, TypeOK, OldWithinAge, EmptyCache, Ages,
           ReadWithinCall, NoCall, Calls, Unread
  <1>2. IInv /\ [Next]_vars => IInv'
    <2> SUFFICES ASSUME IInv, [Next]_vars PROVE IInv'
      OBVIOUS
    <2>0. IsCache(cache) /\ OldWithinAge(cache) /\ TypeOK /\ ReadWithinCall
      BY DEF IInv, TypeOK, IsCache
    <2> DEFINE Kept == /\ IsCache(cache)' /\ OldWithinAge(cache)'
                       /\ since' \in [Keys -> SUBSET Keys]
                       /\ served' \in [Keys -> Ages]
    <2>s. SUFFICES Kept
      <3>1. call' \in Calls /\ ReadWithinCall'
        BY <2>0, CallNext
      <3> QED
        BY <3>1 DEF IInv, TypeOK, IsCache
    <2>t. /\ since \in [Keys -> SUBSET Keys]
          /\ served \in [Keys -> Ages]
      BY DEF IInv, TypeOK
    <2>1. ASSUME NEW k \in Keys, ServeCached(k)
          PROVE  Kept
      <3>1. IsCache(cache)'
        BY <2>0, <2>1, BrokerAssumption
           DEF ServeCached, Hit, Touch, IsCache, Entries, Ages, OldAges, Current
      <3>2. OldWithinAge(cache)'
        BY <2>0, <2>1, BrokerAssumption
           DEF ServeCached, Touch, IsCache, OldWithinAge, Entries, Ages,
               OldAges, Current
      <3> QED
        BY <2>1, <2>t, <3>1, <3>2 DEF ServeCached, Accessed
    <2>2. CASE ResolveAndStore
      <3>1. /\ call.key \in Keys
            /\ call.secret \in OldAges \cup {Current} /\ call.secret <= MaxCall
        BY <2>0, <2>2, CallResult
      <3>2. IsCache(cache)' /\ OldWithinAge(cache)'
        BY <2>0, <2>2, <3>1, StoreIsCache DEF ResolveAndStore
      <3> QED
        BY <2>2, <2>t, <3>1, <3>2, BrokerAssumption
           DEF ResolveAndStore, Accessed, Ages
    <2>3. ASSUME NEW k \in Keys, RotateSecret(k)
          PROVE  Kept
      <3>1. IsCache(cache)'
        BY <2>0, <2>3, BrokerAssumption
           DEF RotateSecret, Rotate, IsCache, Entries, Ages, OldAges, Current
      <3>2. OldWithinAge(cache)'
        BY <2>0, <2>3, BrokerAssumption
           DEF RotateSecret, Rotate, IsCache, OldWithinAge, Entries, Ages,
               OldAges, Current
      <3> QED
        BY <2>3, <2>t, <3>1, <3>2 DEF RotateSecret
    <2>4. CASE PostStop
      BY <2>4, BrokerAssumption DEF PostStop, EmptyCache, IsCache, OldWithinAge, Ages
    <2>5. CASE Tick
      <3>1. IsCache(cache)' /\ OldWithinAge(cache)'
        BY <2>0, <2>5, AgeIsCache DEF Tick
      <3>3. served' \in [Keys -> Ages]
        BY <2>t, <2>5, BrokerAssumption DEF Tick, Older, Ages
      <3> QED
        BY <2>5, <2>t, <3>1, <3>3 DEF Tick
    <2>6. CASE UNCHANGED <<cache, since, served>>
      BY <2>0, <2>t, <2>6 DEF IsCache, OldWithinAge
    <2>7. ASSUME \/ \E k \in Keys : AskProviders(k)
                 \/ ProviderReads \/ ResolveFails \/ UNCHANGED vars
          PROVE  UNCHANGED <<cache, since, served>>
      BY <2>7 DEF AskProviders, ProviderReads, ResolveFails, vars
    <2> HIDE DEF Kept
    <2> QED
      BY <2>1, <2>2, <2>3, <2>4, <2>5, <2>6, <2>7 DEF Next
  <1> QED
    BY <1>1, <1>2, PTL DEF Spec

\* The cache and its access order keep their type, for any set of keys and
\* any lifetime.
THEOREM TypeCorrect == Spec => []TypeOK
  <1>1. IInv => TypeOK
    BY DEF IInv
  <1> QED
    BY <1>1, Inductive, PTL

\* What handleResolve serves from the cache was replaced less than CacheTTL and
\* the rest of the provider call that brought it ago, for any lifetime, any
\* bound on the call and any number of hits.
THEOREM Expiry == Spec => []ReplacedSecretsExpire
  <1>1. IInv => ReplacedSecretsExpire
    BY BrokerAssumption
       DEF IInv, TypeOK, OldWithinAge, ReplacedSecretsExpire, Hit, Entries, Ages,
           OldAges, Current
  <1> QED
    BY <1>1, Inductive, PTL

----------------------------------------------------------------------------
(* The bound on the cache.  Eviction makes room because a cache that is    *)
(* not empty has a least recently used entry, and it has one because the   *)
(* access order is transitive.                                             *)

OrderTransitive(c) ==
    \A k \in DOMAIN c : \A j \in c[k].newer : c[j].newer \subseteq c[k].newer

\* Among the entries of a cache one is the least recently used: the one with
\* the most newer entries.
LEMMA LeastRecentlyUsedExists ==
    ASSUME NEW c, IsCache(c), OrderTransitive(c), DOMAIN c # {}
    PROVE  LeastRecentlyUsed(c) # {}
  <1> DEFINE N(k) == Cardinality(Keys) - Cardinality(c[k].newer)
             T == {N(k) : k \in DOMAIN c}
             R == OpToRel(<, Nat)
  <1>1. \A k \in DOMAIN c : c[k].newer \subseteq Keys
    BY DEF IsCache
  <1>2. Cardinality(Keys) \in Nat
    BY BrokerAssumption, FS_CardinalityType
  <1>3. ASSUME NEW k \in DOMAIN c
        PROVE  /\ IsFiniteSet(c[k].newer)
               /\ Cardinality(c[k].newer) \in Nat
               /\ N(k) \in Nat
    <2>1. IsFiniteSet(c[k].newer) /\ Cardinality(c[k].newer) <= Cardinality(Keys)
      BY <1>1, BrokerAssumption, FS_Subset
    <2>2. Cardinality(c[k].newer) \in Nat
      BY <2>1, FS_CardinalityType
    <2> QED
      BY <1>2, <2>1, <2>2
  <1>4. T \subseteq Nat /\ T # {}
    BY <1>3
  <1>5. IsWellFoundedOn(R, Nat)
    BY NatLessThanWellFounded
  <1>6. PICK n \in T : \A m \in T : ~(<<m, n>> \in R)
    <2> HIDE DEF R, T
    <2> QED
      BY <1>4, <1>5, WFMin
  <1>7. \A m \in T : ~(m < n)
    BY <1>4, <1>6 DEF OpToRel
  <1>8. PICK k \in DOMAIN c : n = N(k)
    BY <1>6
  <1>9. ASSUME NEW j \in DOMAIN c, k \in c[j].newer
        PROVE  FALSE
    <2>1. c[k].newer \subseteq c[j].newer /\ k \notin c[k].newer
      BY <1>9 DEF OrderTransitive, IsCache
    <2>2. /\ Cardinality(c[k].newer) <= Cardinality(c[j].newer)
          /\ Cardinality(c[k].newer) # Cardinality(c[j].newer)
      BY <2>1, <1>3, <1>9, FS_Subset
    <2>3. N(j) < N(k)
      BY <2>2, <1>2, <1>3
    <2> QED
      BY <2>3, <1>7, <1>8
  <1> QED
    BY <1>9 DEF LeastRecentlyUsed

\* Deleting entries keeps the order.
LEMMA WithoutKeepsTransitive ==
    ASSUME NEW c, IsCache(c), OrderTransitive(c), NEW D
    PROVE  OrderTransitive(Without(c, D))
  <1>1. \A k \in DOMAIN c \ D : Without(c, D)[k].newer = c[k].newer \ D
    BY DEF Without, IsCache, Entries
  <1>2. DOMAIN Without(c, D) = DOMAIN c \ D
    BY DEF Without
  <1> QED
    BY <1>1, <1>2 DEF OrderTransitive, IsCache

\* Eviction keeps the order and leaves room for one entry.
LEMMA EvictMakesRoom ==
    ASSUME NEW c, IsCache(c), OrderTransitive(c),
           Cardinality(DOMAIN c) <= MaxEntries
    PROVE  /\ OrderTransitive(EvictIfNeeded(c))
           /\ Cardinality(DOMAIN EvictIfNeeded(c)) < MaxEntries
  <1> DEFINE kept == Without(c, Expired(c))
             rest == Without(kept, LeastRecentlyUsed(kept))
  <1>1. /\ DOMAIN kept = DOMAIN c \ Expired(c)
        /\ IsCache(kept)
        /\ OrderTransitive(kept)
    BY WithoutIsCache, WithoutKeepsTransitive
  <1>2. /\ IsFiniteSet(DOMAIN c)
        /\ Cardinality(DOMAIN c) \in Nat
    BY BrokerAssumption, FS_Subset, FS_CardinalityType DEF IsCache
  <1>3. /\ IsFiniteSet(DOMAIN kept)
        /\ Cardinality(DOMAIN kept) \in Nat
        /\ Cardinality(DOMAIN kept) <= Cardinality(DOMAIN c)
    BY <1>1, <1>2, FS_Subset, FS_CardinalityType
  <1>4. CASE ~Full(c)
    BY <1>2, <1>4, BrokerAssumption DEF Full, EvictIfNeeded
  <1>5. CASE Full(c) /\ ~Full(kept)
    <2>1. EvictIfNeeded(c) = kept
      BY <1>5 DEF EvictIfNeeded
    <2> HIDE DEF kept
    <2> QED
      BY <1>1, <1>3, <1>5, <2>1, BrokerAssumption DEF Full
  <1>6. CASE Full(c) /\ Full(kept)
    <2>1. EvictIfNeeded(c) = rest
      BY <1>6 DEF EvictIfNeeded
    <2> HIDE DEF kept
    <2>2. DOMAIN kept # {}
      BY <1>3, <1>6, BrokerAssumption, FS_EmptySet DEF Full
    <2>3. LeastRecentlyUsed(kept) # {}
      BY <1>1, <2>2, LeastRecentlyUsedExists
    <2>4. DOMAIN rest \subseteq DOMAIN kept /\ DOMAIN rest # DOMAIN kept
      BY <2>3 DEF Without, LeastRecentlyUsed
    <2> DEFINE S == DOMAIN kept
               Q == DOMAIN rest
    <2>5. /\ Cardinality(Q) \in Nat
          /\ Cardinality(Q) <= Cardinality(S)
          /\ Cardinality(Q) # Cardinality(S)
      <3>1. IsFiniteSet(S) /\ Q \in SUBSET S /\ Q # S
        BY <2>4, <1>3
      <3> HIDE DEF S, Q
      <3> QED
        BY <3>1, FS_Subset, FS_CardinalityType
    <2>6. Cardinality(DOMAIN rest) < MaxEntries
      BY <2>5, <1>2, <1>3, BrokerAssumption
    <2>7. OrderTransitive(rest)
      BY <1>1, WithoutKeepsTransitive
    <2> QED
      BY <2>1, <2>6, <2>7
  <1> QED
    BY <1>4, <1>5, <1>6

\* Writing an entry keeps the order and the bound.
LEMMA StoreBounded ==
    ASSUME NEW c, IsCache(c), OrderTransitive(c),
           Cardinality(DOMAIN c) <= MaxEntries, NEW k \in Keys, NEW secret
    PROVE  /\ OrderTransitive(Store(c, k, secret))
           /\ Cardinality(DOMAIN Store(c, k, secret)) <= MaxEntries
  <1> DEFINE e == EvictIfNeeded(c)
  <1>1. /\ IsCache(e)
        /\ OrderTransitive(e)
        /\ Cardinality(DOMAIN e) < MaxEntries
        /\ DOMAIN e \subseteq DOMAIN c
    BY EvictIsCache, EvictMakesRoom
  <1> HIDE DEF e
  <1> DEFINE room == Without(e, {k})
             new == [j \in DOMAIN room \cup {k} |->
                IF j = k THEN [age |-> 0, old |-> secret, newer |-> {}]
                ELSE [room[j] EXCEPT !.newer = @ \cup {k}]]
  <1>2. Store(c, k, secret) = IF ~CachingEnabled THEN c ELSE new
    BY DEF Store, e
  <1>3. /\ DOMAIN room = DOMAIN e \ {k}
        /\ IsCache(room)
        /\ OrderTransitive(room)
    BY <1>1, WithoutIsCache, WithoutKeepsTransitive
  <1>4. Cardinality(DOMAIN room \cup {k}) <= MaxEntries
    <2> DEFINE S == DOMAIN e
    <2>1. IsFiniteSet(S) /\ Cardinality(S) \in Nat /\ Cardinality(S) < MaxEntries
      BY <1>1, BrokerAssumption, FS_Subset, FS_CardinalityType DEF IsCache
    <2> HIDE DEF S
    <2> DEFINE Q == S \ {k}
    <2>2. IsFiniteSet(Q) /\ Cardinality(Q) <= Cardinality(S) /\ k \notin Q
      <3>1. Q \in SUBSET S /\ k \notin Q
        OBVIOUS
      <3> HIDE DEF Q
      <3> QED
        BY <2>1, <3>1, FS_Subset
    <2>3. DOMAIN room = Q
      BY <1>3 DEF S
    <2> HIDE DEF Q, room
    <2>4. Cardinality(Q) \in Nat
      BY <2>2, FS_CardinalityType
    <2>5. Cardinality(Q \cup {k}) = Cardinality(Q) + 1
      BY <2>2, FS_AddElement
    <2>6. Cardinality(Q \cup {k}) <= MaxEntries
      BY <2>1, <2>2, <2>4, <2>5, BrokerAssumption
    <2> QED
      BY <2>3, <2>6
  <1> HIDE DEF room
  <1>5. \A j \in DOMAIN room : /\ j # k
                               /\ room[j].newer \subseteq DOMAIN room
                               /\ new[j].newer = room[j].newer \cup {k}
    BY <1>3 DEF IsCache, Entries
  <1>6. OrderTransitive(new)
    BY <1>3, <1>5 DEF OrderTransitive
  <1>7. DOMAIN new = DOMAIN room \cup {k}
    OBVIOUS
  <1> HIDE DEF new
  <1> QED
    BY <1>2, <1>4, <1>6, <1>7

\* evictIfNeeded keeps the cache within MaxEntries, for any number of keys
\* and any positive limit.
THEOREM Bounded == Spec => []CacheBounded
  <1>1. Init => OrderTransitive(cache) /\ CacheBounded
    BY BrokerAssumption, FS_EmptySet
       DEF Init, EmptyCache, OrderTransitive, CacheBounded
  <1>2. /\ IInv /\ OrderTransitive(cache) /\ CacheBounded
        /\ [Next]_vars
        => (OrderTransitive(cache) /\ CacheBounded)'
    <2> SUFFICES ASSUME IInv, OrderTransitive(cache), CacheBounded, [Next]_vars
                 PROVE  OrderTransitive(cache)' /\ CacheBounded'
      OBVIOUS
    <2>0. IsCache(cache)
      BY DEF IInv, TypeOK, IsCache
    <2>1. ASSUME NEW k \in Keys, ServeCached(k)
          PROVE  OrderTransitive(cache)' /\ CacheBounded'
      <3>1. DOMAIN cache' = DOMAIN cache
        BY <2>1 DEF ServeCached, Touch
      <3>2. \A j \in DOMAIN cache :
                cache'[j].newer = IF j = k THEN {} ELSE cache[j].newer \cup {k}
        BY <2>0, <2>1 DEF ServeCached, Touch, IsCache, Entries
      <3>3. k \in DOMAIN cache
        BY <2>1 DEF ServeCached, Hit
      <3>4. ASSUME NEW x \in DOMAIN cache, NEW y \in cache'[x].newer
            PROVE  cache'[y].newer \subseteq cache'[x].newer
        <4>1. CASE x = k
          BY <3>2, <3>4, <4>1
        <4>2. CASE x # k /\ y = k
          BY <3>2, <3>3, <4>2
        <4>3. CASE x # k /\ y # k
          <5>1. y \in cache[x].newer /\ y \in DOMAIN cache
            BY <2>0, <3>2, <3>4, <4>3 DEF IsCache
          <5> QED
            BY <3>2, <4>3, <5>1 DEF OrderTransitive
        <4> QED
          BY <4>1, <4>2, <4>3
      <3> QED
        BY <3>1, <3>4 DEF OrderTransitive, CacheBounded
    <2>2. CASE ResolveAndStore
      <3>1. call.key \in Keys
        BY <2>2, CallResult DEF IInv
      <3> QED
        BY <2>0, <2>2, <3>1, StoreBounded DEF ResolveAndStore, CacheBounded
    <2>3. ASSUME NEW k \in Keys, RotateSecret(k)
          PROVE  OrderTransitive(cache)' /\ CacheBounded'
      <3>1. DOMAIN cache' = DOMAIN cache
        BY <2>3 DEF RotateSecret, Rotate
      <3>2. \A j \in DOMAIN cache : cache'[j].newer = cache[j].newer
        BY <2>0, <2>3 DEF RotateSecret, Rotate, IsCache, Entries
      <3> QED
        BY <2>0, <3>1, <3>2 DEF OrderTransitive, CacheBounded, IsCache
    <2>4. CASE PostStop
      BY <2>4, BrokerAssumption, FS_EmptySet
         DEF PostStop, EmptyCache, OrderTransitive, CacheBounded
    <2>5. CASE Tick
      <3>1. DOMAIN cache' = DOMAIN cache
        BY <2>5 DEF Tick, Age
      <3>2. \A j \in DOMAIN cache : cache'[j].newer = cache[j].newer
        BY <2>0, <2>5 DEF Tick, Age, IsCache, Entries
      <3> QED
        BY <2>0, <3>1, <3>2 DEF OrderTransitive, CacheBounded, IsCache
    <2>6. CASE UNCHANGED cache
      BY <2>6 DEF OrderTransitive, CacheBounded
    <2>7. ASSUME \/ \E k \in Keys : AskProviders(k)
                 \/ ProviderReads \/ ResolveFails \/ UNCHANGED vars
          PROVE  UNCHANGED cache
      BY <2>7 DEF AskProviders, ProviderReads, ResolveFails, vars
    <2> QED
      BY <2>1, <2>2, <2>3, <2>4, <2>5, <2>6, <2>7 DEF Next
  <1> QED
    BY <1>1, <1>2, Inductive, PTL DEF Spec

----------------------------------------------------------------------------
(* What eviction keeps.                                                    *)

\* Of two entries one was accessed after the other.
OrderTotal(c) ==
    \A j, k \in DOMAIN c : j = k \/ j \in c[k].newer \/ k \in c[j].newer

\* The access order and the ages agree with the history, and what was
\* resolved and used lately is in the cache.
KeptInv ==
    /\ IInv
    /\ OrderTotal(cache)
    /\ \A k \in DOMAIN cache : /\ cache[k].newer \subseteq since[k]
                               /\ cache[k].age = served[k]
    /\ \A k \in Keys :
           served[k] < CacheTTL /\ Cardinality(since[k]) < MaxEntries - 1
               => k \in DOMAIN cache

\* Deleting entries keeps the order of the others.
LEMMA WithoutOrder ==
    ASSUME NEW c, IsCache(c), OrderTotal(c), NEW D
    PROVE  /\ OrderTotal(Without(c, D))
           /\ \A k \in DOMAIN Without(c, D) :
                  Without(c, D)[k].newer \subseteq c[k].newer
  <1>1. DOMAIN Without(c, D) = DOMAIN c \ D
    BY DEF Without
  <1>2. \A k \in DOMAIN c \ D : Without(c, D)[k].newer = c[k].newer \ D
    BY DEF Without, IsCache, Entries
  <1>3. OrderTotal(Without(c, D))
    BY <1>1, <1>2 DEF OrderTotal
  <1> QED
    BY <1>1, <1>2, <1>3

\* Eviction keeps the order of the entries it leaves.
LEMMA EvictOrder ==
    ASSUME NEW c, IsCache(c), OrderTotal(c)
    PROVE  /\ OrderTotal(EvictIfNeeded(c))
           /\ \A k \in DOMAIN EvictIfNeeded(c) :
                  EvictIfNeeded(c)[k].newer \subseteq c[k].newer
  <1> DEFINE kept == Without(c, Expired(c))
             rest == Without(kept, LeastRecentlyUsed(kept))
  <1>1. /\ DOMAIN kept = DOMAIN c \ Expired(c)
        /\ IsCache(kept) /\ OrderTotal(kept)
        /\ \A k \in DOMAIN kept : kept[k].newer \subseteq c[k].newer
    <2>1. DOMAIN kept = DOMAIN c \ Expired(c) /\ IsCache(kept)
      BY WithoutIsCache
    <2>2. /\ OrderTotal(kept)
          /\ \A k \in DOMAIN kept : kept[k].newer \subseteq c[k].newer
      BY WithoutOrder
    <2> QED
      BY <2>1, <2>2
  <1>2. EvictIfNeeded(c) \in {c, kept, rest}
    BY DEF EvictIfNeeded
  <1> HIDE DEF kept
  <1>3. /\ DOMAIN rest \subseteq DOMAIN kept
        /\ OrderTotal(rest)
        /\ \A k \in DOMAIN rest : rest[k].newer \subseteq kept[k].newer
    <2>1. DOMAIN rest \subseteq DOMAIN kept
      BY DEF Without
    <2>2. /\ OrderTotal(rest)
          /\ \A k \in DOMAIN rest : rest[k].newer \subseteq kept[k].newer
      BY <1>1, WithoutOrder
    <2> QED
      BY <2>1, <2>2
  <1> HIDE DEF rest
  <1> QED
    BY <1>1, <1>2, <1>3

\* An entry that has not expired is evicted only when it is the least recently
\* used of a full cache, and then all the others are newer.
LEMMA EvictKeeps ==
    ASSUME NEW c, IsCache(c), OrderTotal(c), NEW k \in DOMAIN c,
           c[k].age <= CacheTTL, NEW S, IsFiniteSet(S), c[k].newer \subseteq S,
           Cardinality(S) < MaxEntries - 1
    PROVE  k \in DOMAIN EvictIfNeeded(c)
  <1> DEFINE kept == Without(c, Expired(c))
  <1>1. /\ DOMAIN kept = DOMAIN c \ Expired(c)
        /\ IsCache(kept) /\ OrderTotal(kept)
        /\ \A j \in DOMAIN kept : kept[j].newer \subseteq c[j].newer
    <2>1. DOMAIN kept = DOMAIN c \ Expired(c) /\ IsCache(kept)
      BY WithoutIsCache
    <2>2. /\ OrderTotal(kept)
          /\ \A j \in DOMAIN kept : kept[j].newer \subseteq c[j].newer
      BY WithoutOrder
    <2> QED
      BY <2>1, <2>2
  <1>2. k \in DOMAIN kept
    <2>1. c[k].age \in Nat
      BY BrokerAssumption DEF IsCache, Entries, Ages
    <2> QED
      BY <1>1, <2>1, BrokerAssumption DEF Expired
  <1>3. CASE ~Full(c)
    BY <1>3 DEF EvictIfNeeded
  <1>4. CASE Full(c) /\ ~Full(kept)
    BY <1>2, <1>4 DEF EvictIfNeeded
  <1>5. CASE Full(c) /\ Full(kept)
    <2>1. EvictIfNeeded(c) = Without(kept, LeastRecentlyUsed(kept))
      BY <1>5 DEF EvictIfNeeded
    <2> HIDE DEF kept
    <2>2. k \notin LeastRecentlyUsed(kept)
      <3> SUFFICES ASSUME k \in LeastRecentlyUsed(kept) PROVE FALSE
        OBVIOUS
      <3>1. \A j \in DOMAIN kept : j = k \/ j \in kept[k].newer
        BY <1>1, <1>2 DEF LeastRecentlyUsed, OrderTotal
      <3>2. DOMAIN kept \subseteq S \cup {k}
        BY <1>1, <1>2, <3>1
      <3>3. /\ IsFiniteSet(S \cup {k}) /\ Cardinality(S) \in Nat
            /\ Cardinality(S \cup {k}) =
                   IF k \in S THEN Cardinality(S) ELSE Cardinality(S) + 1
        BY FS_AddElement, FS_CardinalityType
      <3>4. /\ IsFiniteSet(DOMAIN kept)
            /\ Cardinality(DOMAIN kept) <= Cardinality(S \cup {k})
        <4> DEFINE D == DOMAIN kept
        <4>1. D \subseteq S \cup {k}
          BY <3>2
        <4> HIDE DEF D
        <4>2. IsFiniteSet(D) /\ Cardinality(D) <= Cardinality(S \cup {k})
          BY <3>3, <4>1, FS_Subset
        <4> QED
          BY <4>2 DEF D
      <3>5. Cardinality(DOMAIN kept) \in Nat
        BY <3>4, FS_CardinalityType
      <3> QED
        BY <1>5, <3>3, <3>4, <3>5, BrokerAssumption DEF Full
    <2> QED
      BY <1>1, <1>2, <2>1, <2>2 DEF Without
  <1> QED
    BY <1>3, <1>4, <1>5

\* What the cache holds once k is written.
LEMMA StoreEntries ==
    ASSUME CachingEnabled, NEW c, IsCache(c), OrderTotal(c), NEW k \in Keys,
           NEW secret
    PROVE  LET new == Store(c, k, secret)
           IN  /\ k \in DOMAIN new
               /\ new[k].age = 0 /\ new[k].newer = {}
               /\ DOMAIN EvictIfNeeded(c) \subseteq DOMAIN new
               /\ OrderTotal(new)
               /\ \A j \in DOMAIN new : j # k =>
                     /\ j \in DOMAIN c
                     /\ new[j].age = c[j].age
                     /\ new[j].newer \subseteq c[j].newer \cup {k}
  <1> DEFINE e == EvictIfNeeded(c)
  <1>1. /\ IsCache(e) /\ OrderTotal(e) /\ DOMAIN e \subseteq DOMAIN c
        /\ \A j \in DOMAIN e : /\ e[j].age = c[j].age
                               /\ e[j].newer \subseteq c[j].newer
    BY EvictIsCache, EvictOrder
  <1> HIDE DEF e
  <1> DEFINE room == Without(e, {k})
             new == [j \in DOMAIN room \cup {k} |->
                IF j = k THEN [age |-> 0, old |-> secret, newer |-> {}]
                ELSE [room[j] EXCEPT !.newer = @ \cup {k}]]
  <1>2. Store(c, k, secret) = new
    BY DEF Store, e
  <1>3. /\ DOMAIN room = DOMAIN e \ {k}
        /\ IsCache(room) /\ OrderTotal(room)
        /\ \A j \in DOMAIN room : /\ room[j].age = e[j].age
                                  /\ room[j].newer \subseteq e[j].newer
    <2>1. /\ DOMAIN room = DOMAIN e \ {k} /\ IsCache(room)
          /\ \A j \in DOMAIN room : room[j].age = e[j].age
      <3>1. IsCache(e)
        BY <1>1
      <3>2. DOMAIN room = DOMAIN e \ {k} /\ IsCache(room)
        BY <3>1, WithoutIsCache
      <3>3. \A j \in DOMAIN room : room[j].age = e[j].age
        BY <3>1 DEF Without, IsCache, Entries
      <3> QED
        BY <3>2, <3>3
    <2>2. /\ OrderTotal(room)
          /\ \A j \in DOMAIN room : room[j].newer \subseteq e[j].newer
      BY <1>1, WithoutOrder
    <2> QED
      BY <2>1, <2>2
  <1> HIDE DEF room
  <1>4. /\ DOMAIN new = DOMAIN room \cup {k}
        /\ new[k].age = 0 /\ new[k].newer = {}
        /\ \A j \in DOMAIN room : /\ j # k
                                  /\ new[j].age = room[j].age
                                  /\ new[j].newer = room[j].newer \cup {k}
    BY <1>3 DEF IsCache, Entries
  <1> HIDE DEF new
  <1>5. OrderTotal(new)
    BY <1>3, <1>4 DEF OrderTotal
  <1>6. \A j \in DOMAIN new : j # k =>
            /\ j \in DOMAIN c
            /\ new[j].age = c[j].age
            /\ new[j].newer \subseteq c[j].newer \cup {k}
    BY <1>1, <1>3, <1>4
  <1>7. DOMAIN e \subseteq DOMAIN new
    BY <1>3, <1>4
  <1> QED
    BY <1>2, <1>4, <1>5, <1>6, <1>7 DEF e

\* Every step keeps what was used lately.
LEMMA KeptNext ==
    ASSUME CachingEnabled, KeptInv, IInv', [Next]_vars
    PROVE  KeptInv'
  <1>0. /\ IsCache(cache) /\ OrderTotal(cache)
        /\ since \in [Keys -> SUBSET Keys] /\ served \in [Keys -> Ages]
        /\ DOMAIN cache \subseteq Keys
        /\ CacheTTL \in Nat /\ CacheTTL > 0 /\ MaxEntries \in Nat \ {0}
    BY BrokerAssumption DEF KeptInv, IInv, TypeOK, IsCache, CachingEnabled
  <1>1. \A k \in Keys : /\ IsFiniteSet(since[k])
                        /\ Cardinality(since[k]) \in Nat
                        /\ served[k] \in Nat
    <2>1. ASSUME NEW k \in Keys
          PROVE  IsFiniteSet(since[k]) /\ Cardinality(since[k]) \in Nat
      <3>1. since[k] \subseteq Keys
        BY <1>0
      <3> QED
        BY <3>1, BrokerAssumption, FS_Subset, FS_CardinalityType
    <2>2. \A k \in Keys : served[k] \in Nat
      BY <1>0 DEF Ages
    <2> QED
      BY <2>1, <2>2
  <1>2. ASSUME NEW k \in Keys, Accessed(k), NEW j \in Keys, j # k,
               Cardinality(since'[j]) < MaxEntries - 1
        PROVE  Cardinality(since[j]) < MaxEntries - 1
    <2>1. since'[j] = since[j] \cup {k}
      BY <1>2 DEF Accessed
    <2>2. Cardinality(since[j] \cup {k}) =
              IF k \in since[j] THEN Cardinality(since[j])
              ELSE Cardinality(since[j]) + 1
      BY <1>1, FS_AddElement
    <2> QED
      BY <1>0, <1>1, <1>2, <2>1, <2>2
  <1>3. ASSUME NEW k \in Keys, ServeCached(k)
        PROVE  KeptInv'
    <2>1. /\ DOMAIN cache' = DOMAIN cache /\ k \in DOMAIN cache
          /\ served' = served /\ Accessed(k)
      BY <1>3 DEF ServeCached, Touch, Hit
    <2>2. \A j \in DOMAIN cache :
              /\ cache'[j].age = cache[j].age
              /\ cache'[j].newer =
                     IF j = k THEN {} ELSE cache[j].newer \cup {k}
      BY <1>0, <1>3 DEF ServeCached, Touch, IsCache, Entries
    <2>3. OrderTotal(cache)'
      BY <1>0, <2>1, <2>2 DEF OrderTotal
    <2>4. \A j \in DOMAIN cache' : /\ cache'[j].newer \subseteq since'[j]
                                   /\ cache'[j].age = served'[j]
      BY <1>0, <2>1, <2>2 DEF KeptInv, Accessed
    <2>5. \A j \in Keys :
              served'[j] < CacheTTL /\ Cardinality(since'[j]) < MaxEntries - 1
                  => j \in DOMAIN cache'
      BY <1>2, <2>1 DEF KeptInv
    <2> QED
      BY <2>3, <2>4, <2>5 DEF KeptInv
  <1>4. CASE ResolveAndStore
    <2> DEFINE k == call.key
    <2>1. /\ cache' = Store(cache, k, call.secret) /\ Accessed(k)
          /\ served' = [served EXCEPT ![k] = 0]
          /\ k \in Keys
      BY <1>4, CallResult DEF ResolveAndStore, KeptInv, IInv
    <2> HIDE DEF k
    <2>2. /\ k \in DOMAIN cache'
          /\ cache'[k].age = 0 /\ cache'[k].newer = {}
          /\ DOMAIN EvictIfNeeded(cache) \subseteq DOMAIN cache'
          /\ OrderTotal(cache')
          /\ \A j \in DOMAIN cache' : j # k =>
                /\ j \in DOMAIN cache
                /\ cache'[j].age = cache[j].age
                /\ cache'[j].newer \subseteq cache[j].newer \cup {k}
      BY <1>0, <2>1, StoreEntries
    <2>3. \A j \in DOMAIN cache' : /\ cache'[j].newer \subseteq since'[j]
                                   /\ cache'[j].age = served'[j]
      BY <1>0, <2>1, <2>2 DEF KeptInv, Accessed
    <2>4. ASSUME NEW j \in Keys, j # k, served'[j] < CacheTTL,
                 Cardinality(since'[j]) < MaxEntries - 1
          PROVE  j \in DOMAIN cache'
      <3>1. /\ served[j] < CacheTTL
            /\ Cardinality(since[j]) < MaxEntries - 1
        BY <1>0, <1>2, <2>1, <2>4
      <3>2. /\ j \in DOMAIN cache /\ cache[j].newer \subseteq since[j]
            /\ cache[j].age = served[j]
        BY <3>1 DEF KeptInv
      <3>3. cache[j].age <= CacheTTL
        BY <1>0, <1>1, <3>1, <3>2
      <3>4. j \in DOMAIN EvictIfNeeded(cache)
        BY <1>0, <1>1, <3>1, <3>2, <3>3, EvictKeeps
      <3> QED
        BY <2>2, <3>4
    <2> QED
      BY <2>2, <2>3, <2>4 DEF KeptInv
  <1>5. ASSUME NEW k \in Keys, RotateSecret(k)
        PROVE  KeptInv'
    <2>1. /\ DOMAIN cache' = DOMAIN cache
          /\ since' = since /\ served' = served
          /\ \A j \in DOMAIN cache : /\ cache'[j].newer = cache[j].newer
                                     /\ cache'[j].age = cache[j].age
      BY <1>0, <1>5 DEF RotateSecret, Rotate, IsCache, Entries
    <2> QED
      BY <2>1 DEF KeptInv, OrderTotal
  <1>6. CASE PostStop
    <2>1. /\ DOMAIN cache' = {}
          /\ \A k \in Keys : served'[k] = CacheTTL + 1
      BY <1>6 DEF PostStop, EmptyCache
    <2>2. \A k \in Keys : ~(served'[k] < CacheTTL)
      BY <1>0, <2>1
    <2> QED
      BY <2>1, <2>2 DEF KeptInv, OrderTotal
  <1>7. CASE Tick
    <2>1. /\ DOMAIN cache' = DOMAIN cache
          /\ since' = since /\ \A k \in Keys : served'[k] = Older(served[k], CacheTTL)
          /\ \A j \in DOMAIN cache : /\ cache'[j].newer = cache[j].newer
                                     /\ cache'[j].age = Older(cache[j].age, CacheTTL)
      <3>1. /\ cache' = Age(cache) /\ since' = since
            /\ \A k \in Keys : served'[k] = Older(served[k], CacheTTL)
        BY <1>7 DEF Tick
      <3>2. DOMAIN cache' = DOMAIN cache
        BY <3>1 DEF Age
      <3>3. ASSUME NEW j \in DOMAIN cache
            PROVE  /\ cache'[j].newer = cache[j].newer
                   /\ cache'[j].age = Older(cache[j].age, CacheTTL)
        <4>1. cache[j] \in Entries
          BY <1>0 DEF IsCache
        <4>2. cache'[j] =
                [cache[j] EXCEPT !.age = Older(@, CacheTTL),
                                 !.old = OlderSecret(@)]
          BY <3>1 DEF Age
        <4> QED
          BY <4>1, <4>2 DEF Entries
      <3> QED
        BY <3>1, <3>2, <3>3
    <2>2. ASSUME NEW k \in Keys, served'[k] < CacheTTL
          PROVE  served[k] < CacheTTL
      <3>1. served[k] \in Nat /\ CacheTTL \in Nat
        BY <1>0, <1>1
      <3>2. served'[k] = Older(served[k], CacheTTL)
        BY <2>1
      <3> QED
        BY <2>2, <3>1, <3>2 DEF Older
    <2>3. \A j \in DOMAIN cache : cache'[j].age = served'[j]
      BY <1>0, <2>1 DEF KeptInv
    <2> QED
      BY <2>1, <2>2, <2>3 DEF KeptInv, OrderTotal
  <1>8. CASE UNCHANGED <<cache, since, served>>
    BY <1>8 DEF KeptInv, OrderTotal
  <1>9. ASSUME \/ \E k \in Keys : AskProviders(k)
               \/ ProviderReads \/ ResolveFails \/ UNCHANGED vars
        PROVE  UNCHANGED <<cache, since, served>>
    BY <1>9 DEF AskProviders, ProviderReads, ResolveFails, vars
  <1> QED
    BY <1>3, <1>4, <1>5, <1>6, <1>7, <1>8, <1>9 DEF Next

\* handleResolve serves from the cache what was resolved less than CacheTTL
\* ago while fewer than MaxEntries - 1 other keys were used since: evictIfNeeded
\* never takes such an entry, for any keys, lifetime and limit, and whatever
\* expired entries the cache still holds.
THEOREM LeastRecentEvicted == Spec => []RecentlyUsedKept
  <1>1. CASE ~CachingEnabled
    <2>1. IInv => RecentlyUsedKept
      BY <1>1 DEF RecentlyUsedKept
    <2> QED
      BY <2>1, Inductive, PTL
  <1>2. CASE CachingEnabled
    <2>1. Init /\ IInv => KeptInv
      <3> SUFFICES ASSUME Init, IInv PROVE KeptInv
        OBVIOUS
      <3>1. DOMAIN cache = {} /\ \A k \in Keys : ~(served[k] < CacheTTL)
        BY BrokerAssumption DEF Init, EmptyCache, NoCachedSecret
      <3> QED
        BY <3>1 DEF KeptInv, OrderTotal
    <2>2. KeptInv /\ IInv' /\ [Next]_vars => KeptInv'
      BY <1>2, KeptNext
    <2>3. KeptInv => RecentlyUsedKept
      BY <1>2 DEF KeptInv, RecentlyUsedKept, Hit
    <2> QED
      BY <2>1, <2>2, <2>3, Inductive, PTL DEF Spec
  <1> QED
    BY <1>1, <1>2
====
