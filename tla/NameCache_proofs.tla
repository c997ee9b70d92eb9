---- MODULE NameCache_proofs ----
(***************************************************************************)
(* Proofs about the name cache of the gRPC ingress, for every set of       *)
(* requests, names and catalogs, every TTL and every timeout.              *)
(*                                                                         *)
(* StaleBounded is not inductive: a hit repeats what an earlier request    *)
(* stored.  IInv adds where the map comes from, and how old a list may be  *)
(* while it is on its way.                                                 *)
(***************************************************************************)
EXTENDS NameCache, TLAPS

----------------------------------------------------------------------------
(* What a list says of the catalog it lists.                               *)

\* A listing holds the tools of its catalog and no other.
LEMMA ListingComplete ==
    ASSUME NEW tools \in Registries, NEW s \in Listings(tools)
    PROVE  /\ \A i \in DOMAIN s : s[i] \in tools
           /\ \A t \in tools : \E i \in DOMAIN s : s[i] = t
BY DEF Listings

\* buildToolNameMap keeps to the list: every name of the map is true in the
\* catalog that was listed.
LEMMA ToolNameMapTrue ==
    ASSUME NEW tools \in Registries, NEW s \in Listings(tools),
           NEW m, IsToolNameMap(m, s), NEW n \in Names
    PROVE  TrueIn(tools, n, m[n])
<1>1. CASE m[n] = NotFound /\ \A i \in DOMAIN s : ~Exports(s[i], n)
  <2>1. \A t \in tools : ~Exports(t, n)
    BY <1>1, ListingComplete
  <2> QED BY <1>1, <2>1 DEF TrueIn, Owners
<1>2. CASE \E i \in DOMAIN s : Exports(s[i], n) /\ m[n] = s[i].id
  <2>1. PICK i \in DOMAIN s : Exports(s[i], n) /\ m[n] = s[i].id
    BY <1>2
  <2>2. s[i] \in tools
    BY <2>1, ListingComplete
  <2>3. m[n] # NotFound
    BY <2>1, <2>2, ConstantsAssumption
  <2> QED BY <2>1, <2>2, <2>3 DEF TrueIn, Owners
<1> QED BY <1>1, <1>2 DEF IsToolNameMap

\* So does resolveToolID, which takes the first tool instead of the last.
LEMMA ResolvesToTrue ==
    ASSUME NEW tools \in Registries, NEW s \in Listings(tools),
           NEW n \in Names, NEW id, ResolvesTo(s, n, id)
    PROVE  TrueIn(tools, n, id)
<1>1. CASE id = NotFound /\ \A i \in DOMAIN s : ~Exports(s[i], n)
  <2>1. \A t \in tools : ~Exports(t, n)
    BY <1>1, ListingComplete
  <2> QED BY <1>1, <2>1 DEF TrueIn, Owners
<1>2. CASE \E i \in DOMAIN s : Exports(s[i], n) /\ id = s[i].id
  <2>1. PICK i \in DOMAIN s : Exports(s[i], n) /\ id = s[i].id
    BY <1>2
  <2>2. s[i] \in tools
    BY <2>1, ListingComplete
  <2>3. id # NotFound
    BY <2>1, <2>2, ConstantsAssumption
  <2> QED BY <2>1, <2>2, <2>3 DEF TrueIn, Owners
<1> QED BY <1>1, <1>2 DEF ResolvesTo

----------------------------------------------------------------------------
(* The inductive invariant.                                                *)

\* No catalog was seen in the future, and the registrar's is seen now.
Seen ==
    /\ \A tools \in Registries : lastSeen[tools] <= now
    /\ lastSeen[registry] = now

\* The write lock is taken with a cache and on an expired map, which nobody
\* else replaces.
LockedExpired ==
    /\ mu # NoRequest => ttl > 0 /\ now >= expireAt
    /\ \A r \in Requests : pc[r] = "refresh" => ttl > 0

\* A list is on its way for no longer than its Ask, and it is a list of a
\* catalog there was since the question.
ListsRecent ==
    \A r \in Requests :
        /\ pc[r] \in {"list", "listed"} =>
             asked[r] <= now /\ now <= asked[r] + ListTimeout
        /\ pc[r] = "listed" =>
             \E tools \in Registries :
                 lastSeen[tools] >= asked[r] /\ list[r] \in Listings(tools)

\* The map is true in one catalog, seen no earlier than one ListTools before
\* it was stored.
MapTrue ==
    expireAt > 0 =>
        \E tools \in Registries :
            /\ lastSeen[tools] >= expireAt - ttl - ListTimeout
            /\ \A n \in Names : TrueIn(tools, n, byName[n])

IInv ==
    /\ TypeOK /\ Seen /\ LockedExpired /\ ListsRecent /\ MapTrue
    /\ StaleBounded

\* A request that is answered now, from a catalog seen recently enough, and
\* the others as before, satisfy StaleBounded.
LEMMA AnswerRecent ==
    ASSUME IInv, NEW r \in Requests, NEW id \in Names \cup {NotFound},
           Resolved(r, id), UNCHANGED <<ttl, name, lastSeen>>,
           NEW tools \in Registries,
           now - lastSeen[tools] <= StalenessBound,
           TrueIn(tools, name[r], id)
    PROVE  StaleBounded'
<1> SUFFICES ASSUME NEW q \in Requests, pc'[q] = "resolved"
             PROVE  \E u \in Registries :
                        /\ at'[q] - lastSeen[u] <= StalenessBound
                        /\ TrueIn(u, name[q], found'[q])
  BY DEF StaleBounded, StalenessBound
<1>1. CASE q = r
  <2>1. at'[q] = now /\ found'[q] = id
    BY <1>1 DEF Resolved, IInv, TypeOK
  <2> QED BY <1>1, <2>1
<1>2. CASE q # r
  <2>1. pc[q] = "resolved" /\ at'[q] = at[q] /\ found'[q] = found[q]
    BY <1>2 DEF Resolved, IInv, TypeOK
  <2> QED BY <2>1 DEF IInv, StaleBounded
<1> QED BY <1>1, <1>2

\* A hit is recent: the map was stored less than a TTL ago.
LEMMA HitRecent ==
    ASSUME IInv, ttl > 0, now < expireAt
    PROVE  \E tools \in Registries :
               /\ now - lastSeen[tools] <= StalenessBound
               /\ \A n \in Names : TrueIn(tools, n, byName[n])
<1>1. expireAt > 0
  BY DEF IInv, TypeOK
<1>2. PICK tools \in Registries :
          /\ lastSeen[tools] >= expireAt - ttl - ListTimeout
          /\ \A n \in Names : TrueIn(tools, n, byName[n])
  BY <1>1 DEF IInv, MapTrue
<1>3. now - lastSeen[tools] <= StalenessBound
  <2>1. now \in Int /\ expireAt \in Int /\ ttl \in Int /\ ListTimeout \in Int
        /\ lastSeen[tools] \in Int
    BY ConstantsAssumption DEF IInv, TypeOK
  <2> QED BY <1>2, <2>1 DEF StalenessBound
<1> QED BY <1>2, <1>3

\* A list that has arrived is one of a catalog seen within one ListTools.
LEMMA ListRecent ==
    ASSUME IInv, NEW r \in Requests, pc[r] = "listed"
    PROVE  \E tools \in Registries :
               /\ lastSeen[tools] >= now - ListTimeout
               /\ now - lastSeen[tools] <= StalenessBound
               /\ list[r] \in Listings(tools)
<1>1. PICK tools \in Registries :
          lastSeen[tools] >= asked[r] /\ list[r] \in Listings(tools)
  BY DEF IInv, ListsRecent
<1>2. now <= asked[r] + ListTimeout
  BY DEF IInv, ListsRecent
<1>3. now \in Int /\ ttl \in Int /\ ListTimeout \in Int
      /\ lastSeen[tools] \in Int /\ asked[r] \in Int
  BY ConstantsAssumption DEF IInv, TypeOK
<1>4. /\ lastSeen[tools] >= now - ListTimeout
      /\ now - lastSeen[tools] <= ListTimeout
  BY <1>1, <1>2, <1>3
<1>5. now - lastSeen[tools] <= StalenessBound
  BY <1>3, <1>4 DEF StalenessBound
<1> QED BY <1>1, <1>4, <1>5

\* Names already resolved are not touched by a step that resolves none.
LEMMA AnswersKept ==
    ASSUME IInv, UNCHANGED <<ttl, name, found, at>>,
           lastSeen' \in [Registries -> Int],
           \A u \in Registries : lastSeen'[u] >= lastSeen[u],
           \A q \in Requests : pc'[q] = "resolved" => pc[q] = "resolved"
    PROVE  StaleBounded'
<1> SUFFICES ASSUME NEW q \in Requests, pc'[q] = "resolved"
             PROVE  \E u \in Registries :
                        /\ at[q] - lastSeen'[u] <= StalenessBound
                        /\ TrueIn(u, name[q], found[q])
  BY DEF StaleBounded, StalenessBound
<1>1. PICK u \in Registries : /\ at[q] - lastSeen[u] <= StalenessBound
                              /\ TrueIn(u, name[q], found[q])
  BY DEF IInv, StaleBounded
<1>2. at[q] \in Int /\ lastSeen[u] \in Int /\ lastSeen'[u] \in Int
      /\ StalenessBound \in Int
  BY ConstantsAssumption DEF IInv, TypeOK, StalenessBound
<1>3. at[q] - lastSeen'[u] <= StalenessBound
  BY <1>1, <1>2
<1> QED BY <1>1, <1>3

LEMMA InitInv == Init => IInv
<1> SUFFICES ASSUME Init PROVE IInv
  OBVIOUS
<1>1. ttl \in Int
  BY ConstantsAssumption DEF Init, CacheTTL
<1>2. Never \in Int /\ Never < 0
  BY <1>1, ConstantsAssumption DEF Never, StalenessBound
<1>3. TypeOK
  BY <1>1, <1>2 DEF Init, TypeOK
<1>4. Seen
  BY <1>2 DEF Init, Seen
<1>5. LockedExpired /\ ListsRecent /\ MapTrue /\ StaleBounded
  BY DEF Init, LockedExpired, ListsRecent, MapTrue, StaleBounded
<1> QED BY <1>3, <1>4, <1>5 DEF IInv

----------------------------------------------------------------------------
(* The steps.                                                              *)

\* What an unlocked hit needs: the answer of Resolve, and of Lock's second
\* look, comes from a recent map.
LEMMA HitKeeps ==
    ASSUME IInv, NEW r \in Requests, ttl > 0, now < expireAt,
           Resolved(r, byName[name[r]]),
           UNCHANGED <<ttl, registry, lastSeen, now, byName, expireAt, mu,
                       name, list, asked>>
    PROVE  IInv'
<1>1. byName[name[r]] \in Names \cup {NotFound} /\ name[r] \in Names
  BY DEF IInv, TypeOK
<1>2. TypeOK'
  BY <1>1 DEF IInv, TypeOK, Resolved
<1>3. Seen' /\ MapTrue'
  BY DEF IInv, Seen, MapTrue
<1>4. LockedExpired' /\ ListsRecent'
  BY DEF IInv, TypeOK, LockedExpired, ListsRecent, Resolved
<1>5. StaleBounded'
  <2>1. PICK tools \in Registries :
            /\ now - lastSeen[tools] <= StalenessBound
            /\ \A n \in Names : TrueIn(tools, n, byName[n])
    BY HitRecent
  <2> QED BY <1>1, <2>1, AnswerRecent
<1> QED BY <1>2, <1>3, <1>4, <1>5 DEF IInv

LEMMA ResolveKeeps ==
    ASSUME IInv, NEW r \in Requests, Resolve(r)
    PROVE  IInv'
<1>1. CASE now < expireAt
  BY <1>1, HitKeeps DEF Resolve
<1>2. CASE ~(now < expireAt)
  <2>1. Goto(r, "refresh") /\ ttl > 0
        /\ UNCHANGED <<ttl, registry, lastSeen, now, byName, expireAt, mu,
                       name, list, asked>>
    BY <1>2 DEF Resolve
  <2>2. TypeOK'
    BY <2>1 DEF IInv, TypeOK, Goto
  <2>3. Seen' /\ MapTrue'
    BY <2>1 DEF IInv, Seen, MapTrue
  <2>4. LockedExpired' /\ ListsRecent'
    BY <2>1 DEF IInv, TypeOK, LockedExpired, ListsRecent, Goto
  <2>5. StaleBounded'
    BY <2>1, AnswersKept DEF IInv, TypeOK, Goto
  <2> QED BY <2>2, <2>3, <2>4, <2>5 DEF IInv
<1> QED BY <1>1, <1>2

LEMMA LockKeeps ==
    ASSUME IInv, NEW r \in Requests, Lock(r)
    PROVE  IInv'
<1>0. ttl > 0
  BY DEF Lock, IInv, LockedExpired
<1>1. CASE now < expireAt
  BY <1>0, <1>1, HitKeeps DEF Lock
<1>2. CASE ~(now < expireAt)
  <2>1. Goto(r, "list") /\ mu' = r /\ asked' = [asked EXCEPT ![r] = now]
        /\ UNCHANGED <<ttl, registry, lastSeen, now, byName, expireAt,
                       name, list>>
    BY <1>2 DEF Lock
  <2>2. TypeOK'
    BY <2>1 DEF IInv, TypeOK, Goto
  <2>3. Seen' /\ MapTrue'
    BY <2>1 DEF IInv, Seen, MapTrue
  <2>4. LockedExpired'
    BY <1>0, <1>2, <2>1 DEF IInv, TypeOK, LockedExpired, Goto
  <2>5. ListsRecent'
    BY <2>1, ConstantsAssumption DEF IInv, TypeOK, ListsRecent, Goto
  <2>6. StaleBounded'
    BY <2>1, AnswersKept DEF IInv, TypeOK, Goto
  <2> QED BY <2>2, <2>3, <2>4, <2>5, <2>6 DEF IInv
<1> QED BY <1>1, <1>2

LEMMA ListKeeps ==
    ASSUME IInv, NEW r \in Requests, List(r)
    PROVE  IInv'
<1>1. TypeOK'
  BY DEF List, IInv, TypeOK, Goto
<1>2. Seen' /\ MapTrue'
  BY DEF List, IInv, Seen, MapTrue
<1>3. LockedExpired'
  BY DEF List, IInv, TypeOK, LockedExpired, Goto
<1>4. ListsRecent'
  BY ConstantsAssumption DEF List, IInv, TypeOK, ListsRecent, Goto
<1>5. StaleBounded'
  BY AnswersKept DEF List, IInv, TypeOK, Goto
<1> QED BY <1>1, <1>2, <1>3, <1>4, <1>5 DEF IInv

LEMMA ListReplyKeeps ==
    ASSUME IInv, NEW r \in Requests, ListReply(r)
    PROVE  IInv'
<1>1. TypeOK'
  BY DEF ListReply, IInv, TypeOK, Goto
<1>2. Seen' /\ MapTrue'
  BY DEF ListReply, IInv, Seen, MapTrue
<1>3. LockedExpired'
  BY DEF ListReply, IInv, TypeOK, LockedExpired, Goto
<1>4. ListsRecent'
  <2> SUFFICES ASSUME NEW q \in Requests
               PROVE  /\ pc'[q] \in {"list", "listed"} =>
                           asked[q] <= now /\ now <= asked[q] + ListTimeout
                      /\ pc'[q] = "listed" =>
                           \E tools \in Registries :
                               /\ lastSeen[tools] >= asked[q]
                               /\ list'[q] \in Listings(tools)
    BY DEF ListsRecent, ListReply
  <2>1. CASE q # r
    <3>1. pc'[q] = pc[q]
      BY <2>1 DEF ListReply, Goto, IInv, TypeOK
    <3>2. list'[q] = list[q]
      BY <2>1 DEF ListReply, IInv, TypeOK
    <3> QED BY <2>1, <3>1, <3>2 DEF IInv, ListsRecent, ListReply
  <2>2. CASE q = r
    <3>1. asked[q] <= now /\ now <= asked[q] + ListTimeout
      BY <2>2 DEF IInv, ListsRecent, ListReply
    <3> QED BY <2>2, <3>1 DEF IInv, Seen, TypeOK, ListReply
  <2> QED BY <2>1, <2>2
<1>5. StaleBounded'
  BY AnswersKept DEF ListReply, IInv, TypeOK, Goto
<1> QED BY <1>1, <1>2, <1>3, <1>4, <1>5 DEF IInv

\* What ListTools returned is forgotten by a request that has left the list
\* stages; the lists of the others are as they were.
LEMMA ForgetKeepsLists ==
    ASSUME IInv, NEW r \in Requests, Forget(r),
           NEW l \in {"resolved", "failed"},
           pc' = [pc EXCEPT ![r] = l], UNCHANGED <<lastSeen, now>>
    PROVE  ListsRecent'
<1> SUFFICES ASSUME NEW q \in Requests, pc'[q] \in {"list", "listed"}
             PROVE  /\ pc'[q] = pc[q]
                    /\ asked'[q] = asked[q] /\ list'[q] = list[q]
  BY DEF IInv, ListsRecent
<1>1. q # r
  BY DEF IInv, TypeOK
<1> QED BY <1>1 DEF IInv, TypeOK, Forget

LEMMA RefreshKeeps ==
    ASSUME IInv, NEW r \in Requests, Refresh(r)
    PROVE  IInv'
<1>1. ttl > 0 /\ mu = r /\ mu' = NoRequest /\ expireAt' = now + ttl
  BY ConstantsAssumption DEF Refresh, IInv, LockedExpired
<1>2. PICK m \in [Names -> Names \cup {NotFound}] :
          /\ IsToolNameMap(m, list[r])
          /\ byName' = m /\ Resolved(r, m[name[r]])
  BY DEF Refresh
<1>3. PICK tools \in Registries :
          /\ lastSeen[tools] >= now - ListTimeout
          /\ now - lastSeen[tools] <= StalenessBound
          /\ list[r] \in Listings(tools)
  BY ListRecent DEF Refresh
<1>4. \A n \in Names : TrueIn(tools, n, m[n])
  BY <1>2, <1>3, ToolNameMapTrue
<1>5. name[r] \in Names
  BY DEF IInv, TypeOK
<1>6. TypeOK'
  BY <1>1, <1>2, <1>5 DEF Refresh, IInv, TypeOK, Resolved, Forget
<1>7. Seen'
  BY DEF Refresh, IInv, Seen
<1>8. LockedExpired'
  BY <1>1, <1>2 DEF Refresh, IInv, TypeOK, LockedExpired, Resolved
<1>9. ListsRecent'
  BY <1>2, ForgetKeepsLists DEF Refresh, Resolved
<1>10. MapTrue'
  <2>1. expireAt' - ttl - ListTimeout = now - ListTimeout
    BY <1>1, ConstantsAssumption DEF IInv, TypeOK
  <2>2. lastSeen'[tools] >= (expireAt - ttl - ListTimeout)'
    BY <1>3, <2>1 DEF Refresh
  <2>3. \A n \in Names : TrueIn(tools, n, byName'[n])
    BY <1>2, <1>4
  <2> QED BY <2>2, <2>3 DEF MapTrue
<1>11. StaleBounded'
  BY <1>2, <1>3, <1>4, <1>5, AnswerRecent DEF Refresh
<1> QED BY <1>6, <1>7, <1>8, <1>9, <1>10, <1>11 DEF IInv

LEMMA ResolveToolIDKeeps ==
    ASSUME IInv, NEW r \in Requests, ResolveToolID(r)
    PROVE  IInv'
<1>1. PICK id \in Names \cup {NotFound} :
          ResolvesTo(list[r], name[r], id) /\ Resolved(r, id)
  BY DEF ResolveToolID
<1>2. PICK tools \in Registries :
          /\ now - lastSeen[tools] <= StalenessBound
          /\ list[r] \in Listings(tools)
  BY ListRecent DEF ResolveToolID
<1>3. name[r] \in Names
  BY DEF IInv, TypeOK
<1>4. TrueIn(tools, name[r], id)
  BY <1>1, <1>2, <1>3, ResolvesToTrue
<1>5. TypeOK'
  BY <1>1 DEF ResolveToolID, IInv, TypeOK, Resolved, Forget
<1>6. Seen' /\ MapTrue'
  BY DEF ResolveToolID, IInv, Seen, MapTrue
<1>7. LockedExpired'
  BY <1>1 DEF ResolveToolID, IInv, TypeOK, LockedExpired, Resolved
<1>8. ListsRecent'
  BY <1>1, ForgetKeepsLists DEF ResolveToolID, Resolved
<1>9. StaleBounded'
  BY <1>1, <1>2, <1>4, AnswerRecent DEF ResolveToolID
<1> QED BY <1>5, <1>6, <1>7, <1>8, <1>9 DEF IInv

LEMMA ListFailsKeeps ==
    ASSUME IInv, NEW r \in Requests, ListFails(r)
    PROVE  IInv'
<1>1. TypeOK'
  BY DEF ListFails, IInv, TypeOK, Goto, Forget
<1>2. Seen' /\ MapTrue'
  BY DEF ListFails, IInv, Seen, MapTrue
<1>3. LockedExpired'
  BY DEF ListFails, IInv, TypeOK, LockedExpired, Goto
<1>4. ListsRecent'
  BY ForgetKeepsLists DEF ListFails, Goto
<1>5. StaleBounded'
  BY AnswersKept DEF ListFails, IInv, TypeOK, Goto
<1> QED BY <1>1, <1>2, <1>3, <1>4, <1>5 DEF IInv

LEMMA BeginKeeps ==
    ASSUME IInv, NEW r \in Requests, Begin(r)
    PROVE  IInv'
<1>1. TypeOK'
  BY DEF Begin, IInv, TypeOK
<1>2. Seen' /\ MapTrue'
  BY DEF Begin, IInv, Seen, MapTrue
<1>3. LockedExpired' /\ ListsRecent'
  BY DEF Begin, IInv, TypeOK, LockedExpired, ListsRecent
<1>4. StaleBounded'
  <2> SUFFICES ASSUME NEW q \in Requests, pc'[q] = "resolved"
               PROVE  /\ pc[q] = "resolved" /\ name'[q] = name[q]
                      /\ found'[q] = found[q] /\ at'[q] = at[q]
    BY DEF Begin, IInv, StaleBounded, StalenessBound
  <2>1. q # r
    BY DEF Begin, IInv, TypeOK
  <2> QED BY <2>1 DEF Begin, IInv, TypeOK
<1> QED BY <1>1, <1>2, <1>3, <1>4 DEF IInv

\* What was seen stays seen: a step that only moves lastSeen on, and keeps
\* the requests and the map, keeps what is known of both.
LEMMA LaterKeeps ==
    ASSUME IInv,
           UNCHANGED <<ttl, byName, expireAt, mu, pc, name, list, asked,
                       found, at>>,
           lastSeen' \in [Registries -> Int],
           \A u \in Registries : lastSeen'[u] >= lastSeen[u]
    PROVE  /\ MapTrue' /\ StaleBounded'
           /\ \A r \in Requests :
                pc[r] = "listed" =>
                    \E u \in Registries :
                        lastSeen'[u] >= asked[r] /\ list[r] \in Listings(u)
<1>1. StaleBounded'
  BY AnswersKept
<1>2. MapTrue'
  <2> SUFFICES ASSUME expireAt > 0
               PROVE  \E u \in Registries :
                          /\ lastSeen'[u] >= expireAt - ttl - ListTimeout
                          /\ \A n \in Names : TrueIn(u, n, byName[n])
    BY DEF MapTrue
  <2>1. PICK u \in Registries :
            /\ lastSeen[u] >= expireAt - ttl - ListTimeout
            /\ \A n \in Names : TrueIn(u, n, byName[n])
    BY DEF IInv, MapTrue
  <2>2. lastSeen[u] \in Int /\ lastSeen'[u] \in Int
        /\ expireAt - ttl - ListTimeout \in Int
    BY ConstantsAssumption DEF IInv, TypeOK
  <2>3. lastSeen'[u] >= expireAt - ttl - ListTimeout
    BY <2>1, <2>2
  <2> QED BY <2>1, <2>3
<1>3. ASSUME NEW r \in Requests, pc[r] = "listed"
      PROVE  \E u \in Registries :
                 lastSeen'[u] >= asked[r] /\ list[r] \in Listings(u)
  <2>1. PICK u \in Registries :
            lastSeen[u] >= asked[r] /\ list[r] \in Listings(u)
    BY <1>3 DEF IInv, ListsRecent
  <2>2. lastSeen[u] \in Int /\ lastSeen'[u] \in Int /\ asked[r] \in Int
    BY DEF IInv, TypeOK
  <2>3. lastSeen'[u] >= asked[r]
    BY <2>1, <2>2
  <2> QED BY <2>1, <2>3
<1> QED BY <1>1, <1>2, <1>3

LEMMA RegistryChangesKeeps ==
    ASSUME IInv, RegistryChanges
    PROVE  IInv'
<1>1. PICK tools \in Registries :
          registry' = tools /\ lastSeen' = [lastSeen EXCEPT ![tools] = now]
  BY DEF RegistryChanges
<1>2. TypeOK'
  BY <1>1 DEF RegistryChanges, IInv, TypeOK
<1>3. \A u \in Registries : lastSeen'[u] >= lastSeen[u] /\ lastSeen'[u] <= now
  BY <1>1 DEF IInv, TypeOK, Seen
<1>4. Seen'
  BY <1>1, <1>3 DEF RegistryChanges, IInv, TypeOK, Seen
<1>5. MapTrue' /\ StaleBounded'
  BY <1>2, <1>3, LaterKeeps DEF RegistryChanges, TypeOK
<1>6. LockedExpired'
  BY DEF RegistryChanges, IInv, LockedExpired
<1>7. \A r \in Requests :
          pc[r] = "listed" =>
              \E u \in Registries :
                  lastSeen'[u] >= asked[r] /\ list[r] \in Listings(u)
  BY <1>2, <1>3, LaterKeeps DEF RegistryChanges, TypeOK
<1>8. ListsRecent'
  BY <1>7 DEF RegistryChanges, IInv, ListsRecent
<1> QED BY <1>2, <1>4, <1>5, <1>6, <1>8 DEF IInv

LEMMA TickKeeps ==
    ASSUME IInv, Tick
    PROVE  IInv'
<1>1. TypeOK'
  BY DEF Tick, IInv, TypeOK
<1>2. now \in Nat /\ now' = now + 1 /\ registry' = registry
  BY DEF Tick, IInv, TypeOK
<1>3. \A u \in Registries : lastSeen'[u] >= lastSeen[u] /\ lastSeen'[u] <= now'
  BY <1>2 DEF Tick, IInv, TypeOK, Seen
<1>4. Seen'
  BY <1>2, <1>3 DEF Tick, IInv, TypeOK, Seen
<1>5. MapTrue' /\ StaleBounded'
  BY <1>1, <1>3, LaterKeeps DEF Tick, TypeOK
<1>6. LockedExpired'
  BY <1>2 DEF Tick, IInv, TypeOK, LockedExpired
<1>7. \A r \in Requests :
          pc[r] = "listed" =>
              \E u \in Registries :
                  lastSeen'[u] >= asked[r] /\ list[r] \in Listings(u)
  BY <1>1, <1>3, LaterKeeps DEF Tick, TypeOK
<1>8. \A r \in Requests :
          pc[r] \in {"list", "listed"} =>
              asked[r] <= now' /\ now' <= asked[r] + ListTimeout
  BY <1>2, ConstantsAssumption DEF Tick, IInv, TypeOK, ListsRecent
<1>9. ListsRecent'
  BY <1>7, <1>8 DEF Tick, ListsRecent
<1> QED BY <1>1, <1>4, <1>5, <1>6, <1>9 DEF IInv

LEMMA NextInv == IInv /\ [Next]_vars => IInv'
<1> SUFFICES ASSUME IInv, [Next]_vars PROVE IInv'
  OBVIOUS
<1>1. CASE \E r \in Requests : Serve(r)
  BY <1>1, ResolveKeeps, LockKeeps, ListKeeps, ListReplyKeeps, RefreshKeeps,
     ResolveToolIDKeeps, ListFailsKeeps DEF Serve
<1>2. CASE \E r \in Requests : Begin(r)
  BY <1>2, BeginKeeps
<1>3. CASE RegistryChanges
  BY <1>3, RegistryChangesKeeps
<1>4. CASE Tick
  BY <1>4, TickKeeps
<1>5. CASE UNCHANGED vars
  BY <1>5 DEF vars, IInv, TypeOK, Seen, LockedExpired, ListsRecent, MapTrue,
              StaleBounded, StalenessBound
<1> QED BY <1>1, <1>2, <1>3, <1>4, <1>5 DEF Next

\* The map and its expiry change in Refresh alone, by the holder of the write
\* lock, who found the map expired.
LEMMA RefreshOnExpiry ==
    ASSUME IInv, Next, <<byName, expireAt>>' # <<byName, expireAt>>
    PROVE  now >= expireAt
<1>1. PICK r \in Requests : Refresh(r)
  BY DEF Next, Serve, Resolve, Lock, List, ListReply, ResolveToolID,
         ListFails, Begin, RegistryChanges, Tick
<1>2. mu # NoRequest
  BY <1>1, ConstantsAssumption DEF Refresh
<1> QED BY <1>2 DEF IInv, LockedExpired

----------------------------------------------------------------------------
(* The theorems.                                                           *)

LEMMA Invariance == Spec => []IInv
<1>1. Init => IInv
  BY InitInv
<1>2. IInv /\ [Next]_vars => IInv'
  BY NextInv
<1> QED BY <1>1, <1>2, PTL DEF Spec

\* Every variable of the cache and of its requests keeps its type: the expiry
\* is never negative, and the map names tools or none.
THEOREM TypeCorrect == Spec => []TypeOK
<1>1. IInv => TypeOK
  BY DEF IInv
<1> QED BY <1>1, Invariance, PTL

\* resolve and refreshAndResolve: for any number of requests, any catalogs and
\* any TTL, an answer was true in a catalog the registrar had within one TTL
\* and one ListTools.
THEOREM Staleness == Spec => []StaleBounded
<1>1. IInv => StaleBounded
  BY DEF IInv
<1> QED BY <1>1, Invariance, PTL

\* refreshAndResolve: however many requests find the map expired at once, it
\* is replaced on an expired map only.
THEOREM SingleRefresh == Spec => OneRefreshPerExpiry
<1>1. IInv /\ [Next]_vars =>
          [<<byName, expireAt>>' # <<byName, expireAt>> => now >= expireAt]_vars
  BY RefreshOnExpiry
<1> QED BY <1>1, Invariance, PTL DEF Spec, OneRefreshPerExpiry
====
