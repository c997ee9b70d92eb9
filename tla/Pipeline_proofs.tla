---- MODULE Pipeline_proofs ----
(***************************************************************************)
(* Proofs about the invocation pipeline: types, authorization, the rate    *)
(* limit and the quota of concurrent sessions.                             *)
(***************************************************************************)
EXTENDS Pipeline, FiniteSetTheorems, TLAPS

\* Where a request is that policy has allowed and that is not dispatched.
Flight == {"admission", "credentials", "session"}

\* The request the router waits for is the last one in the policy's mailbox.
PolicyAsked ==
    router.stage = "policy" =>
        policyBox # <<>> /\ policyBox[Len(policyBox)].tenant = Tenant

\* An allowed request is of an authorized tenant.
AllowedAuthorized == router.stage \in Flight => Authorized(Tenant)

\* The request the router has to dispatch yet, for the tenant t.
InFlight(t) == IF router.stage \in Flight /\ Tenant = t THEN 1 ELSE 0

\* The requests counted in this minute, up to the quota.
Granted(t) ==
    IF CountsNow(policy)[t] < RequestsPerMinute[t]
    THEN CountsNow(policy)[t] ELSE RequestsPerMinute[t]

\* What was dispatched, and what will be, was counted in this minute, but
\* for one request from the minute before.
DispatchesCounted ==
    \A t \in Configured :
        RequestsPerMinute[t] > 0 => dispatched[t] + InFlight(t) <= Granted(t) + 1

\* The inductive invariant of authorization, and that of the rate.
AuthorizationInv ==
    TypeOK /\ PolicyAsked /\ AllowedAuthorized /\ OnlyAuthorizedSessions
RateInv == TypeOK /\ PolicyAsked /\ DispatchesCounted

\* A message that opens a session is of an authorized tenant.
GoodMessage(m) ==
    m.type = "GetOrCreateSession" => Authorized(TenantOf[m.of])
GoodBox(s) == \A i \in 1..Len(s) : GoodMessage(s[i])

----------------------------------------------------------------------------
(* The policy actor.                                                       *)

\* A request leaves the policy actor in a state of its type.
LEMMA AfterRequestType ==
    ASSUME NEW p \in PolicyState, NEW t \in Tenants
    PROVE  AfterRequest(p, t) \in PolicyState
  BY PolicyAssumption DEF AfterRequest, CountsNow, PolicyState

\* Only a request of an authorized tenant below its rate is allowed.
LEMMA AllowMeans ==
    ASSUME NEW p \in PolicyState, NEW t \in Tenants, NEW n,
           "allow" \in DecisionsFor(p, t, n)
    PROVE  Authorized(t) /\ ~OverRateQuota(t, CountsNow(p)[t])
  BY DEF DecisionsFor, Evaluate

----------------------------------------------------------------------------
(* Types.                                                                  *)

\* Every variable has its type initially.
LEMMA TypeInit == Init => TypeOK
  BY PipelineAssumption, PolicyAssumption
     DEF Init, TypeOK, NewPolicy, PolicyState, Stages

\* Every step preserves the types.
LEMMA TypeNext == TypeOK /\ [Next]_vars => TypeOK'
  <1> SUFFICES ASSUME TypeOK, [Next]_vars PROVE TypeOK'
    OBVIOUS
  <1> USE PipelineAssumption, PolicyAssumption
  <1>t. Tenant \in Tenants /\ router.request \in Requests
    BY DEF TypeOK, Tenant
  <1>e. ASSUME NEW stage \in Stages, Enter(stage)
        PROVE  router' \in [request : Requests, stage : Stages]
    BY <1>e DEF Enter, TypeOK
  <1>m. /\ CountMessage(router.request) \in SupervisorMessages
        /\ OpenMessage(router.request) \in SupervisorMessages
        /\ \A r \in Requests : /\ ActivatedMessage(r) \in SupervisorMessages
                               /\ DeactivatedMessage(r) \in SupervisorMessages
    BY <1>t DEF CountMessage, OpenMessage, ActivatedMessage, DeactivatedMessage,
                SupervisorMessages
  <1>h. supervisorBox # <<>> =>
            /\ Head(supervisorBox).of \in Requests
            /\ Tail(supervisorBox) \in Seq(SupervisorMessages)
    <2>1. supervisorBox \in Seq(SupervisorMessages)
      BY DEF TypeOK
    <2>2. supervisorBox # <<>> =>
              /\ Head(supervisorBox) \in SupervisorMessages
              /\ Tail(supervisorBox) \in Seq(SupervisorMessages)
      BY <2>1
    <2>3. \A m \in SupervisorMessages : m.of \in Requests
      BY DEF SupervisorMessages
    <2> QED
      BY <2>2, <2>3
  <1>p. ASSUME NEW n \in Nat, AskPolicy(n)
        PROVE  /\ policyBox' \in Seq([tenant : Tenants, active : Nat])
               /\ router' \in [request : Requests, stage : Stages]
    BY <1>p, <1>t, <1>e DEF AskPolicy, TypeOK, Stages
  <1>s. ASSUME AskSession
        PROVE  /\ supervisorBox' \in Seq(SupervisorMessages)
               /\ router' \in [request : Requests, stage : Stages]
    BY <1>s, <1>m, <1>e DEF AskSession, TypeOK, Stages
  <1>1. ASSUME NEW r \in Requests, Invoke(r) PROVE TypeOK'
    BY <1>1 DEF Invoke, TypeOK, policyVars, supervisorVars, historyVars
  <1>2. ASSUME NEW r \in Requests, Passivate(r) PROVE TypeOK'
    BY <1>2, <1>m DEF Passivate, TypeOK, policyVars, supervisorVars, historyVars
  <1>3. CASE TakeRequest
    BY <1>3 DEF TakeRequest, TypeOK, Stages, policyVars, supervisorVars,
                historyVars
  <1>4. CASE LookupTool
    <2>1. CASE Conclude /\ UNCHANGED <<policyBox, supervisorBox>>
      BY <1>4, <2>1, <1>e
         DEF LookupTool, Conclude, TypeOK, Stages, historyVars
    <2>2. CASE /\ Enter("count")
               /\ supervisorBox' =
                      Append(supervisorBox, CountMessage(router.request))
               /\ UNCHANGED policyBox
      BY <1>4, <2>2, <1>e, <1>m DEF LookupTool, TypeOK, Stages, historyVars
    <2>3. CASE AskPolicy(0) /\ UNCHANGED supervisorBox
      BY <1>4, <2>3, <1>p DEF LookupTool, TypeOK, historyVars
    <2> QED
      BY <1>4, <2>1, <2>2, <2>3 DEF LookupTool
  <1>5. CASE CountTimeout
    BY <1>5, <1>p, <1>t DEF CountTimeout, TypeOK, supervisorVars
  <1>6. CASE PolicyTimeout
    BY <1>6, <1>e DEF PolicyTimeout, Conclude, TypeOK, Stages, policyVars,
                      supervisorVars, historyVars
  <1>7. CASE Admit
    BY <1>7, <1>e DEF Admit, Conclude, TypeOK, Stages, policyVars,
                      supervisorVars, historyVars
  <1>8. CASE ResolveCredentials
    <2>1. CASE AskSession
      BY <1>8, <2>1, <1>s DEF ResolveCredentials, TypeOK, policyVars, historyVars
    <2>2. CASE Conclude /\ UNCHANGED supervisorBox
      BY <1>8, <2>2, <1>e
         DEF ResolveCredentials, Conclude, TypeOK, Stages, policyVars, historyVars
    <2> QED
      BY <1>8, <2>1, <2>2 DEF ResolveCredentials
  <1>9. CASE SessionTimeout
    BY <1>9, <1>e, <1>t DEF SessionTimeout, Conclude, TypeOK, Stages, policyVars,
                            supervisorVars
  <1>10. CASE Execute
    BY <1>10, <1>e DEF Execute, Conclude, TypeOK, Stages, policyVars,
                       supervisorVars, historyVars
  <1>11. CASE EmitAndRespond
    BY <1>11, <1>e DEF EmitAndRespond, TypeOK, Stages, policyVars,
                       supervisorVars, historyVars
  <1>12. CASE HandleEvaluate
    <2>1. /\ Head(policyBox).tenant \in Tenants
          /\ policyBox' \in Seq([tenant : Tenants, active : Nat])
      <3> DEFINE Input == [tenant : Tenants, active : Nat]
      <3>1. policyBox \in Seq(Input) /\ policyBox # <<>>
        BY <1>12 DEF HandleEvaluate, TypeOK
      <3>2. \A in \in Input : in.tenant \in Tenants
        OBVIOUS
      <3> HIDE DEF Input
      <3>3. Head(policyBox) \in Input /\ Tail(policyBox) \in Seq(Input)
        BY <3>1
      <3>4. policyBox' = Tail(policyBox)
        BY <1>12 DEF HandleEvaluate
      <3> QED
        BY <3>2, <3>3, <3>4 DEF Input
    <2>2. policy' \in PolicyState
      BY <1>12, <2>1, AfterRequestType DEF HandleEvaluate, TypeOK
    <2>3. router' \in [request : Requests, stage : Stages]
      BY <1>12, <1>e DEF HandleEvaluate, Conclude, TypeOK, Stages
    <2> QED
      BY <1>12, <2>1, <2>2, <2>3
         DEF HandleEvaluate, TypeOK, supervisorVars, historyVars
  <1>13. CASE HandleCountSessions
    <2>1. Cardinality(SessionsOf(sessions, Tenant)) \in Nat
      <3>1. SessionsOf(sessions, Tenant) \in SUBSET Requests
        BY DEF SessionsOf, TypeOK
      <3> QED
        BY <3>1, FS_Subset, FS_CardinalityType
    <2> QED
      BY <1>13, <1>h, <1>p, <2>1
         DEF HandleCountSessions, Receives, TypeOK, historyVars
  <1>14. CASE HandleGetOrCreateSession
    <2> DEFINE r == Head(supervisorBox).of
    <2>1. r \in Requests /\ supervisorBox' \in Seq(SupervisorMessages)
      <3>1. r \in Requests /\ Tail(supervisorBox) \in Seq(SupervisorMessages)
        BY <1>14, <1>h DEF HandleGetOrCreateSession, Receives
      <3>2. ActivatedMessage(r) \in SupervisorMessages
        BY <3>1, <1>m
      <3>3. Append(Tail(supervisorBox), ActivatedMessage(r))
                \in Seq(SupervisorMessages)
        BY <3>1, <3>2
      <3>4. \/ supervisorBox' = Tail(supervisorBox)
            \/ supervisorBox' = Append(Tail(supervisorBox), ActivatedMessage(r))
        BY <1>14 DEF HandleGetOrCreateSession
      <3> QED
        BY <3>1, <3>3, <3>4
    <2>2. router' \in [request : Requests, stage : Stages]
      BY <1>14, <1>e DEF HandleGetOrCreateSession, Conclude, TypeOK, Stages
    <2>3. dispatched' \in [Tenants -> 0..(CountBound + 2)]
      <3> DEFINE more == [dispatched EXCEPT ![Tenant] =
                                IF @ < CountBound + 2 THEN @ + 1 ELSE @]
      <3>1. dispatched' \in {dispatched, more}
        BY <1>14 DEF HandleGetOrCreateSession
      <3>2. dispatched \in [Tenants -> 0..(CountBound + 2)]
        BY DEF TypeOK
      <3>3. more \in [Tenants -> 0..(CountBound + 2)]
        BY <3>2, <1>t
      <3> QED
        BY <3>1, <3>2, <3>3
    <2>4. live' \subseteq Requests
      BY <1>14, <2>1 DEF HandleGetOrCreateSession, TypeOK
    <2> QED
      BY <1>14, <2>1, <2>2, <2>3, <2>4
         DEF HandleGetOrCreateSession, TypeOK, policyVars
  <1>15. CASE HandleSessionActivated
    BY <1>15, <1>h DEF HandleSessionActivated, Receives, TypeOK, policyVars,
                       historyVars
  <1>16. CASE HandleSessionDeactivated
    BY <1>16, <1>h DEF HandleSessionDeactivated, Receives, TypeOK, policyVars,
                       historyVars
  <1>17. CASE HandleRecordAuditEvent
    BY <1>17 DEF HandleRecordAuditEvent, TypeOK, policyVars, supervisorVars,
                 historyVars
  <1>18. CASE NextMinute
    <2>1. policy' \in PolicyState
      BY <1>18 DEF NextMinute, MinutePasses, PolicyState, TypeOK
    <2>2. dispatched' \in [Tenants -> 0..(CountBound + 2)]
      BY <1>18 DEF NextMinute
    <2> QED
      BY <1>18, <2>1, <2>2 DEF NextMinute, TypeOK, supervisorVars
  <1>19. CASE UNCHANGED vars
    BY <1>19 DEF vars, TypeOK, policyVars, supervisorVars, historyVars
  <1> QED
    BY <1>1, <1>2, <1>3, <1>4, <1>5, <1>6, <1>7, <1>8, <1>9, <1>10, <1>11,
       <1>12, <1>13, <1>14, <1>15, <1>16, <1>17, <1>18, <1>19 DEF Next

\* Every variable of the pipeline keeps its type, for any requests, tenants
\* and quotas; the journal's backlog stays within its mailbox.
THEOREM TypeCorrect == Spec => []TypeOK
  BY TypeInit, TypeNext, PTL DEF Spec

----------------------------------------------------------------------------
(* Authorization.                                                          *)

\* Taking a message leaves a good mailbox, and so does adding a good one.
LEMMA GoodBoxes ==
    ASSUME NEW s \in Seq(SupervisorMessages), GoodBox(s)
    PROVE  /\ s # <<>> => GoodBox(Tail(s))
           /\ \A m \in SupervisorMessages :
                  GoodMessage(m) => GoodBox(Append(s, m))
  <1>1. ASSUME s # <<>> PROVE GoodBox(Tail(s))
    <2>1. \A i \in 1..Len(Tail(s)) : i + 1 \in 1..Len(s) /\ Tail(s)[i] = s[i + 1]
      BY <1>1
    <2> QED
      BY <2>1 DEF GoodBox
  <1>2. ASSUME NEW m \in SupervisorMessages, GoodMessage(m)
        PROVE  GoodBox(Append(s, m))
    <2>1. \A i \in 1..Len(Append(s, m)) :
              \/ i \in 1..Len(s) /\ Append(s, m)[i] = s[i]
              \/ Append(s, m)[i] = m
      OBVIOUS
    <2> QED
      BY <1>2, <2>1 DEF GoodBox
  <1> QED
    BY <1>1, <1>2

\* What is appended is last, and all of a sequence without a tail is its head.
LEMMA LastOf ==
    ASSUME NEW S, NEW s \in Seq(S)
    PROVE  /\ \A e \in S : /\ Append(s, e) # <<>>
                           /\ Append(s, e)[Len(Append(s, e))] = e
           /\ s # <<>> /\ Tail(s) = <<>> => Len(s) = 1 /\ Head(s) = s[1]
  <1>1. ASSUME NEW e \in S
        PROVE  Append(s, e) # <<>> /\ Append(s, e)[Len(Append(s, e))] = e
    <2>1. Len(Append(s, e)) = Len(s) + 1 /\ Append(s, e)[Len(s) + 1] = e
      OBVIOUS
    <2> QED
      BY <2>1
  <1>2. ASSUME s # <<>>, Tail(s) = <<>> PROVE Len(s) = 1 /\ Head(s) = s[1]
    <2>1. Len(s) \in Nat /\ Len(s) # 0
      BY <1>2
    <2>2. Len(Tail(s)) = Len(s) - 1
      BY <2>1
    <2>3. Len(<<>>) = 0
      OBVIOUS
    <2>4. Len(Tail(s)) = 0
      BY <1>2, <2>3, Zenon
    <2>5. Len(s) = 1
      <3>1. Len(s) - 1 = 0
        BY <2>2, <2>4, Zenon
      <3> QED
        BY <2>1, <3>1
    <2>6. Head(s) = s[1]
      BY <1>2
    <2> QED
      BY <2>5, <2>6
  <1> QED
    BY <1>1, <1>2

\* The router waits for the last request of the policy's mailbox.
LEMMA PolicyAskedNext == TypeOK /\ PolicyAsked /\ [Next]_vars => PolicyAsked'
  <1> SUFFICES ASSUME TypeOK, PolicyAsked, [Next]_vars PROVE PolicyAsked'
    OBVIOUS
  <1> USE PipelineAssumption, PolicyAssumption
  <1> DEFINE Input == [tenant : Tenants, active : Nat]
  <1>t. /\ Tenant \in Tenants
        /\ policyBox \in Seq(Input)
        /\ router \in [request : Requests, stage : Stages]
    BY DEF TypeOK, Tenant
  <1>a. ASSUME NEW n \in Nat, AskPolicy(n) PROVE PolicyAsked'
    <2> DEFINE m == [tenant |-> Tenant, active |-> n]
    <2>1. m \in Input /\ m.tenant = Tenant
      BY <1>t
    <2>2. policyBox' = Append(policyBox, m)
      BY <1>a DEF AskPolicy
    <2> HIDE DEF m, Input
    <2>3. policyBox' # <<>> /\ policyBox'[Len(policyBox')] = m
      BY <1>t, <2>1, <2>2, LastOf
    <2>4. Tenant' = Tenant
      BY <1>a, <1>t DEF AskPolicy, Enter, Tenant
    <2> QED
      BY <2>1, <2>3, <2>4 DEF PolicyAsked
  <1>e. ASSUME NEW stage \in Stages \ {"policy"}, Enter(stage) PROVE PolicyAsked'
    BY <1>e, <1>t DEF Enter, PolicyAsked
  <1>u. ASSUME UNCHANGED <<router, policyBox>> PROVE PolicyAsked'
    BY <1>u DEF PolicyAsked, Tenant
  <1>1. ASSUME NEW r \in Requests, Invoke(r) PROVE PolicyAsked'
    BY <1>1, <1>u DEF Invoke, policyVars
  <1>2. ASSUME NEW r \in Requests, Passivate(r) PROVE PolicyAsked'
    BY <1>2, <1>u DEF Passivate, policyVars
  <1>3. CASE TakeRequest
    BY <1>3 DEF TakeRequest, PolicyAsked
  <1>4. CASE LookupTool
    BY <1>4, <1>a, <1>e DEF LookupTool, Conclude, Stages
  <1>5. CASE CountTimeout
    BY <1>5, <1>a DEF CountTimeout
  <1>6. CASE PolicyTimeout \/ Admit \/ SessionTimeout \/ Execute \/ EmitAndRespond
    BY <1>6, <1>e DEF PolicyTimeout, Admit, SessionTimeout, Execute,
                      EmitAndRespond, Conclude, Stages
  <1>7. CASE ResolveCredentials
    BY <1>7, <1>e DEF ResolveCredentials, AskSession, Conclude, Stages
  <1>8. CASE HandleEvaluate
    <2>1. CASE router.stage = "policy" /\ Tail(policyBox) = <<>>
      BY <1>8, <2>1, <1>e DEF HandleEvaluate, Conclude, Stages
    <2>2. CASE router.stage = "policy" /\ Tail(policyBox) # <<>>
      <3>1. router' = router /\ policyBox' = Tail(policyBox) /\ policyBox # <<>>
        BY <1>8, <2>2 DEF HandleEvaluate
      <3> HIDE DEF Input
      <3>2. policyBox'[Len(policyBox')] = policyBox[Len(policyBox)]
        BY <1>t, <2>2, <3>1
      <3> QED
        BY <2>2, <3>1, <3>2 DEF PolicyAsked, Tenant
    <2>3. CASE router.stage # "policy"
      BY <1>8, <2>3 DEF HandleEvaluate, PolicyAsked
    <2> QED
      BY <2>1, <2>2, <2>3
  <1>9. CASE HandleCountSessions
    <2>1. Cardinality(SessionsOf(sessions, Tenant)) \in Nat
      <3>1. SessionsOf(sessions, Tenant) \in SUBSET Requests
        BY DEF SessionsOf, TypeOK
      <3> QED
        BY <3>1, FS_Subset, FS_CardinalityType
    <2> QED
      BY <1>9, <1>a, <1>u, <2>1 DEF HandleCountSessions
  <1>10. CASE HandleGetOrCreateSession
    BY <1>10, <1>e, <1>u
       DEF HandleGetOrCreateSession, Conclude, Stages, policyVars
  <1>11. CASE HandleSessionActivated \/ HandleSessionDeactivated
              \/ HandleRecordAuditEvent \/ NextMinute \/ UNCHANGED vars
    BY <1>11, <1>u DEF HandleSessionActivated, HandleSessionDeactivated,
                       HandleRecordAuditEvent, NextMinute, policyVars, vars
  <1> QED
    BY <1>1, <1>2, <1>3, <1>4, <1>5, <1>6, <1>7, <1>8, <1>9, <1>10, <1>11
       DEF Next

\* The request the policy actor answers is the one the router waits for.
LEMMA AnsweredTenant ==
    ASSUME TypeOK, PolicyAsked, HandleEvaluate,
           router.stage = "policy", Tail(policyBox) = <<>>
    PROVE  Head(policyBox).tenant = Tenant /\ Tenant \in Tenants
  <1> DEFINE Input == [tenant : Tenants, active : Nat]
  <1>1. policyBox \in Seq(Input) /\ policyBox # <<>>
    BY DEF TypeOK, HandleEvaluate
  <1> HIDE DEF Input
  <1>2. Len(policyBox) = 1 /\ Head(policyBox) = policyBox[1]
    BY <1>1, LastOf
  <1>3. Tenant \in Tenants
    BY PipelineAssumption DEF TypeOK, Tenant
  <1> QED
    BY <1>2, <1>3 DEF PolicyAsked

\* Every step preserves authorization.
LEMMA AuthorizationNext ==
    AuthorizationInv /\ [Next]_vars
        => AllowedAuthorized' /\ OnlyAuthorizedSessions'
  <1> SUFFICES ASSUME AuthorizationInv, [Next]_vars
               PROVE  AllowedAuthorized' /\ OnlyAuthorizedSessions'
    OBVIOUS
  <1> USE PipelineAssumption, PolicyAssumption
  <1>t. /\ router \in [request : Requests, stage : Stages]
        /\ supervisorBox \in Seq(SupervisorMessages)
        /\ live \subseteq Requests
        /\ GoodBox(supervisorBox)
        /\ \A r \in live : Authorized(TenantOf[r])
    BY DEF AuthorizationInv, TypeOK, OnlyAuthorizedSessions, GoodBox, GoodMessage
  <1>m. ASSUME NEW r \in Requests
        PROVE  /\ CountMessage(r) \in SupervisorMessages
               /\ ActivatedMessage(r) \in SupervisorMessages
               /\ DeactivatedMessage(r) \in SupervisorMessages
               /\ OpenMessage(r) \in SupervisorMessages
               /\ GoodMessage(CountMessage(r))
               /\ GoodMessage(ActivatedMessage(r))
               /\ GoodMessage(DeactivatedMessage(r))
               /\ Authorized(TenantOf[r]) => GoodMessage(OpenMessage(r))
    BY <1>m DEF CountMessage, ActivatedMessage, DeactivatedMessage, OpenMessage,
                SupervisorMessages, GoodMessage
  <1>o. ASSUME GoodBox(supervisorBox'), live' \subseteq live
        PROVE  OnlyAuthorizedSessions'
    BY <1>o, <1>t DEF OnlyAuthorizedSessions, GoodBox, GoodMessage
  <1>s. ASSUME UNCHANGED <<supervisorBox, live>> PROVE OnlyAuthorizedSessions'
    BY <1>s, <1>t, <1>o
  <1>a. ASSUME UNCHANGED router PROVE AllowedAuthorized'
    BY <1>a DEF AuthorizationInv, AllowedAuthorized, Tenant
  <1>e. ASSUME NEW stage, Enter(stage),
               stage \in Flight => router.stage \in Flight
        PROVE  AllowedAuthorized'
    BY <1>e, <1>t DEF Enter, AuthorizationInv, AllowedAuthorized, Tenant
  <1>1. ASSUME NEW r \in Requests, Invoke(r)
        PROVE  AllowedAuthorized' /\ OnlyAuthorizedSessions'
    BY <1>1, <1>a, <1>s DEF Invoke, supervisorVars
  <1>2. ASSUME NEW r \in Requests, Passivate(r)
        PROVE  AllowedAuthorized' /\ OnlyAuthorizedSessions'
    <2>1. GoodBox(supervisorBox') /\ live' \subseteq live
      BY <1>2, <1>t, <1>m, GoodBoxes DEF Passivate
    <2> QED
      BY <1>2, <2>1, <1>a, <1>o DEF Passivate
  <1>3. CASE TakeRequest
    BY <1>3, <1>s DEF TakeRequest, AllowedAuthorized, Flight, supervisorVars
  <1>4. CASE LookupTool
    <2>1. AllowedAuthorized'
      BY <1>4, <1>e DEF LookupTool, AskPolicy, Conclude, Flight
    <2>2. GoodBox(supervisorBox')
      BY <1>4, <1>t, <1>m, GoodBoxes DEF LookupTool
    <2> QED
      BY <1>4, <2>1, <2>2, <1>o DEF LookupTool
  <1>5. CASE CountTimeout
    BY <1>5, <1>e, <1>s DEF CountTimeout, AskPolicy, Flight, supervisorVars
  <1>6. CASE PolicyTimeout \/ Admit \/ SessionTimeout \/ Execute \/ EmitAndRespond
    BY <1>6, <1>e, <1>s DEF PolicyTimeout, Admit, SessionTimeout, Execute,
                      EmitAndRespond, Conclude, Flight, supervisorVars
  <1>7. CASE ResolveCredentials
    <2>1. AllowedAuthorized'
      BY <1>7, <1>e DEF ResolveCredentials, AskSession, Conclude, Flight
    <2>2. Authorized(TenantOf[router.request])
      BY <1>7 DEF ResolveCredentials, AuthorizationInv, AllowedAuthorized,
                  Flight, Tenant
    <2>3. GoodBox(supervisorBox')
      BY <1>7, <1>t, <1>m, <2>2, GoodBoxes DEF ResolveCredentials, AskSession
    <2> QED
      BY <1>7, <2>1, <2>3, <1>o DEF ResolveCredentials
  <1>8. CASE HandleEvaluate
    <2>1. OnlyAuthorizedSessions'
      BY <1>8, <1>s DEF HandleEvaluate, supervisorVars
    <2>2. CASE router.stage = "policy" /\ Tail(policyBox) = <<>>
      <3> DEFINE in == Head(policyBox)
      <3>1. in.tenant = Tenant /\ Tenant \in Tenants /\ policy \in PolicyState
        BY <1>8, <2>2, AnsweredTenant DEF AuthorizationInv, TypeOK
      <3>2. \/ Enter("emit")
            \/ /\ Enter("admission")
               /\ "allow" \in DecisionsFor(policy, in.tenant, in.active)
        BY <1>8, <2>2 DEF HandleEvaluate, Conclude
      <3>3. CASE Enter("emit")
        BY <2>1, <3>3, <1>e DEF Flight
      <3>4. CASE /\ Enter("admission")
                 /\ "allow" \in DecisionsFor(policy, in.tenant, in.active)
        <4>1. Authorized(Tenant)
          BY <3>1, <3>4, AllowMeans
        <4>2. Tenant' = Tenant
          BY <3>4, <1>t DEF Enter, Tenant
        <4> QED
          BY <2>1, <4>1, <4>2 DEF AllowedAuthorized
      <3> QED
        BY <3>2, <3>3, <3>4
    <2>3. CASE ~(router.stage = "policy" /\ Tail(policyBox) = <<>>)
      BY <1>8, <2>1, <2>3, <1>a DEF HandleEvaluate
    <2> QED
      BY <2>2, <2>3
  <1>9. CASE HandleCountSessions
    <2>1. AllowedAuthorized'
      BY <1>9, <1>a, <1>e DEF HandleCountSessions, AskPolicy, Flight
    <2>2. GoodBox(supervisorBox')
      BY <1>9, <1>t, GoodBoxes DEF HandleCountSessions, Receives
    <2> QED
      BY <1>9, <2>1, <2>2, <1>o DEF HandleCountSessions
  <1>10. CASE HandleGetOrCreateSession
    <2> DEFINE r == Head(supervisorBox).of
    <2>1. AllowedAuthorized'
      BY <1>10, <1>a, <1>e DEF HandleGetOrCreateSession, Conclude, Flight
    <2>2. supervisorBox # <<>> /\ r \in Requests
      <3>1. Head(supervisorBox) \in SupervisorMessages /\ supervisorBox # <<>>
        BY <1>10, <1>t DEF HandleGetOrCreateSession, Receives
      <3> QED
        BY <3>1 DEF SupervisorMessages
    <2>3. Authorized(TenantOf[r])
      <3>1. GoodMessage(supervisorBox[1])
        BY <1>t, <2>2 DEF GoodBox
      <3> QED
        BY <1>10, <1>t, <2>2, <3>1
           DEF HandleGetOrCreateSession, Receives, GoodMessage
    <2>4. GoodBox(supervisorBox')
      <3>1. GoodBox(Tail(supervisorBox))
            /\ Tail(supervisorBox) \in Seq(SupervisorMessages)
        BY <1>t, <2>2, GoodBoxes
      <3>2. \/ supervisorBox' = Tail(supervisorBox)
            \/ supervisorBox' = Append(Tail(supervisorBox), ActivatedMessage(r))
        BY <1>10 DEF HandleGetOrCreateSession
      <3> QED
        BY <3>1, <3>2, <1>m, <2>2, GoodBoxes
    <2>5. live' \subseteq live \cup {r}
      BY <1>10 DEF HandleGetOrCreateSession
    <2> QED
      BY <1>t, <2>1, <2>3, <2>4, <2>5
         DEF OnlyAuthorizedSessions, GoodBox, GoodMessage
  <1>11. CASE HandleSessionActivated \/ HandleSessionDeactivated
    <2>1. GoodBox(supervisorBox')
      BY <1>11, <1>t, GoodBoxes
         DEF HandleSessionActivated, HandleSessionDeactivated, Receives
    <2> QED
      BY <1>11, <2>1, <1>a, <1>o
         DEF HandleSessionActivated, HandleSessionDeactivated
  <1>12. CASE HandleRecordAuditEvent \/ NextMinute \/ UNCHANGED vars
    BY <1>12, <1>a, <1>s
       DEF HandleRecordAuditEvent, NextMinute, supervisorVars, vars
  <1> QED
    BY <1>1, <1>2, <1>3, <1>4, <1>5, <1>6, <1>7, <1>8, <1>9, <1>10, <1>11, <1>12
       DEF Next

\* No request of a tenant that the tool does not allow opens a session, not
\* even a request the router has given up.  The invariant that carries the
\* proof says that the answer the policy actor gives is the answer to the
\* request the router serves.
THEOREM OnlyAuthorized == Spec => []OnlyAuthorizedSessions
  <1>1. Init => AuthorizationInv
    <2>1. Init => PolicyAsked /\ AllowedAuthorized /\ OnlyAuthorizedSessions
      BY DEF Init, PolicyAsked, AllowedAuthorized, Flight, OnlyAuthorizedSessions
    <2> QED
      BY <2>1, TypeInit DEF AuthorizationInv
  <1>2. AuthorizationInv /\ [Next]_vars => AuthorizationInv'
    BY TypeNext, PolicyAskedNext, AuthorizationNext DEF AuthorizationInv
  <1>3. AuthorizationInv => OnlyAuthorizedSessions
    BY DEF AuthorizationInv
  <1> QED
    BY <1>1, <1>2, <1>3, PTL DEF Spec

----------------------------------------------------------------------------
(* The rate.                                                               *)

\* An allowed request is counted, and no count goes down.
LEMMA GrantedGrows ==
    ASSUME NEW p \in PolicyState, NEW t \in Tenants
    PROVE  LET now == CountsNow(p) after == CountsNow(AfterRequest(p, t)) IN
           /\ now \in [Tenants -> 0..CountBound]
           /\ after \in [Tenants -> 0..CountBound]
           /\ \A u \in Tenants : now[u] <= after[u]
           /\ now[t] < CountBound => after[t] = now[t] + 1
  <1>1. CountsNow(p) \in [Tenants -> 0..CountBound]
    BY PolicyAssumption DEF CountsNow, PolicyState
  <1>2. CountsNow(AfterRequest(p, t)) =
            [CountsNow(p) EXCEPT ![t] = IF @ < CountBound THEN @ + 1 ELSE @]
    BY DEF AfterRequest, CountsNow
  <1> QED
    BY <1>1, <1>2, PolicyAssumption

\* Every step preserves the account of the dispatches.
LEMMA RateNext == RateInv /\ [Next]_vars => DispatchesCounted'
  <1> SUFFICES ASSUME RateInv, [Next]_vars PROVE DispatchesCounted'
    OBVIOUS
  <1> USE PipelineAssumption, PolicyAssumption
  <1>t. /\ router \in [request : Requests, stage : Stages]
        /\ Tenant \in Tenants
        /\ policy \in PolicyState
        /\ dispatched \in [Tenants -> 0..(CountBound + 2)]
    BY DEF RateInv, TypeOK, Tenant
  <1>d. ASSUME NEW t \in Configured, RequestsPerMinute[t] > 0
        PROVE  dispatched[t] + InFlight(t) <= Granted(t) + 1
    BY <1>d DEF RateInv, DispatchesCounted
  <1>f. \A t : InFlight(t) \in {0, 1} /\ InFlight(t)' \in {0, 1}
    BY DEF InFlight
  <1>g. \A t \in Configured : Granted(t) \in Nat
    <2>1. CountsNow(policy) \in [Tenants -> 0..CountBound]
      BY <1>t DEF CountsNow, PolicyState
    <2> QED
      BY <2>1 DEF Granted
  <1>q. ASSUME UNCHANGED <<policy, dispatched>>,
               \A t \in Configured : InFlight(t)' <= InFlight(t)
        PROVE  DispatchesCounted'
    <2> SUFFICES ASSUME NEW t \in Configured, RequestsPerMinute[t] > 0
                 PROVE  dispatched'[t] + InFlight(t)' <= Granted(t)' + 1
      BY DEF DispatchesCounted
    <2>1. Granted(t)' = Granted(t) /\ dispatched'[t] = dispatched[t]
      BY <1>q DEF Granted
    <2>2. dispatched[t] \in Nat /\ InFlight(t) \in Nat /\ InFlight(t)' \in Nat
      BY <1>t, <1>f
    <2> QED
      BY <1>d, <1>g, <1>q, <2>1, <2>2
  <1>u. ASSUME UNCHANGED <<policy, dispatched, router>> PROVE DispatchesCounted'
    <2>1. \A t \in Configured : InFlight(t)' = InFlight(t)
      BY <1>u DEF InFlight, Tenant
    <2> QED
      BY <1>u, <1>q, <1>f, <2>1
  <1>e. ASSUME NEW stage, Enter(stage), UNCHANGED <<policy, dispatched>>,
               stage \in Flight => router.stage \in Flight
        PROVE  DispatchesCounted'
    <2>1. \A t \in Configured : InFlight(t)' <= InFlight(t)
      BY <1>e, <1>t DEF Enter, InFlight, Tenant
    <2> QED
      BY <1>e, <1>q, <2>1
  <1>1. ASSUME NEW r \in Requests, Invoke(r) PROVE DispatchesCounted'
    BY <1>1, <1>u DEF Invoke, policyVars, historyVars
  <1>2. ASSUME NEW r \in Requests, Passivate(r) PROVE DispatchesCounted'
    BY <1>2, <1>u DEF Passivate, policyVars, historyVars
  <1>3. CASE TakeRequest
    <2>1. \A t \in Configured : InFlight(t)' <= InFlight(t)
      BY <1>3, <1>f DEF TakeRequest, InFlight, Flight
    <2> QED
      BY <1>3, <2>1, <1>q DEF TakeRequest, policyVars, historyVars
  <1>4. CASE LookupTool
    BY <1>4, <1>e DEF LookupTool, AskPolicy, Conclude, Flight, historyVars
  <1>5. CASE CountTimeout
    BY <1>5, <1>e DEF CountTimeout, AskPolicy, Flight
  <1>6. CASE PolicyTimeout \/ Admit \/ SessionTimeout \/ Execute \/ EmitAndRespond
    BY <1>6, <1>e DEF PolicyTimeout, Admit, SessionTimeout, Execute,
                      EmitAndRespond, Conclude, Flight, policyVars, historyVars
  <1>7. CASE ResolveCredentials
    BY <1>7, <1>e DEF ResolveCredentials, AskSession, Conclude, Flight,
                      policyVars, historyVars
  <1>8. CASE HandleEvaluate
    <2> DEFINE in == Head(policyBox)
    <2>1. /\ in.tenant \in Tenants
          /\ policy' = AfterRequest(policy, in.tenant)
          /\ dispatched' = dispatched
      <3> DEFINE Input == [tenant : Tenants, active : Nat]
      <3>1. policyBox \in Seq(Input) /\ policyBox # <<>>
        BY <1>8 DEF HandleEvaluate, RateInv, TypeOK
      <3>2. \A i \in Input : i.tenant \in Tenants
        OBVIOUS
      <3> HIDE DEF Input
      <3>3. in \in Input
        BY <3>1
      <3> QED
        BY <1>8, <3>2, <3>3 DEF HandleEvaluate, historyVars
    <2> SUFFICES ASSUME NEW t \in Configured, RequestsPerMinute[t] > 0
                 PROVE  dispatched'[t] + InFlight(t)' <= Granted(t)' + 1
      BY DEF DispatchesCounted
    <2> DEFINE now == CountsNow(policy)[t]
               after == CountsNow(policy')[t]
               quota == RequestsPerMinute[t]
    <2>2. /\ now \in 0..CountBound /\ after \in 0..CountBound /\ now <= after
          /\ t = in.tenant /\ now < CountBound => after = now + 1
      BY <1>t, <2>1, GrantedGrows
    <2>3. /\ quota \in 1..CountBound
          /\ dispatched[t] \in Nat
          /\ dispatched'[t] = dispatched[t]
          /\ InFlight(t) \in {0, 1} /\ InFlight(t)' \in {0, 1}
          /\ dispatched[t] + InFlight(t) <= Granted(t) + 1
      BY <1>t, <1>f, <1>d, <2>1
    <2>4. /\ Granted(t) = IF now < quota THEN now ELSE quota
          /\ Granted(t)' = IF after < quota THEN after ELSE quota
      BY DEF Granted
    <2>5. \/ InFlight(t)' <= InFlight(t)
          \/ InFlight(t) = 0 /\ t = in.tenant /\ now < quota
      <3>1. CASE router.stage = "policy" /\ Tail(policyBox) = <<>>
        <4>1. in.tenant = Tenant /\ Tenant \in Tenants
          BY <1>8, <3>1, AnsweredTenant DEF RateInv
        <4>2. \/ Enter("emit")
              \/ /\ Enter("admission")
                 /\ "allow" \in DecisionsFor(policy, in.tenant, in.active)
          BY <1>8, <3>1 DEF HandleEvaluate, Conclude
        <4>3. CASE Enter("emit")
          BY <4>3, <1>t, <1>f DEF Enter, InFlight, Flight
        <4>4. CASE /\ Enter("admission")
                   /\ "allow" \in DecisionsFor(policy, in.tenant, in.active)
          <5>1. ~OverRateQuota(Tenant, CountsNow(policy)[Tenant])
            BY <1>t, <4>1, <4>4, AllowMeans
          <5>2. InFlight(t) = 0
            BY <3>1 DEF InFlight, Flight
          <5>3. Tenant' = Tenant
            BY <4>4, <1>t DEF Enter, Tenant
          <5>4. CASE Tenant = t
            BY <5>1, <5>2, <5>4, <4>1, <2>2, <2>3 DEF OverRateQuota
          <5>5. CASE Tenant # t
            BY <5>2, <5>3, <5>5 DEF InFlight
          <5> QED
            BY <5>4, <5>5
        <4> QED
          BY <4>2, <4>3, <4>4
      <3>2. CASE ~(router.stage = "policy" /\ Tail(policyBox) = <<>>)
        <4>1. router' = router
          BY <1>8, <3>2 DEF HandleEvaluate
        <4>2. InFlight(t)' = InFlight(t)
          BY <4>1 DEF InFlight, Tenant
        <4> QED
          BY <4>2, <2>3
      <3> QED
        BY <3>1, <3>2
    <2> HIDE DEF now, after, quota
    <2> QED
      BY <2>2, <2>3, <2>4, <2>5
  <1>9. CASE HandleCountSessions
    BY <1>9, <1>u, <1>e DEF HandleCountSessions, AskPolicy, Flight, historyVars
  <1>10. CASE HandleGetOrCreateSession
    <2>1. CASE UNCHANGED dispatched
      BY <1>10, <2>1, <1>u, <1>e
         DEF HandleGetOrCreateSession, Conclude, Flight, policyVars
    <2>2. CASE ~UNCHANGED dispatched
      <3>1. /\ router.stage = "session" /\ Enter("execute") /\ policy' = policy
            /\ dispatched' = [dispatched EXCEPT ![Tenant] =
                                  IF @ < CountBound + 2 THEN @ + 1 ELSE @]
        BY <1>10, <2>2 DEF HandleGetOrCreateSession, Awaited, policyVars
      <3> SUFFICES ASSUME NEW t \in Configured, RequestsPerMinute[t] > 0
                   PROVE  dispatched'[t] + InFlight(t)' <= Granted(t)' + 1
        BY DEF DispatchesCounted
      <3>2. /\ Granted(t)' = Granted(t) /\ Granted(t) \in Nat
            /\ InFlight(t)' = 0
            /\ dispatched[t] \in Nat /\ dispatched'[t] \in Nat
        BY <1>t, <1>g, <3>1 DEF Granted, InFlight, Enter, Flight
      <3>3. dispatched'[t] <= dispatched[t] + InFlight(t)
        BY <1>t, <3>1 DEF InFlight, Flight
      <3> QED
        BY <1>d, <1>f, <3>2, <3>3
    <2> QED
      BY <2>1, <2>2
  <1>11. CASE HandleSessionActivated \/ HandleSessionDeactivated
              \/ HandleRecordAuditEvent \/ UNCHANGED vars
    BY <1>11, <1>u DEF HandleSessionActivated, HandleSessionDeactivated,
                       HandleRecordAuditEvent, policyVars, historyVars, vars
  <1>12. CASE NextMinute
    <2> SUFFICES ASSUME NEW t \in Configured, RequestsPerMinute[t] > 0
                 PROVE  dispatched'[t] + InFlight(t)' <= Granted(t)' + 1
      BY DEF DispatchesCounted
    <2>1. dispatched'[t] = 0
      BY <1>12 DEF NextMinute
    <2>2. Granted(t)' = 0
      BY <1>12, <1>t DEF NextMinute, MinutePasses, Granted, CountsNow, PolicyState
    <2> QED
      BY <2>1, <2>2, <1>f
  <1> QED
    BY <1>1, <1>2, <1>3, <1>4, <1>5, <1>6, <1>7, <1>8, <1>9, <1>10, <1>11, <1>12
       DEF Next

\* No tenant gets more than its requests per minute and one dispatched in a
\* minute, for any quotas, however requests time out and minutes pass.
THEOREM RateLimited == Spec => []RateRespected
  <1>1. Init => RateInv
    <2>1. Init => PolicyAsked
      BY DEF Init, PolicyAsked
    <2>2. Init => DispatchesCounted
      BY PolicyAssumption
         DEF Init, DispatchesCounted, InFlight, Flight, Granted, CountsNow,
             NewPolicy
    <2> QED
      BY <2>1, <2>2, TypeInit DEF RateInv
  <1>2. RateInv /\ [Next]_vars => RateInv'
    BY TypeNext, PolicyAskedNext, RateNext DEF RateInv
  <1>3. RateInv => RateRespected
    <2> SUFFICES ASSUME RateInv, NEW t \in Configured, RequestsPerMinute[t] > 0
                 PROVE  dispatched[t] <= RequestsPerMinute[t] + 1
      BY DEF RateRespected
    <2>1. dispatched[t] \in Nat /\ RequestsPerMinute[t] \in Nat
      BY PolicyAssumption DEF RateInv, TypeOK
    <2>2. CountsNow(policy)[t] \in Nat
      BY PolicyAssumption DEF RateInv, TypeOK, CountsNow, PolicyState
    <2>3. Granted(t) \in Nat /\ Granted(t) <= RequestsPerMinute[t]
      BY <2>1, <2>2 DEF Granted
    <2>4. InFlight(t) \in Nat
      BY DEF InFlight
    <2>5. dispatched[t] + InFlight(t) <= Granted(t) + 1
      BY DEF RateInv, DispatchesCounted
    <2> QED
      BY <2>1, <2>3, <2>4, <2>5
  <1> QED
    BY <1>1, <1>2, <1>3, PTL DEF Spec

----------------------------------------------------------------------------
(* The quota of concurrent sessions.  The invariant is stated for a tenant *)
(* whose sessions were always counted.                                     *)

\* What the supervisor's mailbox says of tenant t.
OpenFor(m, t) == m.type = "GetOrCreateSession" /\ TenantOf[m.of] = t
RegFor(m, t) == m.type = "SessionActivated" /\ TenantOf[m.of] = t
NoOpen(q, t) == \A k \in 1..Len(q) : ~OpenFor(q[k], t)

\* At most one request for a session of t is queued and at most one
\* registration, and the registration is handled first.
Ordered(q, t) ==
    \A j, k \in 1..Len(q) :
        /\ j < k
        /\ OpenFor(q[j], t) \/ RegFor(q[j], t)
        /\ OpenFor(q[k], t) \/ RegFor(q[k], t)
        => RegFor(q[j], t) /\ OpenFor(q[k], t)

\* The count the router waits for is the last in the mailbox and behind the
\* requests for sessions of t; only after an abandoned one may it be in front
\* of a registration.
CountBehind(q, t, abandoned) ==
    \E c \in 1..Len(q) :
        /\ q[c].type = "CountSessions"
        /\ \A j \in 1..Len(q) :
            /\ q[j].type = "CountSessions" => j <= c
            /\ OpenFor(q[j], t) => j < c
            /\ RegFor(q[j], t) => j < c \/ abandoned

\* The router serves a request of t and is in one of the stages S.
At(t, S) == router.stage \in S /\ Tenant = t

Active(t) == Cardinality(SessionsOf(live, t))
Slack(t) == IF t \in late THEN 1 ELSE 0

\* A granted request finds room for its session, whoever waits for it.
QuotaKept(t) ==
    /\ Ordered(supervisorBox, t)
    /\ t \notin late /\ ~NoOpen(supervisorBox, t) => At(t, {"session"})
    /\ At(t, {"count"}) => CountBehind(supervisorBox, t, t \in late)
    /\ At(t, {"policy", "admission", "credentials"}) => NoOpen(supervisorBox, t)
    /\ At(t, {"policy"}) =>
           Active(t) <= policyBox[Len(policyBox)].active + Slack(t)
    /\ At(t, {"admission", "credentials"}) \/ ~NoOpen(supervisorBox, t) =>
           Active(t) < ConcurrentSessions[t] + Slack(t)
    /\ Active(t) <= ConcurrentSessions[t] + Slack(t)

\* The session of r is registered or its registration is in the queue q,
\* behind any message that would remove it.
Listed(q, ss, r) ==
    /\ r \in ss \/ \E k \in 1..Len(q) : q[k] = ActivatedMessage(r)
    /\ \A k \in 1..Len(q) : q[k] = DeactivatedMessage(r) =>
           \E j \in 1..Len(q) : k < j /\ q[j] = ActivatedMessage(r)

Covered == \A r \in live : Listed(supervisorBox, sessions, r)

QuotaInv ==
    /\ TypeOK /\ PolicyAsked /\ Covered
    /\ \A t \in Configured \ uncounted :
           ConcurrentSessions[t] > 0 => QuotaKept(t)

\* Where the messages of a mailbox are when one is added.
LEMMA BoxAppend ==
    ASSUME NEW q \in Seq(SupervisorMessages), NEW m \in SupervisorMessages
    PROVE  /\ Append(q, m) \in Seq(SupervisorMessages)
           /\ Len(q) \in Nat /\ Len(q) + 1 \in 1..Len(Append(q, m))
           /\ Len(Append(q, m)) = Len(q) + 1
           /\ Append(q, m)[Len(q) + 1] = m
           /\ \A k \in 1..Len(q) : /\ Append(q, m)[k] = q[k]
                                   /\ k \in 1..Len(Append(q, m))
                                   /\ k < Len(q) + 1
           /\ \A k \in 1..Len(Append(q, m)) : k \in 1..Len(q) \/ k = Len(q) + 1
  <1>1. /\ Append(q, m) \in Seq(SupervisorMessages)
        /\ Len(q) \in Nat
        /\ Len(Append(q, m)) = Len(q) + 1
        /\ Append(q, m)[Len(q) + 1] = m
        /\ \A k \in 1..Len(q) : Append(q, m)[k] = q[k]
    OBVIOUS
  <1> QED
    BY <1>1

\* Where they are when the first is taken.
LEMMA BoxTake ==
    ASSUME NEW q \in Seq(SupervisorMessages), q # <<>>
    PROVE  /\ Tail(q) \in Seq(SupervisorMessages)
           /\ Len(q) \in Nat /\ 1 \in 1..Len(q) /\ Head(q) = q[1]
           /\ \A k \in 1..Len(Tail(q)) : /\ k + 1 \in 1..Len(q) /\ k + 1 # 1
                                         /\ Tail(q)[k] = q[k + 1]
           /\ \A k \in 1..Len(q) : k # 1 => /\ k - 1 \in 1..Len(Tail(q))
                                            /\ Tail(q)[k - 1] = q[k]
  <1>1. /\ Tail(q) \in Seq(SupervisorMessages)
        /\ Len(q) \in Nat /\ Len(q) > 0
        /\ Head(q) = q[1]
        /\ Len(Tail(q)) = Len(q) - 1
        /\ \A k \in 1..(Len(q) - 1) : Tail(q)[k] = q[k + 1]
    OBVIOUS
  <1>2. \A k \in 1..Len(Tail(q)) : k + 1 \in 1..Len(q) /\ k + 1 # 1
                                   /\ Tail(q)[k] = q[k + 1]
    BY <1>1
  <1>3. ASSUME NEW k \in 1..Len(q), k # 1
        PROVE  k - 1 \in 1..Len(Tail(q)) /\ Tail(q)[k - 1] = q[k]
    <2>1. k - 1 \in 1..(Len(q) - 1) /\ (k - 1) + 1 = k
      BY <1>1, <1>3
    <2> QED
      BY <1>1, <2>1
  <1> QED
    BY <1>1, <1>2, <1>3

\* A message is added that does not ask for a session of t.
LEMMA PlainAppend ==
    ASSUME NEW q \in Seq(SupervisorMessages), NEW m \in SupervisorMessages,
           NEW t, ~OpenFor(m, t)
    PROVE  /\ NoOpen(q, t) => NoOpen(Append(q, m), t)
           /\ NoOpen(Append(q, m), t) => NoOpen(q, t)
           /\ Ordered(q, t) /\ ~RegFor(m, t) => Ordered(Append(q, m), t)
           /\ \A l \in BOOLEAN :
                /\ CountBehind(q, t, l)
                /\ m.type # "CountSessions"
                /\ l \/ ~RegFor(m, t)
                => CountBehind(Append(q, m), t, l)
           /\ \A l \in BOOLEAN :
                m.type = "CountSessions" => CountBehind(Append(q, m), t, l)
  <1> DEFINE r == Append(q, m)
             n == Len(q) + 1
  <1>1. /\ n \in 1..Len(r) /\ r[n] = m /\ n \in Nat
        /\ \A k \in 1..Len(q) : r[k] = q[k] /\ k \in 1..Len(r) /\ k < n
        /\ \A k \in 1..Len(r) : k \in 1..Len(q) \/ k = n
    BY BoxAppend
  <1> HIDE DEF r, n
  <1>2. NoOpen(q, t) <=> NoOpen(r, t)
    BY <1>1 DEF NoOpen
  <1>3. Ordered(q, t) /\ ~RegFor(m, t) => Ordered(r, t)
    BY <1>1 DEF Ordered
  <1>4. ASSUME NEW l \in BOOLEAN, CountBehind(q, t, l),
               m.type # "CountSessions", l \/ ~RegFor(m, t)
        PROVE  CountBehind(r, t, l)
    <2>1. PICK c \in 1..Len(q) :
              /\ q[c].type = "CountSessions"
              /\ \A j \in 1..Len(q) :
                  /\ q[j].type = "CountSessions" => j <= c
                  /\ OpenFor(q[j], t) => j < c
                  /\ RegFor(q[j], t) => j < c \/ l
      BY <1>4 DEF CountBehind
    <2>2. c \in 1..Len(r) /\ r[c].type = "CountSessions"
      BY <1>1, <2>1
    <2>3. ASSUME NEW j \in 1..Len(r)
          PROVE  /\ r[j].type = "CountSessions" => j <= c
                 /\ OpenFor(r[j], t) => j < c
                 /\ RegFor(r[j], t) => j < c \/ l
      <3>1. CASE j \in 1..Len(q)
        BY <1>1, <2>1, <3>1
      <3>2. CASE j = n
        BY <1>1, <1>4, <3>2
      <3> QED
        BY <1>1, <3>1, <3>2
    <2> QED
      BY <2>2, <2>3 DEF CountBehind
  <1>5. ASSUME NEW l \in BOOLEAN, m.type = "CountSessions"
        PROVE  CountBehind(r, t, l)
    <2>1. ASSUME NEW j \in 1..Len(r)
          PROVE  /\ j <= n
                 /\ OpenFor(r[j], t) => j < n
                 /\ RegFor(r[j], t) => j < n
      <3>1. CASE j \in 1..Len(q)
        BY <1>1, <3>1
      <3>2. CASE j = n
        BY <1>1, <1>5, <3>2 DEF RegFor
      <3> QED
        BY <1>1, <3>1, <3>2
    <2> QED
      BY <1>1, <1>5, <2>1 DEF CountBehind
  <1> QED
    BY <1>2, <1>3, <1>4, <1>5 DEF r

\* The first message is taken; the awaited count is not.
LEMMA PlainTake ==
    ASSUME NEW q \in Seq(SupervisorMessages), q # <<>>, NEW t
    PROVE  /\ NoOpen(q, t) => NoOpen(Tail(q), t)
           /\ Ordered(q, t) => Ordered(Tail(q), t)
           /\ \A l \in BOOLEAN :
                /\ CountBehind(q, t, l)
                /\ \/ q[1].type # "CountSessions"
                   \/ \E k \in 2..Len(q) : q[k].type = "CountSessions"
                => CountBehind(Tail(q), t, l)
  <1> DEFINE r == Tail(q)
  <1>1. /\ Len(q) \in Nat /\ 1 \in 1..Len(q)
        /\ \A k \in 1..Len(r) : /\ k \in Nat /\ k + 1 \in 1..Len(q)
                                /\ k + 1 # 1 /\ r[k] = q[k + 1]
        /\ \A k \in 1..Len(q) : k # 1 => k - 1 \in 1..Len(r) /\ r[k - 1] = q[k]
    BY BoxTake
  <1> HIDE DEF r
  <1>2. NoOpen(q, t) => NoOpen(r, t)
    BY <1>1 DEF NoOpen
  <1>3. ASSUME Ordered(q, t), NEW j \in 1..Len(r), NEW k \in 1..Len(r), j < k,
               OpenFor(r[j], t) \/ RegFor(r[j], t),
               OpenFor(r[k], t) \/ RegFor(r[k], t)
        PROVE  RegFor(r[j], t) /\ OpenFor(r[k], t)
    <2>1. j + 1 < k + 1
      BY <1>1, <1>3
    <2> QED
      BY <1>1, <1>3, <2>1 DEF Ordered
  <1>4. ASSUME NEW l \in BOOLEAN, CountBehind(q, t, l),
               \/ q[1].type # "CountSessions"
               \/ \E k \in 2..Len(q) : q[k].type = "CountSessions"
        PROVE  CountBehind(r, t, l)
    <2>1. PICK c \in 1..Len(q) :
              /\ q[c].type = "CountSessions"
              /\ \A j \in 1..Len(q) :
                  /\ q[j].type = "CountSessions" => j <= c
                  /\ OpenFor(q[j], t) => j < c
                  /\ RegFor(q[j], t) => j < c \/ l
      BY <1>4 DEF CountBehind
    <2>2. c # 1
      <3>1. CASE q[1].type # "CountSessions"
        BY <2>1, <3>1
      <3>2. ASSUME NEW k \in 2..Len(q), q[k].type = "CountSessions"
            PROVE  c # 1
        <4>1. k \in 1..Len(q) /\ ~(k <= 1)
          BY <1>1
        <4> QED
          BY <2>1, <3>2, <4>1
      <3> QED
        BY <1>4, <3>1, <3>2
    <2>3. c - 1 \in 1..Len(r) /\ r[c - 1].type = "CountSessions"
      BY <1>1, <2>1, <2>2
    <2>4. ASSUME NEW j \in 1..Len(r)
          PROVE  /\ r[j].type = "CountSessions" => j <= c - 1
                 /\ OpenFor(r[j], t) => j < c - 1
                 /\ RegFor(r[j], t) => j < c - 1 \/ l
      <3>1. /\ j + 1 \in 1..Len(q) /\ r[j] = q[j + 1]
            /\ j + 1 <= c => j <= c - 1
            /\ j + 1 < c => j < c - 1
        BY <1>1
      <3> QED
        BY <2>1, <3>1
    <2> QED
      BY <2>3, <2>4 DEF CountBehind
  <1> QED
    BY <1>2, <1>3, <1>4 DEF Ordered, r

\* A request for a session of t is added where there is none.
LEMMA OpenAppend ==
    ASSUME NEW q \in Seq(SupervisorMessages), NEW m \in SupervisorMessages,
           NEW t, OpenFor(m, t), NoOpen(q, t), Ordered(q, t)
    PROVE  Ordered(Append(q, m), t)
  <1> DEFINE r == Append(q, m)
             n == Len(q) + 1
  <1>1. /\ r[n] = m /\ n \in Nat
        /\ \A k \in 1..Len(q) : r[k] = q[k] /\ k < n /\ k \in Nat
        /\ \A k \in 1..Len(r) : k \in 1..Len(q) \/ k = n
    BY BoxAppend
  <1> HIDE DEF r, n
  <1>2. ASSUME NEW j \in 1..Len(r), NEW k \in 1..Len(r), j < k,
               OpenFor(r[j], t) \/ RegFor(r[j], t),
               OpenFor(r[k], t) \/ RegFor(r[k], t)
        PROVE  RegFor(r[j], t) /\ OpenFor(r[k], t)
    <2>1. j \in 1..Len(q)
      BY <1>1, <1>2
    <2>2. CASE k \in 1..Len(q)
      BY <1>1, <1>2, <2>1, <2>2 DEF Ordered
    <2>3. CASE k = n
      BY <1>1, <1>2, <2>1, <2>3 DEF NoOpen
    <2> QED
      BY <1>1, <2>2, <2>3
  <1> QED
    BY <1>2 DEF Ordered, r

\* When the request for a session of t is the first message, there is no
\* other about t, and the registration that follows is the only one.
LEMMA OpenTake ==
    ASSUME NEW q \in Seq(SupervisorMessages), q # <<>>, NEW t,
           OpenFor(q[1], t), Ordered(q, t)
    PROVE  /\ NoOpen(Tail(q), t)
           /\ \A m \in SupervisorMessages :
                  RegFor(m, t) => Ordered(Append(Tail(q), m), t)
  <1> DEFINE r == Tail(q)
  <1>1. /\ Len(q) \in Nat /\ 1 \in 1..Len(q) /\ r \in Seq(SupervisorMessages)
        /\ \A k \in 1..Len(r) : /\ k \in Nat /\ k + 1 \in 1..Len(q)
                                /\ 1 < k + 1 /\ r[k] = q[k + 1]
    BY BoxTake
  <1> HIDE DEF r
  <1>2. \A k \in 1..Len(r) : ~OpenFor(r[k], t) /\ ~RegFor(r[k], t)
    <2>1. ~RegFor(q[1], t)
      BY DEF OpenFor, RegFor
    <2> QED
      BY <1>1, <2>1 DEF Ordered
  <1>3. ASSUME NEW m \in SupervisorMessages, RegFor(m, t)
        PROVE  Ordered(Append(r, m), t)
    <2>1. /\ Append(r, m)[Len(r) + 1] = m /\ Len(r) \in Nat
          /\ \A k \in 1..Len(r) : Append(r, m)[k] = r[k]
          /\ \A k \in 1..Len(Append(r, m)) : k \in 1..Len(r) \/ k = Len(r) + 1
      BY <1>1, BoxAppend
    <2>2. \A k \in 1..Len(Append(r, m)) :
              \/ OpenFor(Append(r, m)[k], t)
              \/ RegFor(Append(r, m)[k], t)
              => k = Len(r) + 1
      BY <1>2, <2>1
    <2>3. ~(Len(r) + 1 < Len(r) + 1)
      BY <2>1
    <2> QED
      BY <2>2, <2>3 DEF Ordered
  <1> QED
    BY <1>2, <1>3 DEF NoOpen, r

----------------------------------------------------------------------------
(* What a count misses.                                                    *)

\* The four kinds of messages differ.
LEMMA MessageKinds ==
    ASSUME NEW r \in Requests
    PROVE  /\ CountMessage(r) \in SupervisorMessages
           /\ OpenMessage(r) \in SupervisorMessages
           /\ ActivatedMessage(r) \in SupervisorMessages
           /\ DeactivatedMessage(r) \in SupervisorMessages
           /\ CountMessage(r).type = "CountSessions"
           /\ OpenMessage(r).type = "GetOrCreateSession"
           /\ ActivatedMessage(r).type = "SessionActivated"
           /\ DeactivatedMessage(r).type = "SessionDeactivated"
           /\ CountMessage(r).of = r /\ OpenMessage(r).of = r
           /\ ActivatedMessage(r).of = r /\ DeactivatedMessage(r).of = r
  BY DEF CountMessage, OpenMessage, ActivatedMessage, DeactivatedMessage,
         SupervisorMessages

\* What is listed stays so when other messages come ...
LEMMA ListedAppend ==
    ASSUME NEW q \in Seq(SupervisorMessages), NEW m \in SupervisorMessages,
           NEW ss, NEW r, Listed(q, ss, r), m # DeactivatedMessage(r)
    PROVE  Listed(Append(q, m), ss, r)
  <1> DEFINE p == Append(q, m)
  <1>1. /\ p[Len(q) + 1] = m
        /\ \A k \in 1..Len(q) : p[k] = q[k] /\ k \in 1..Len(p)
        /\ \A k \in 1..Len(p) : k \in 1..Len(q) \/ k = Len(q) + 1
    BY BoxAppend
  <1> HIDE DEF p
  <1>2. r \in ss \/ \E k \in 1..Len(p) : p[k] = ActivatedMessage(r)
    BY <1>1 DEF Listed
  <1>3. ASSUME NEW k \in 1..Len(p), p[k] = DeactivatedMessage(r)
        PROVE  \E j \in 1..Len(p) : k < j /\ p[j] = ActivatedMessage(r)
    <2>1. k \in 1..Len(q) /\ q[k] = DeactivatedMessage(r)
      BY <1>1, <1>3
    <2>2. PICK j \in 1..Len(q) : k < j /\ q[j] = ActivatedMessage(r)
      BY <2>1 DEF Listed
    <2> QED
      BY <1>1, <2>2
  <1> QED
    BY <1>2, <1>3 DEF Listed, p

\* ... a session is listed when its registration is queued ...
LEMMA ListedActivated ==
    ASSUME NEW q \in Seq(SupervisorMessages), NEW ss, NEW r \in Requests
    PROVE  Listed(Append(q, ActivatedMessage(r)), ss, r)
  <1> DEFINE p == Append(q, ActivatedMessage(r))
             n == Len(q) + 1
  <1>1. /\ n \in 1..Len(p) /\ p[n] = ActivatedMessage(r)
        /\ \A k \in 1..Len(q) : k < n
        /\ \A k \in 1..Len(p) : k \in 1..Len(q) \/ k = n
    BY BoxAppend, MessageKinds
  <1>2. ActivatedMessage(r) # DeactivatedMessage(r)
    BY MessageKinds
  <1> HIDE DEF p, n
  <1> QED
    BY <1>1, <1>2 DEF Listed, p

\* ... and stays so when the first message is applied to the map.
LEMMA ListedTake ==
    ASSUME NEW q \in Seq(SupervisorMessages), q # <<>>, NEW ss, NEW tt, NEW r,
           Listed(q, ss, r),
           r \in ss /\ q[1] # DeactivatedMessage(r) => r \in tt,
           q[1] = ActivatedMessage(r) => r \in tt
    PROVE  Listed(Tail(q), tt, r)
  <1> DEFINE p == Tail(q)
  <1>1. /\ Len(q) \in Nat /\ 1 \in 1..Len(q)
        /\ \A k \in 1..Len(p) : /\ k \in Nat /\ k + 1 \in 1..Len(q)
                                /\ p[k] = q[k + 1]
        /\ \A k \in 1..Len(q) : k # 1 => k - 1 \in 1..Len(p) /\ p[k - 1] = q[k]
    BY BoxTake
  <1> HIDE DEF p
  <1>2. ASSUME NEW k \in 0..Len(q), NEW j \in 1..Len(q), k < j, j # 1,
               q[j] = ActivatedMessage(r)
        PROVE  \E i \in 1..Len(p) : k - 1 < i /\ p[i] = ActivatedMessage(r)
    <2>1. j - 1 \in 1..Len(p) /\ p[j - 1] = q[j] /\ k - 1 < j - 1
      BY <1>1, <1>2
    <2> QED
      BY <1>2, <2>1
  <1>3. r \in tt \/ \E k \in 1..Len(p) : p[k] = ActivatedMessage(r)
    <2>1. CASE q[1] = DeactivatedMessage(r)
      <3>1. PICK j \in 1..Len(q) : 1 < j /\ q[j] = ActivatedMessage(r)
        BY <1>1, <2>1 DEF Listed
      <3>2. j # 1 /\ 0 < j /\ 0 \in 0..Len(q)
        BY <1>1, <3>1
      <3> QED
        BY <1>2, <3>1, <3>2
    <2>2. ASSUME NEW j \in 1..Len(q), q[j] = ActivatedMessage(r), j # 1
          PROVE  \E k \in 1..Len(p) : p[k] = ActivatedMessage(r)
      BY <1>1, <2>2
    <2> QED
      BY <2>1, <2>2 DEF Listed
  <1>4. ASSUME NEW k \in 1..Len(p), p[k] = DeactivatedMessage(r)
        PROVE  \E j \in 1..Len(p) : k < j /\ p[j] = ActivatedMessage(r)
    <2>1. k + 1 \in 1..Len(q) /\ q[k + 1] = DeactivatedMessage(r) /\ k \in Nat
      BY <1>1, <1>4
    <2>2. PICK j \in 1..Len(q) : k + 1 < j /\ q[j] = ActivatedMessage(r)
      BY <2>1 DEF Listed
    <2>3. j # 1 /\ k + 1 \in 0..Len(q) /\ (k + 1) - 1 = k
      BY <1>1, <2>1, <2>2
    <2> QED
      BY <1>2, <2>2, <2>3
  <1> QED
    BY <1>3, <1>4 DEF Listed, p

\* A step keeps every active session listed.
LEMMA CoveredNext == TypeOK /\ Covered /\ [Next]_vars => Covered'
  <1> SUFFICES ASSUME TypeOK, Covered, [Next]_vars PROVE Covered'
    OBVIOUS
  <1> USE DEF policyVars, supervisorVars, historyVars
  <1>t. /\ supervisorBox \in Seq(SupervisorMessages)
        /\ router.request \in Requests /\ live \subseteq Requests
    BY DEF TypeOK
  <1>u. ASSUME UNCHANGED <<supervisorBox, live, sessions>> PROVE Covered'
    BY <1>u DEF Covered
  <1>a. ASSUME NEW m \in SupervisorMessages, m.type # "SessionDeactivated",
               supervisorBox' = Append(supervisorBox, m),
               UNCHANGED <<live, sessions>>
        PROVE  Covered'
    BY <1>a, <1>t, ListedAppend, MessageKinds DEF Covered
  <1>1. ASSUME NEW r \in Requests, Invoke(r) PROVE Covered'
    BY <1>1, <1>u DEF Invoke
  <1>2. ASSUME NEW r \in Requests, Passivate(r) PROVE Covered'
    <2>1. /\ live' = live \ {r} /\ sessions' = sessions
          /\ supervisorBox' = Append(supervisorBox, DeactivatedMessage(r))
      BY <1>2 DEF Passivate
    <2>2. \A s \in live' : DeactivatedMessage(r) # DeactivatedMessage(s)
      BY <1>t, <2>1, MessageKinds
    <2>3. DeactivatedMessage(r) \in SupervisorMessages
      BY MessageKinds
    <2> QED
      BY <1>t, <2>1, <2>2, <2>3, ListedAppend DEF Covered
  <1>3. CASE LookupTool
    <2>1. \/ UNCHANGED <<supervisorBox, live, sessions>>
          \/ /\ UNCHANGED <<live, sessions>>
             /\ supervisorBox' =
                    Append(supervisorBox, CountMessage(router.request))
      BY <1>3 DEF LookupTool
    <2> QED
      BY <1>a, <1>t, <1>u, <2>1, MessageKinds
  <1>4. CASE ResolveCredentials
    <2>1. \/ UNCHANGED <<supervisorBox, live, sessions>>
          \/ /\ UNCHANGED <<live, sessions>>
             /\ supervisorBox' =
                    Append(supervisorBox, OpenMessage(router.request))
      BY <1>4 DEF ResolveCredentials, AskSession
    <2> QED
      BY <1>a, <1>t, <1>u, <2>1, MessageKinds
  <1>5. ASSUME supervisorBox # <<>>
        PROVE  /\ Head(supervisorBox) = supervisorBox[1]
               /\ Head(supervisorBox).of \in Requests
               /\ Tail(supervisorBox) \in Seq(SupervisorMessages)
    <2>1. /\ Head(supervisorBox) = supervisorBox[1]
          /\ Head(supervisorBox) \in SupervisorMessages
          /\ Tail(supervisorBox) \in Seq(SupervisorMessages)
      BY <1>5, <1>t
    <2> QED
      BY <2>1 DEF SupervisorMessages
  <1>6. CASE HandleCountSessions
    <2>1. /\ supervisorBox # <<>> /\ supervisorBox' = Tail(supervisorBox)
          /\ Head(supervisorBox).type = "CountSessions"
          /\ UNCHANGED <<live, sessions>>
      BY <1>6 DEF HandleCountSessions, Receives
    <2>2. \A r \in live : Head(supervisorBox) # DeactivatedMessage(r)
                          /\ Head(supervisorBox) # ActivatedMessage(r)
      BY <1>t, <2>1, MessageKinds
    <2> QED
      BY <1>t, <1>5, <2>1, <2>2, ListedTake DEF Covered
  <1>7. CASE HandleGetOrCreateSession
    <2>1. PICK r \in Requests :
              /\ supervisorBox # <<>> /\ Head(supervisorBox).of = r
              /\ Head(supervisorBox).type = "GetOrCreateSession"
              /\ Head(supervisorBox) = supervisorBox[1]
              /\ Tail(supervisorBox) \in Seq(SupervisorMessages)
      BY <1>5, <1>7 DEF HandleGetOrCreateSession, Receives
    <2>2. \A s \in live : Listed(Tail(supervisorBox), sessions, s)
      <3>1. \A s \in live : supervisorBox[1] # DeactivatedMessage(s)
                            /\ supervisorBox[1] # ActivatedMessage(s)
        BY <1>t, <2>1, MessageKinds
      <3> QED
        BY <1>t, <2>1, <3>1, ListedTake DEF Covered
    <2>3. CASE live' = live /\ supervisorBox' = Tail(supervisorBox)
      BY <1>7, <2>2, <2>3 DEF HandleGetOrCreateSession, Covered
    <2>4. CASE /\ live' = live \cup {r}
               /\ supervisorBox' =
                      Append(Tail(supervisorBox), ActivatedMessage(r))
      <3>1. sessions' = sessions
        BY <1>7 DEF HandleGetOrCreateSession
      <3>2. /\ ActivatedMessage(r) \in SupervisorMessages
            /\ \A s \in live : ActivatedMessage(r) # DeactivatedMessage(s)
        BY <1>t, MessageKinds
      <3>3. \A s \in live : Listed(supervisorBox', sessions, s)
        BY <2>1, <2>2, <2>4, <3>2, ListedAppend
      <3>4. Listed(supervisorBox', sessions, r)
        BY <2>1, <2>4, ListedActivated
      <3> QED
        BY <2>4, <3>1, <3>3, <3>4 DEF Covered
    <2> QED
      BY <1>7, <2>1, <2>3, <2>4 DEF HandleGetOrCreateSession
  <1>8. CASE HandleSessionActivated \/ HandleSessionDeactivated
    <2>1. /\ supervisorBox # <<>> /\ supervisorBox' = Tail(supervisorBox)
          /\ live' = live
          /\ \A r \in live :
              /\ r \in sessions /\ Head(supervisorBox) # DeactivatedMessage(r)
                     => r \in sessions'
              /\ Head(supervisorBox) = ActivatedMessage(r) => r \in sessions'
      <3>1. CASE HandleSessionActivated
        BY <1>t, <3>1, MessageKinds DEF HandleSessionActivated, Receives
      <3>2. CASE HandleSessionDeactivated
        <4>1. /\ supervisorBox # <<>> /\ supervisorBox' = Tail(supervisorBox)
              /\ live' = live /\ Head(supervisorBox) \in SupervisorMessages
              /\ Head(supervisorBox).type = "SessionDeactivated"
              /\ sessions' = sessions \ {Head(supervisorBox).of}
          BY <1>t, <3>2 DEF HandleSessionDeactivated, Receives
        <4>2. Head(supervisorBox) = DeactivatedMessage(Head(supervisorBox).of)
          BY <4>1 DEF SupervisorMessages, DeactivatedMessage
        <4> QED
          BY <1>t, <4>1, <4>2, MessageKinds
      <3> QED
        BY <1>8, <3>1, <3>2
    <2> QED
      BY <1>t, <1>5, <2>1, ListedTake DEF Covered
  <1>9. CASE \/ TakeRequest \/ Admit \/ Execute \/ EmitAndRespond
             \/ CountTimeout \/ PolicyTimeout \/ SessionTimeout
             \/ HandleEvaluate \/ HandleRecordAuditEvent \/ NextMinute
             \/ UNCHANGED vars
    BY <1>9, <1>u DEF TakeRequest, Admit, Execute, EmitAndRespond,
       CountTimeout, PolicyTimeout, SessionTimeout, HandleEvaluate,
       HandleRecordAuditEvent, NextMinute, vars
  <1> QED
    BY <1>1, <1>2, <1>3, <1>4, <1>6, <1>7, <1>8, <1>9 DEF Next

\* A count that finds no request for a session of t in front of it misses at
\* most the one session of t whose registration is queued.
LEMMA CountMisses ==
    ASSUME TypeOK, Covered, NEW t, Ordered(supervisorBox, t),
           NoOpen(supervisorBox, t)
    PROVE  /\ Active(t) \in Nat
           /\ Active(t) <= Cardinality(SessionsOf(sessions, t)) + 1
           /\ (\A k \in 1..Len(supervisorBox) : ~RegFor(supervisorBox[k], t))
                => Active(t) <= Cardinality(SessionsOf(sessions, t))
  <1> DEFINE L == SessionsOf(live, t)
             S == SessionsOf(sessions, t)
             n == Len(supervisorBox)
  <1>0. /\ live \subseteq Requests /\ n \in Nat
        /\ L \subseteq Requests /\ S \subseteq Requests
    BY DEF TypeOK, SessionsOf
  <1>1. IsFiniteSet(L) /\ IsFiniteSet(S)
    BY <1>0, PipelineAssumption, FS_Subset
  <1>2. Cardinality(L) \in Nat /\ Cardinality(S) \in Nat
    BY <1>1, FS_CardinalityType
  <1>3. ASSUME NEW r \in L, r \notin S
        PROVE  \E k \in 1..n : /\ supervisorBox[k].of = r
                               /\ RegFor(supervisorBox[k], t)
    <2>1. r \in live /\ TenantOf[r] = t /\ r \notin sessions
      BY <1>3 DEF SessionsOf
    <2>2. PICK k \in 1..n : supervisorBox[k] = ActivatedMessage(r)
      BY <2>1 DEF Covered, Listed
    <2> QED
      BY <1>0, <2>1, <2>2, MessageKinds DEF RegFor
  <1>4. CASE \A k \in 1..n : ~RegFor(supervisorBox[k], t)
    <2>1. L \subseteq S
      BY <1>3, <1>4
    <2>2. Cardinality(L) <= Cardinality(S)
      BY <1>1, <2>1, FS_Subset
    <2> QED
      BY <1>2, <2>2 DEF Active
  <1>5. ASSUME NEW k \in 1..n, RegFor(supervisorBox[k], t)
        PROVE  Cardinality(L) <= Cardinality(S) + 1
    <2> DEFINE r == supervisorBox[k].of
    <2>1. \A j \in 1..n : RegFor(supervisorBox[j], t) => j = k
      <3>1. \A j \in 1..n : j < k \/ k < j \/ j = k
        BY <1>0
      <3> QED
        BY <1>5, <3>1 DEF Ordered, NoOpen
    <2>2. L \subseteq S \cup {r}
      BY <1>3, <2>1
    <2> HIDE DEF r, L, S
    <2>3. /\ IsFiniteSet(S \cup {r})
          /\ Cardinality(S \cup {r}) <= Cardinality(S) + 1
      <3>1. /\ IsFiniteSet(S \cup {r})
            /\ Cardinality(S \cup {r}) =
                   IF r \in S THEN Cardinality(S) ELSE Cardinality(S) + 1
        BY <1>1, FS_AddElement
      <3> QED
        BY <1>2, <3>1
    <2>4. /\ Cardinality(L) <= Cardinality(S \cup {r})
          /\ Cardinality(S \cup {r}) \in Nat
      BY <2>2, <2>3, FS_Subset, FS_CardinalityType
    <2> QED
      BY <1>2, <2>3, <2>4
  <1> QED
    BY <1>2, <1>4, <1>5 DEF Active

----------------------------------------------------------------------------
(* Every step keeps the quota.                                             *)

\* The active sessions of a tenant can be counted.
LEMMA ActiveNat ==
    \A t : TypeOK => IsFiniteSet(SessionsOf(live, t)) /\ Active(t) \in Nat
  <1> SUFFICES ASSUME NEW t, TypeOK
               PROVE  IsFiniteSet(SessionsOf(live, t)) /\ Active(t) \in Nat
    OBVIOUS
  <1>1. SessionsOf(live, t) \subseteq Requests
    BY DEF SessionsOf, TypeOK
  <1> QED
    BY <1>1, PipelineAssumption, FS_Subset, FS_CardinalityType DEF Active

\* Fewer sessions, and a slack that does not shrink.
LEMMA FewerActive ==
    ASSUME TypeOK, NEW t, SessionsOf(live', t) \subseteq SessionsOf(live, t),
           t \in late => t \in late'
    PROVE  /\ Active(t) \in Nat /\ Active(t)' \in Nat
           /\ Active(t)' <= Active(t)
           /\ Slack(t) \in 0..1 /\ Slack(t)' \in 0..1 /\ Slack(t) <= Slack(t)'
  <1>1. IsFiniteSet(SessionsOf(live, t)) /\ Active(t) \in Nat
    BY ActiveNat
  <1>2. /\ IsFiniteSet(SessionsOf(live', t))
        /\ Cardinality(SessionsOf(live', t)) <= Cardinality(SessionsOf(live, t))
    BY <1>1, FS_Subset
  <1>3. Cardinality(SessionsOf(live', t)) \in Nat
    BY <1>2, FS_CardinalityType
  <1>4. /\ Slack(t) \in 0..1 /\ Slack(t)' \in 0..1 /\ Slack(t) <= Slack(t)'
    BY DEF Slack
  <1> QED
    BY <1>1, <1>2, <1>3, <1>4 DEF Active, SessionsOf

\* A step that opens no session of t, asks for none and grants none.
LEMMA QuotaUntouched ==
    ASSUME TypeOK, NEW t \in Configured, QuotaKept(t),
           SessionsOf(live', t) \subseteq SessionsOf(live, t),
           t \in late => t \in late',
           Ordered(supervisorBox', t),
           NoOpen(supervisorBox, t) => NoOpen(supervisorBox', t),
           t \notin late' /\ ~NoOpen(supervisorBox', t) => At(t, {"session"})',
           At(t, {"count"})' => CountBehind(supervisorBox', t, t \in late'),
           At(t, {"policy"})' =>
               /\ At(t, {"policy"})
               /\ policyBox # <<>>
               /\ policyBox'[Len(policyBox')] = policyBox[Len(policyBox)],
           At(t, {"admission", "credentials"})' =>
               At(t, {"admission", "credentials"})
    PROVE  QuotaKept(t)'
  <1>1. /\ Active(t) \in Nat /\ Active(t)' \in Nat
        /\ Active(t)' <= Active(t)
        /\ Slack(t) \in 0..1 /\ Slack(t)' \in 0..1 /\ Slack(t) <= Slack(t)'
    BY FewerActive
  <1>2. ConcurrentSessions[t] \in Nat
    BY PolicyAssumption
  <1>3. At(t, {"policy", "admission", "credentials"})' =>
            NoOpen(supervisorBox', t)
    BY DEF QuotaKept, At
  <1>4. At(t, {"policy"})' =>
            Active(t)' <= policyBox'[Len(policyBox')].active + Slack(t)'
    <2> SUFFICES ASSUME At(t, {"policy"})'
                 PROVE  Active(t)' <=
                            policyBox'[Len(policyBox')].active + Slack(t)'
      OBVIOUS
    <2>1. policyBox[Len(policyBox)].active \in Nat
      <3> DEFINE Input == [tenant : Tenants, active : Nat]
      <3>1. policyBox \in Seq(Input) /\ policyBox # <<>>
        BY DEF TypeOK
      <3>2. \A in \in Input : in.active \in Nat
        OBVIOUS
      <3> HIDE DEF Input
      <3>3. policyBox[Len(policyBox)] \in Input
        BY <3>1
      <3> QED
        BY <3>2, <3>3
    <2>2. Active(t) <= policyBox[Len(policyBox)].active + Slack(t)
      BY DEF QuotaKept
    <2>3. policyBox'[Len(policyBox')] = policyBox[Len(policyBox)]
      OBVIOUS
    <2> QED
      BY <1>1, <2>1, <2>2, <2>3
  <1>5. At(t, {"admission", "credentials"})' \/ ~NoOpen(supervisorBox', t) =>
            Active(t)' < ConcurrentSessions[t] + Slack(t)'
    <2>1. At(t, {"admission", "credentials"})' \/ ~NoOpen(supervisorBox', t) =>
              Active(t) < ConcurrentSessions[t] + Slack(t)
      BY DEF QuotaKept
    <2> QED
      BY <1>1, <1>2, <2>1
  <1>6. Active(t)' <= ConcurrentSessions[t] + Slack(t)'
    <2>1. Active(t) <= ConcurrentSessions[t] + Slack(t)
      BY DEF QuotaKept
    <2> QED
      BY <1>1, <1>2, <2>1
  <1> QED
    BY <1>3, <1>4, <1>5, <1>6 DEF QuotaKept

\* What a handler of the supervisor's finds.
LEMMA FirstMessage ==
    ASSUME TypeOK, supervisorBox # <<>>
    PROVE  /\ Head(supervisorBox) = supervisorBox[1]
           /\ 1 \in 1..Len(supervisorBox) /\ Len(supervisorBox) \in Nat
           /\ Head(supervisorBox) \in SupervisorMessages
           /\ Head(supervisorBox).of \in Requests
           /\ Tail(supervisorBox) \in Seq(SupervisorMessages)
  <1>1. supervisorBox \in Seq(SupervisorMessages)
    BY DEF TypeOK
  <1>2. /\ Head(supervisorBox) = supervisorBox[1]
        /\ 1 \in 1..Len(supervisorBox) /\ Len(supervisorBox) \in Nat
        /\ Head(supervisorBox) \in SupervisorMessages
        /\ Tail(supervisorBox) \in Seq(SupervisorMessages)
    BY <1>1
  <1> QED
    BY <1>2 DEF SupervisorMessages

\* A message is handled that opens no session of t, and the router does not
\* go on.
LEMMA QuotaTake ==
    ASSUME TypeOK, PolicyAsked, NEW t \in Configured, QuotaKept(t),
           supervisorBox # <<>>, supervisorBox' = Tail(supervisorBox),
           ~(Head(supervisorBox).type = "CountSessions" /\ Awaited("count")),
           SessionsOf(live', t) \subseteq SessionsOf(live, t),
           UNCHANGED <<router, policyBox, late>>
    PROVE  QuotaKept(t)'
  <1>1. \A S : At(t, S)' <=> At(t, S)
    BY DEF At, Tenant
  <1>2. /\ supervisorBox \in Seq(SupervisorMessages)
        /\ Head(supervisorBox) = supervisorBox[1]
    BY FirstMessage DEF TypeOK
  <1>3. Ordered(supervisorBox', t)
        /\ (NoOpen(supervisorBox, t) => NoOpen(supervisorBox', t))
    BY <1>2, PlainTake DEF QuotaKept
  <1>4. At(t, {"count"})' => CountBehind(supervisorBox', t, t \in late')
    <2> SUFFICES ASSUME At(t, {"count"})
                 PROVE  CountBehind(supervisorBox', t, t \in late)
      BY <1>1
    <2>1. \/ supervisorBox[1].type # "CountSessions"
          \/ \E k \in 2..Len(supervisorBox) :
                 supervisorBox[k].type = "CountSessions"
      BY <1>2 DEF At, Awaited
    <2>2. CountBehind(supervisorBox, t, t \in late)
      BY DEF QuotaKept
    <2>3. (t \in late) \in BOOLEAN
      OBVIOUS
    <2> QED
      BY <1>2, <2>1, <2>2, <2>3, PlainTake
  <1>5. At(t, {"policy"})' =>
            /\ At(t, {"policy"})
            /\ policyBox # <<>>
            /\ policyBox'[Len(policyBox')] = policyBox[Len(policyBox)]
    BY <1>1 DEF At, PolicyAsked
  <1>6. t \notin late' /\ ~NoOpen(supervisorBox', t) => At(t, {"session"})'
    BY <1>1, <1>3 DEF QuotaKept
  <1> QED
    BY <1>1, <1>3, <1>4, <1>5, <1>6, QuotaUntouched

\* A request for a session of t is handled: there was room for it.
LEMMA QuotaOpen ==
    ASSUME TypeOK, NEW t \in Configured, QuotaKept(t), TypeOK',
           supervisorBox # <<>>, OpenFor(Head(supervisorBox), t),
           \/ /\ supervisorBox' = Tail(supervisorBox)
              /\ SessionsOf(live', t) = SessionsOf(live, t)
           \/ /\ supervisorBox' = Append(Tail(supervisorBox),
                     ActivatedMessage(Head(supervisorBox).of))
              /\ SessionsOf(live', t) =
                     SessionsOf(live, t) \cup {Head(supervisorBox).of},
           UNCHANGED late,
           UNCHANGED router \/ router'.stage \notin
               {"count", "policy", "admission", "credentials"}
    PROVE  QuotaKept(t)'
  <1> DEFINE r == Head(supervisorBox).of
             q == Tail(supervisorBox)
             m == ActivatedMessage(r)
  <1>0. /\ supervisorBox \in Seq(SupervisorMessages)
        /\ Head(supervisorBox) = supervisorBox[1] /\ r \in Requests
        /\ q \in Seq(SupervisorMessages)
        /\ 1 \in 1..Len(supervisorBox)
    BY FirstMessage DEF TypeOK
  <1>1. m \in SupervisorMessages /\ RegFor(m, t) /\ ~OpenFor(m, t)
        /\ m.type # "CountSessions"
    BY <1>0, MessageKinds DEF RegFor, OpenFor
  <1>2. Ordered(supervisorBox, t) /\ ~NoOpen(supervisorBox, t)
    BY <1>0 DEF QuotaKept, NoOpen
  <1>3. NoOpen(q, t) /\ Ordered(q, t) /\ Ordered(Append(q, m), t)
    BY <1>0, <1>1, <1>2, OpenTake, PlainTake
  <1> HIDE DEF m
  <1>4. NoOpen(Append(q, m), t)
    BY <1>0, <1>1, <1>3, PlainAppend
  <1>5. Ordered(supervisorBox', t) /\ NoOpen(supervisorBox', t)
    BY <1>3, <1>4 DEF m
  <1>6. ~At(t, {"policy", "admission", "credentials"})'
    BY <1>2 DEF QuotaKept, At, Tenant
  <1>7. At(t, {"count"})' => CountBehind(supervisorBox', t, t \in late')
    <2> SUFFICES ASSUME At(t, {"count"})'
                 PROVE  CountBehind(supervisorBox', t, t \in late)
      OBVIOUS
    <2>1. At(t, {"count"}) /\ t \in late
      BY <1>2 DEF QuotaKept, At, Tenant
    <2>2. CountBehind(supervisorBox, t, TRUE)
      BY <2>1 DEF QuotaKept
    <2>3. supervisorBox[1].type # "CountSessions"
      BY <1>0 DEF OpenFor
    <2>4. CountBehind(q, t, TRUE)
      BY <1>0, <2>2, <2>3, PlainTake
    <2>5. CountBehind(Append(q, m), t, TRUE)
      BY <1>0, <1>1, <2>4, PlainAppend
    <2> QED
      BY <2>1, <2>4, <2>5 DEF m
  <1>8. Active(t)' <= ConcurrentSessions[t] + Slack(t)'
    <2>1. /\ IsFiniteSet(SessionsOf(live, t)) /\ Active(t) \in Nat
          /\ ConcurrentSessions[t] \in Nat /\ Slack(t) \in 0..1
          /\ Slack(t)' = Slack(t)
      BY ActiveNat, PolicyAssumption DEF Slack
    <2>2. Active(t) < ConcurrentSessions[t] + Slack(t)
      BY <1>2 DEF QuotaKept
    <2>3. /\ Cardinality(SessionsOf(live, t) \cup {r}) \in Nat
          /\ Cardinality(SessionsOf(live, t) \cup {r}) <= Active(t) + 1
      <3>1. Cardinality(SessionsOf(live, t) \cup {r}) =
                IF r \in SessionsOf(live, t) THEN Active(t) ELSE Active(t) + 1
        BY <2>1, FS_AddElement DEF Active
      <3> QED
        BY <2>1, <3>1
    <2>4. Active(t)' \in
              {Active(t), Cardinality(SessionsOf(live, t) \cup {r})}
      BY DEF Active, SessionsOf
    <2> QED
      BY <2>1, <2>2, <2>3, <2>4
  <1>9. ~At(t, {"policy"})' /\ ~At(t, {"admission", "credentials"})'
    BY <1>6 DEF At
  <1> QED
    BY <1>5, <1>6, <1>7, <1>8, <1>9 DEF QuotaKept

LEMMA QuotaNext ==
    ASSUME TypeOK, TypeOK', PolicyAsked, Covered, [Next]_vars,
           NEW t \in Configured, ConcurrentSessions[t] > 0, t \notin uncounted',
           QuotaKept(t)
    PROVE  QuotaKept(t)'
  <1> USE DEF policyVars, supervisorVars, historyVars
  <1>t. /\ supervisorBox \in Seq(SupervisorMessages)
        /\ router.request \in Requests /\ live \subseteq Requests
        /\ router \in [request : Requests, stage : Stages]
        /\ (t \in late) \in BOOLEAN
    BY DEF TypeOK
  <1>e. ASSUME NEW stage, Enter(stage)
        PROVE  router'.stage = stage /\ Tenant' = Tenant
               /\ \A S : At(t, S)' <=> stage \in S /\ Tenant = t
    BY <1>e, <1>t DEF Enter, Tenant, At
  <1>k. /\ Ordered(supervisorBox, t)
        /\ ~NoOpen(supervisorBox, t) => t \in late \/ At(t, {"session"})
        /\ At(t, {"count"}) => CountBehind(supervisorBox, t, t \in late)
        /\ At(t, {"policy"}) => policyBox # <<>>
    BY DEF QuotaKept, PolicyAsked, At
  \* Steps that change nothing of it.
  <1>u. ASSUME UNCHANGED <<router, supervisorBox, live, policyBox, late>>
        PROVE  QuotaKept(t)'
    <2>1. \A S : At(t, S)' <=> At(t, S)
      BY <1>u DEF At, Tenant
    <2> QED
      BY <1>u, <1>k, <2>1, QuotaUntouched DEF At
  \* The router enters another stage.
  <1>c. ASSUME NEW stage \in {"emit", "idle"}, Enter(stage),
               UNCHANGED <<supervisorBox, live, policyBox>>,
               \/ UNCHANGED late /\ router.stage # "session"
               \/ late' = late \cup {Tenant}
        PROVE  QuotaKept(t)'
    <2>1. \A S : At(t, S)' <=> stage \in S /\ Tenant = t
      BY <1>c, <1>e
    <2>2. ~At(t, {"count"})' /\ ~At(t, {"policy"})'
          /\ ~At(t, {"admission", "credentials"})'
      BY <1>c, <2>1
    <2>3. t \notin late' /\ ~NoOpen(supervisorBox', t) => At(t, {"session"})'
      BY <1>c, <1>k DEF At
    <2> QED
      BY <1>c, <1>k, <2>2, <2>3, QuotaUntouched
  <1>1. ASSUME NEW r \in Requests, Invoke(r) PROVE QuotaKept(t)'
    BY <1>1, <1>u DEF Invoke
  <1>2. ASSUME NEW r \in Requests, Passivate(r) PROVE QuotaKept(t)'
    <2> DEFINE m == DeactivatedMessage(r)
    <2>1. /\ live' = live \ {r} /\ supervisorBox' = Append(supervisorBox, m)
          /\ UNCHANGED <<router, policyBox, late>>
      BY <1>2 DEF Passivate
    <2>2. m \in SupervisorMessages /\ ~OpenFor(m, t) /\ ~RegFor(m, t)
          /\ m.type # "CountSessions"
      BY MessageKinds DEF OpenFor, RegFor
    <2> HIDE DEF m
    <2>3. \A S : At(t, S)' <=> At(t, S)
      BY <2>1 DEF At, Tenant
    <2>4. /\ Ordered(supervisorBox', t)
          /\ NoOpen(supervisorBox, t) <=> NoOpen(supervisorBox', t)
          /\ At(t, {"count"}) => CountBehind(supervisorBox', t, t \in late)
      BY <1>k, <1>t, <2>1, <2>2, PlainAppend
    <2>5. SessionsOf(live', t) \subseteq SessionsOf(live, t)
      BY <2>1 DEF SessionsOf
    <2> QED
      BY <1>k, <2>1, <2>3, <2>4, <2>5, QuotaUntouched
  <1>3. CASE TakeRequest
    <2>1. /\ UNCHANGED <<supervisorBox, live, policyBox, late>>
          /\ router.stage = "idle"
          /\ router'.stage \in {"lookup", "emit", "idle"}
      BY <1>3 DEF TakeRequest
    <2>2. /\ ~At(t, {"count"})' /\ ~At(t, {"policy"})'
          /\ ~At(t, {"admission", "credentials"})'
          /\ ~At(t, {"session"})
      BY <2>1 DEF At
    <2> QED
      BY <1>k, <2>1, <2>2, QuotaUntouched
  <1>4. CASE LookupTool
    <2>1. CASE Conclude /\ UNCHANGED <<policyBox, supervisorBox>>
      BY <1>4, <1>c, <2>1 DEF LookupTool, Conclude
    <2>2. CASE /\ Enter("count")
               /\ supervisorBox' =
                      Append(supervisorBox, CountMessage(router.request))
      <3> DEFINE m == CountMessage(router.request)
      <3>1. m \in SupervisorMessages /\ ~OpenFor(m, t) /\ ~RegFor(m, t)
            /\ m.type = "CountSessions"
        BY <1>t, MessageKinds DEF OpenFor, RegFor
      <3>2. UNCHANGED <<live, late>> /\ router.stage = "lookup"
            /\ supervisorBox' = Append(supervisorBox, m)
        BY <1>4, <2>2 DEF LookupTool
      <3> HIDE DEF m
      <3>3. /\ Ordered(supervisorBox', t)
            /\ NoOpen(supervisorBox, t) <=> NoOpen(supervisorBox', t)
            /\ CountBehind(supervisorBox', t, t \in late)
        BY <1>k, <1>t, <3>1, <3>2, PlainAppend
      <3>4. /\ ~At(t, {"policy"})' /\ ~At(t, {"admission", "credentials"})'
            /\ ~At(t, {"session"})
        BY <1>e, <2>2, <3>2 DEF At
      <3> QED
        BY <1>k, <3>2, <3>3, <3>4, QuotaUntouched
    <2>3. HasConcurrencyQuotas
      BY DEF HasConcurrencyQuotas
    <2> QED
      BY <1>4, <2>1, <2>2, <2>3 DEF LookupTool
  <1>5. CASE CountTimeout
    <2>1. /\ UNCHANGED <<supervisorBox, live, late>> /\ Enter("policy")
          /\ Tenant # t /\ router.stage = "count"
      BY <1>5 DEF CountTimeout, AskPolicy
    <2>2. /\ ~At(t, {"count"})' /\ ~At(t, {"policy"})'
          /\ ~At(t, {"admission", "credentials"})'
          /\ ~At(t, {"session"})
      BY <1>e, <2>1 DEF At
    <2> QED
      BY <1>k, <2>1, <2>2, QuotaUntouched
  <1>6. CASE PolicyTimeout \/ Execute \/ EmitAndRespond \/ SessionTimeout
    BY <1>6, <1>c DEF PolicyTimeout, Execute, EmitAndRespond, SessionTimeout,
                      Conclude
  <1>7. CASE Admit
    <2>1. CASE Conclude
      BY <1>7, <1>c, <2>1 DEF Admit, Conclude
    <2>2. CASE Enter("credentials")
      <3>1. /\ UNCHANGED <<supervisorBox, live, policyBox, late>>
            /\ router.stage = "admission"
        BY <1>7 DEF Admit
      <3>2. /\ ~At(t, {"count"})' /\ ~At(t, {"policy"})'
            /\ ~At(t, {"session"})
            /\ At(t, {"admission", "credentials"})' =>
                   At(t, {"admission", "credentials"})
        BY <1>e, <2>2, <3>1 DEF At
      <3> QED
        BY <1>k, <3>1, <3>2, QuotaUntouched
    <2> QED
      BY <1>7, <2>1, <2>2 DEF Admit
  <1>8. CASE ResolveCredentials
    <2>1. CASE Conclude /\ UNCHANGED supervisorBox
      BY <1>8, <1>c, <2>1 DEF ResolveCredentials, Conclude
    <2>2. CASE AskSession
      <3> DEFINE m == OpenMessage(router.request)
      <3>1. /\ UNCHANGED <<live, policyBox, late>> /\ router.stage = "credentials"
            /\ Enter("session") /\ supervisorBox' = Append(supervisorBox, m)
        BY <1>8, <2>2 DEF ResolveCredentials, AskSession
      <3>2. m \in SupervisorMessages /\ m.type # "CountSessions"
            /\ ~RegFor(m, t) /\ (OpenFor(m, t) <=> Tenant = t)
        BY <1>t, MessageKinds DEF OpenFor, RegFor, Tenant
      <3> HIDE DEF m
      <3>3. /\ ~At(t, {"count"})' /\ ~At(t, {"policy"})'
            /\ ~At(t, {"admission", "credentials"})'
            /\ At(t, {"session"})' <=> Tenant = t
            /\ ~At(t, {"session"})
        BY <1>e, <3>1 DEF At
      <3>4. CASE Tenant # t
        <4>1. /\ Ordered(supervisorBox', t)
              /\ NoOpen(supervisorBox, t) <=> NoOpen(supervisorBox', t)
          BY <1>k, <1>t, <3>1, <3>2, <3>4, PlainAppend
        <4> QED
          BY <1>k, <3>1, <3>3, <4>1, QuotaUntouched
      <3>5. CASE Tenant = t
        <4>1. NoOpen(supervisorBox, t)
              /\ Active(t) < ConcurrentSessions[t] + Slack(t)
          BY <3>1, <3>5 DEF QuotaKept, At
        <4>2. Ordered(supervisorBox', t)
          BY <1>k, <1>t, <3>1, <3>2, <3>5, <4>1, OpenAppend
        <4>3. Active(t)' = Active(t) /\ Slack(t)' = Slack(t)
          BY <3>1 DEF Active, Slack, SessionsOf
        <4>4. ~At(t, {"policy", "admission", "credentials"})'
          BY <3>3 DEF At
        <4>5. Active(t)' <= ConcurrentSessions[t] + Slack(t)'
          BY <4>3 DEF QuotaKept
        <4> QED
          BY <3>3, <3>5, <4>1, <4>2, <4>3, <4>4, <4>5 DEF QuotaKept
      <3> QED
        BY <3>4, <3>5
    <2> QED
      BY <1>8, <2>1, <2>2 DEF ResolveCredentials
  <1>9. CASE HandleEvaluate
    <2> DEFINE Input == [tenant : Tenants, active : Nat]
    <2>0. /\ policyBox # <<>> /\ policyBox' = Tail(policyBox)
          /\ UNCHANGED <<supervisorBox, live, late>>
          /\ policyBox \in Seq(Input)
      BY <1>9 DEF HandleEvaluate, TypeOK
    <2>1. CASE router.stage = "policy" /\ Tail(policyBox) = <<>>
      <3>1. CASE Enter("admission") /\ Tenant = t
        <4>1. "allow" \in DecisionsFor(policy, Head(policyBox).tenant,
                                       Head(policyBox).active)
          <5>1. router'.stage = "admission"
            BY <1>e, <3>1
          <5>2. ~Conclude
            BY <1>e, <5>1 DEF Conclude
          <5> QED
            BY <1>9, <2>1, <5>2 DEF HandleEvaluate, DecisionsFor
        <4>2. Head(policyBox).tenant = t
          BY <1>9, <2>1, <3>1, AnsweredTenant
        <4>3. ~OverSessionQuota(t, Head(policyBox).active)
          BY <4>1, <4>2 DEF DecisionsFor, Evaluate
        <4>4. Len(policyBox) = 1 /\ Head(policyBox) = policyBox[1]
              /\ Head(policyBox) \in Input
          <5> HIDE DEF Input
          <5> QED
            BY <2>0, <2>1, LastOf
        <4>5. Head(policyBox).active \in Nat /\ ConcurrentSessions[t] \in Nat
          BY <4>4, PolicyAssumption
        <4>6. Head(policyBox).active < ConcurrentSessions[t]
          BY <4>3, <4>5 DEF OverSessionQuota
        <4>7. Active(t) <= Head(policyBox).active + Slack(t)
              /\ NoOpen(supervisorBox, t)
          BY <2>1, <3>1, <4>4 DEF QuotaKept, At
        <4>8. Active(t) \in Nat /\ Slack(t) \in 0..1
          BY ActiveNat DEF Slack
        <4>9. Active(t) < ConcurrentSessions[t] + Slack(t)
          BY <4>5, <4>6, <4>7, <4>8
        <4>10. Active(t)' = Active(t) /\ Slack(t)' = Slack(t)
          BY <2>0 DEF Active, Slack, SessionsOf
        <4>11. ~At(t, {"count"})' /\ ~At(t, {"policy"})'
          BY <1>e, <3>1
        <4>12. Active(t)' <= ConcurrentSessions[t] + Slack(t)'
          BY <4>10 DEF QuotaKept
        <4> QED
          BY <1>k, <2>0, <4>7, <4>9, <4>10, <4>11, <4>12 DEF QuotaKept
      <3>2. CASE Enter("admission") /\ Tenant # t
        <4>1. /\ ~At(t, {"count"})' /\ ~At(t, {"policy"})'
              /\ ~At(t, {"admission", "credentials"})' /\ ~At(t, {"session"})
          BY <1>e, <3>2 DEF At
        <4> QED
          BY <1>k, <2>0, <4>1, QuotaUntouched
      <3>3. CASE Conclude
        <4>1. /\ ~At(t, {"count"})' /\ ~At(t, {"policy"})'
              /\ ~At(t, {"admission", "credentials"})' /\ ~At(t, {"session"})
          BY <1>e, <2>1, <3>3 DEF At, Conclude
        <4> QED
          BY <1>k, <2>0, <4>1, QuotaUntouched
      <3> QED
        BY <1>9, <2>1, <3>1, <3>2, <3>3 DEF HandleEvaluate
    <2>2. CASE router.stage = "policy" /\ Tail(policyBox) # <<>>
      <3>1. router' = router
        BY <1>9, <2>2 DEF HandleEvaluate
      <3> HIDE DEF Input
      <3>2. policyBox'[Len(policyBox')] = policyBox[Len(policyBox)]
        BY <2>0, <2>2
      <3>3. \A S : At(t, S)' <=> At(t, S)
        BY <3>1 DEF At, Tenant
      <3> QED
        BY <1>k, <2>0, <3>2, <3>3, QuotaUntouched
    <2>3. CASE router.stage # "policy"
      <3>1. router' = router
        BY <1>9, <2>3 DEF HandleEvaluate
      <3>2. \A S : At(t, S)' <=> At(t, S)
        BY <3>1 DEF At, Tenant
      <3>3. ~At(t, {"policy"})
        BY <2>3 DEF At
      <3> QED
        BY <1>k, <2>0, <3>2, <3>3, QuotaUntouched
    <2> QED
      BY <2>1, <2>2, <2>3
  <1>10. CASE HandleCountSessions
    <2>0. /\ supervisorBox # <<>> /\ supervisorBox' = Tail(supervisorBox)
          /\ Head(supervisorBox).type = "CountSessions"
          /\ UNCHANGED <<live, late>>
      BY <1>10 DEF HandleCountSessions, Receives
    <2>1. CASE ~Awaited("count")
      BY <1>10, <2>0, <2>1, QuotaTake DEF HandleCountSessions
    <2>2. CASE Awaited("count") /\ Tenant = t
      <3> DEFINE n == Cardinality(SessionsOf(sessions, Tenant))
      <3>1. Enter("policy") /\ router.stage = "count"
            /\ policyBox' = Append(policyBox, [tenant |-> Tenant, active |-> n])
        BY <1>10, <2>2 DEF HandleCountSessions, AskPolicy, Awaited
      <3>2. At(t, {"count"})
        BY <2>2, <3>1 DEF At
      <3>3. PICK c \in 1..Len(supervisorBox) :
                /\ supervisorBox[c].type = "CountSessions"
                /\ \A j \in 1..Len(supervisorBox) :
                    /\ OpenFor(supervisorBox[j], t) => j < c
                    /\ RegFor(supervisorBox[j], t) => j < c \/ t \in late
        BY <1>k, <3>2 DEF CountBehind
      <3>4. c = 1
        <4>1. c \in 2..Len(supervisorBox) \/ c = 1
          BY <2>0, FirstMessage
        <4> QED
          BY <2>0, <2>2, <3>3, <4>1 DEF Awaited
      <3>5. /\ NoOpen(supervisorBox, t)
            /\ t \notin late => \A k \in 1..Len(supervisorBox) :
                                    ~RegFor(supervisorBox[k], t)
        BY <3>3, <3>4 DEF NoOpen
      <3>6. n \in Nat
        <4>1. SessionsOf(sessions, Tenant) \subseteq Requests
          BY DEF SessionsOf, TypeOK
        <4> QED
          BY <4>1, PipelineAssumption, FS_Subset, FS_CardinalityType
      <3>7. Active(t) <= n + Slack(t)
        <4>1. /\ Active(t) \in Nat /\ Active(t) <= n + 1
              /\ t \notin late => Active(t) <= n
          BY <1>k, <2>2, <3>5, CountMisses
        <4> QED
          BY <3>6, <4>1 DEF Slack
      <3>8. policyBox'[Len(policyBox')].active = n
        <4> DEFINE Input == [tenant : Tenants, active : Nat]
                   e == [tenant |-> Tenant, active |-> n]
        <4>1. policyBox \in Seq(Input) /\ e \in Input /\ e.active = n
          BY <1>t, <3>6, PipelineAssumption DEF TypeOK, Tenant
        <4> HIDE DEF Input, e
        <4>2. policyBox' = Append(policyBox, e)
          BY <3>1 DEF e
        <4> QED
          BY <4>1, <4>2, LastOf
      <3> HIDE DEF n
      <3>9. Ordered(supervisorBox', t) /\ NoOpen(supervisorBox', t)
        BY <1>k, <1>t, <2>0, <3>5, PlainTake
      <3>10. Active(t)' = Active(t) /\ Slack(t)' = Slack(t)
        BY <2>0 DEF Active, Slack, SessionsOf
      <3>11. ~At(t, {"count"})' /\ ~At(t, {"admission", "credentials"})'
        BY <1>e, <3>1
      <3>12. Active(t)' <= ConcurrentSessions[t] + Slack(t)'
        BY <3>10 DEF QuotaKept
      <3> QED
        BY <3>7, <3>8, <3>9, <3>10, <3>11, <3>12 DEF QuotaKept
    <2>3. CASE Awaited("count") /\ Tenant # t
      <3>1. Enter("policy") /\ router.stage = "count"
        BY <1>10, <2>3 DEF HandleCountSessions, AskPolicy, Awaited
      <3>2. /\ ~At(t, {"count"})' /\ ~At(t, {"policy"})'
            /\ ~At(t, {"admission", "credentials"})' /\ ~At(t, {"session"})
        BY <1>e, <2>3, <3>1 DEF At
      <3>3. Ordered(supervisorBox', t)
            /\ (NoOpen(supervisorBox, t) => NoOpen(supervisorBox', t))
        BY <1>k, <1>t, <2>0, PlainTake
      <3> QED
        BY <1>k, <2>0, <3>2, <3>3, QuotaUntouched
    <2> QED
      BY <2>1, <2>2, <2>3
  <1>11. CASE HandleGetOrCreateSession
    <2> DEFINE r == Head(supervisorBox).of
               q == Tail(supervisorBox)
               m == ActivatedMessage(r)
    <2>0. /\ supervisorBox # <<>>
          /\ Head(supervisorBox).type = "GetOrCreateSession"
          /\ UNCHANGED <<late, policyBox>>
          /\ Head(supervisorBox) = supervisorBox[1]
          /\ r \in Requests /\ q \in Seq(SupervisorMessages)
          /\ Len(supervisorBox) \in Nat
      BY <1>11, FirstMessage DEF HandleGetOrCreateSession, Receives
    <2>1. \/ live' = live /\ supervisorBox' = q
          \/ live' = live \cup {r} /\ supervisorBox' = Append(q, m)
      BY <1>11 DEF HandleGetOrCreateSession
    <2>2. \/ UNCHANGED router
          \/ Awaited("session") /\ router'.stage \in {"execute", "emit"}
      BY <1>11, <1>e DEF HandleGetOrCreateSession, Conclude
    <2>3. CASE TenantOf[r] = t
      <3>1. OpenFor(Head(supervisorBox), t)
        BY <2>0, <2>3 DEF OpenFor
      <3>2. /\ live' = live => SessionsOf(live', t) = SessionsOf(live, t)
            /\ live' = live \cup {r} =>
                   SessionsOf(live', t) = SessionsOf(live, t) \cup {r}
        BY <2>3 DEF SessionsOf
      <3> QED
        BY <2>0, <2>1, <2>2, <3>1, <3>2, QuotaOpen
    <2>4. CASE TenantOf[r] # t
      <3>1. SessionsOf(live', t) \subseteq SessionsOf(live, t)
        BY <2>1, <2>4 DEF SessionsOf
      <3>2. m \in SupervisorMessages /\ ~OpenFor(m, t) /\ ~RegFor(m, t)
            /\ m.type # "CountSessions"
        BY <2>0, <2>4, MessageKinds DEF OpenFor, RegFor
      <3> HIDE DEF m
      <3>3. supervisorBox[1].type # "CountSessions"
        BY <2>0
      <3>4. /\ Ordered(q, t) /\ (NoOpen(supervisorBox, t) => NoOpen(q, t))
            /\ At(t, {"count"}) => CountBehind(q, t, t \in late)
        BY <1>k, <1>t, <2>0, <3>3, PlainTake
      <3>5. /\ Ordered(Append(q, m), t)
            /\ NoOpen(q, t) <=> NoOpen(Append(q, m), t)
            /\ At(t, {"count"}) => CountBehind(Append(q, m), t, t \in late)
        BY <1>t, <2>0, <3>2, <3>4, PlainAppend
      <3>6. /\ Ordered(supervisorBox', t)
            /\ NoOpen(supervisorBox, t) => NoOpen(supervisorBox', t)
            /\ NoOpen(q, t) => NoOpen(supervisorBox', t)
            /\ At(t, {"count"}) => CountBehind(supervisorBox', t, t \in late)
        BY <2>1, <3>4, <3>5
      <3>7. CASE UNCHANGED router
        <4>1. \A S : At(t, S)' <=> At(t, S)
          BY <3>7 DEF At, Tenant
        <4> QED
          BY <1>k, <2>0, <3>1, <3>6, <4>1, QuotaUntouched
      <3>8. CASE Awaited("session") /\ router'.stage \in {"execute", "emit"}
        <4>1. NoOpen(q, t)
          <5> SUFFICES ASSUME NEW k \in 1..Len(q) PROVE ~OpenFor(q[k], t)
            BY DEF NoOpen
          <5>1. k + 1 \in 2..Len(supervisorBox) /\ q[k] = supervisorBox[k + 1]
            BY <1>t, <2>0, BoxTake
          <5> QED
            BY <2>0, <3>8, <5>1 DEF Awaited, OpenFor
        <4>2. /\ ~At(t, {"count"})' /\ ~At(t, {"policy"})'
              /\ ~At(t, {"admission", "credentials"})'
          BY <3>8 DEF At
        <4> QED
          BY <2>0, <3>1, <3>6, <4>1, <4>2, QuotaUntouched
      <3> QED
        BY <2>2, <3>7, <3>8
    <2> QED
      BY <2>3, <2>4
  <1>12. CASE HandleSessionActivated \/ HandleSessionDeactivated
    <2>1. /\ supervisorBox # <<>> /\ supervisorBox' = Tail(supervisorBox)
          /\ Head(supervisorBox).type # "CountSessions"
          /\ UNCHANGED <<live, router, policyBox, late>>
      BY <1>12 DEF HandleSessionActivated, HandleSessionDeactivated, Receives
    <2> QED
      BY <2>1, QuotaTake
  <1>13. CASE HandleRecordAuditEvent \/ NextMinute \/ UNCHANGED vars
    BY <1>13, <1>u DEF HandleRecordAuditEvent, NextMinute, vars
  <1> QED
    BY <1>1, <1>2, <1>3, <1>4, <1>5, <1>6, <1>7, <1>8, <1>9, <1>10, <1>11,
       <1>12, <1>13 DEF Next

LEMMA QuotaInit == Init => QuotaInv
  <1> SUFFICES ASSUME Init PROVE QuotaInv
    OBVIOUS
  <1>1. TypeOK /\ PolicyAsked /\ Covered
    BY TypeInit DEF Init, PolicyAsked, Covered
  <1>2. ASSUME NEW t \in Configured, ConcurrentSessions[t] > 0
        PROVE  QuotaKept(t)
    <2>1. Len(supervisorBox) = 0 /\ router.stage = "idle" /\ late = {}
      BY DEF Init
    <2>2. SessionsOf(live, t) = {}
      BY DEF Init, SessionsOf
    <2>3. Active(t) = 0 /\ Slack(t) = 0 /\ ConcurrentSessions[t] \in Nat
      BY <2>1, <2>2, FS_EmptySet, PolicyAssumption DEF Active, Slack
    <2>4. NoOpen(supervisorBox, t) /\ Ordered(supervisorBox, t)
      BY <2>1 DEF NoOpen, Ordered
    <2> QED
      BY <2>1, <2>3, <2>4 DEF QuotaKept, At
  <1> QED
    BY <1>1, <1>2 DEF QuotaInv

\* The quota of concurrent sessions is exact for a tenant whose sessions can
\* be counted (router.go, evaluatePolicy; policy/evaluator.go, checkQuotas),
\* and exceeded by at most one once a session request was abandoned: however
\* many requests, timeouts, late answers and passivations there are.
THEOREM QuotaExact == Spec => []SessionQuotaRespected
  <1>1. QuotaInv /\ [Next]_vars => QuotaInv'
    <2> SUFFICES ASSUME QuotaInv, [Next]_vars PROVE QuotaInv'
      OBVIOUS
    <2>1. TypeOK /\ PolicyAsked /\ Covered
      BY DEF QuotaInv
    <2>2. TypeOK' /\ PolicyAsked' /\ Covered'
      BY <2>1, TypeNext, PolicyAskedNext, CoveredNext
    <2>3. uncounted \subseteq uncounted'
      BY DEF Next, vars, historyVars, Invoke, Passivate, TakeRequest,
         LookupTool, Admit, ResolveCredentials, Execute, EmitAndRespond,
         CountTimeout, PolicyTimeout, SessionTimeout, HandleEvaluate,
         HandleCountSessions, HandleGetOrCreateSession,
         HandleSessionActivated, HandleSessionDeactivated,
         HandleRecordAuditEvent, NextMinute
    <2>4. ASSUME NEW t \in Configured \ uncounted', ConcurrentSessions[t] > 0
          PROVE  QuotaKept(t)'
      <3>1. QuotaKept(t)
        BY <2>3, <2>4 DEF QuotaInv
      <3> QED
        BY <2>1, <2>2, <2>4, <3>1, QuotaNext
    <2> QED
      BY <2>2, <2>4 DEF QuotaInv
  <1>2. QuotaInv => SessionQuotaRespected
    BY DEF QuotaInv, QuotaKept, SessionQuotaRespected, Active, Slack
  <1> QED
    BY <1>1, <1>2, QuotaInit, PTL DEF Spec
====
