---- MODULE ToolSupervisor_proofs ----
(***************************************************************************)
(* Proofs about the tool supervisor, for any number of invocations,        *)
(* sessions and routers, any circuit configuration, and with every fault   *)
(* of the model: lost and late answers, respawns, health probes, failed    *)
(* activations and missing credentials.                                    *)
(***************************************************************************)
EXTENDS ToolSupervisor, FiniteSetTheorems, WellFoundedInduction, TLAPS

----------------------------------------------------------------------------
(* The breaker.  Every operation of mcp.CircuitBreaker takes a well-formed *)
(* breaker to a well-formed breaker, for every configuration; the proofs   *)
(* below cite these lemmas instead of its definition.                      *)

\* sanitizeCircuitConfig yields parameters the breaker can work with,
\* whatever was configured.
LEMMA SanitizedConfig ==
    /\ Threshold \in Nat /\ Threshold > 0
    /\ Cooldown \in Nat /\ Cooldown > 0
    /\ ProbeLimit \in Nat /\ ProbeLimit > 0
BY CircuitConfigAssumption
   DEF Threshold, Cooldown, ProbeLimit, DefaultCircuitFailureThreshold,
       DefaultCircuitOpenDuration, DefaultCircuitHalfOpenMaxRequests

\* The states are three different ones.
LEMMA DistinctStates ==
    /\ CircuitClosed \in CircuitStates
    /\ CircuitOpen \in CircuitStates
    /\ CircuitHalfOpen \in CircuitStates
    /\ CircuitClosed # CircuitOpen
    /\ CircuitClosed # CircuitHalfOpen
    /\ CircuitOpen # CircuitHalfOpen
    /\ \A s \in CircuitStates :
           s \in {CircuitClosed, CircuitOpen, CircuitHalfOpen}
BY DEF CircuitStates, CircuitClosed, CircuitOpen, CircuitHalfOpen

\* What the fields of a breaker are.
LEMMA BreakerFields ==
    ASSUME NEW b \in Breakers
    PROVE  /\ b.state \in CircuitStates
           /\ b.failureCount \in Nat
           /\ b.openFor \in 0..Cooldown
           /\ b.halfOpenInFlight \in Nat
           /\ b = [state |-> b.state, failureCount |-> b.failureCount,
                   openFor |-> b.openFor,
                   halfOpenInFlight |-> b.halfOpenInFlight]
BY DEF Breakers

\* NewCircuitBreaker is well formed.
LEMMA NewBreakerOK ==
    NewCircuitBreaker \in Breakers /\ WellFormed(NewCircuitBreaker)
BY SanitizedConfig, DistinctStates
   DEF NewCircuitBreaker, Breakers, WellFormed

\* transitionTo yields a breaker with no slots taken; its failure count is
\* the old one, or zero when the circuit closes.
LEMMA TransitionToOK ==
    ASSUME NEW b \in Breakers, NEW target \in CircuitStates
    PROVE  /\ TransitionTo(b, target) \in Breakers
           /\ TransitionTo(b, target).state = target
           /\ TransitionTo(b, target).openFor = 0
           /\ TransitionTo(b, target).halfOpenInFlight = 0
           /\ TransitionTo(b, target).failureCount =
                  IF target = CircuitClosed THEN 0 ELSE b.failureCount
BY BreakerFields, SanitizedConfig DEF TransitionTo, Breakers

\* maybeHalfOpen half-opens an open circuit whose time has come, and changes
\* nothing else.
LEMMA MaybeHalfOpenOK ==
    ASSUME NEW b \in Breakers, WellFormed(b)
    PROVE  /\ MaybeHalfOpen(b) \in Breakers
           /\ WellFormed(MaybeHalfOpen(b))
           /\ \/ MaybeHalfOpen(b) = b
              \/ /\ b.state = CircuitOpen
                 /\ b.openFor >= Cooldown
                 /\ MaybeHalfOpen(b).state = CircuitHalfOpen
                 /\ MaybeHalfOpen(b).openFor = 0
                 /\ MaybeHalfOpen(b).halfOpenInFlight = 0
<1>1. CASE b.state = CircuitOpen /\ b.openFor >= Cooldown
  <2>1. MaybeHalfOpen(b) = TransitionTo(b, CircuitHalfOpen)
    BY <1>1 DEF MaybeHalfOpen
  <2> QED
    BY <1>1, <2>1, TransitionToOK, DistinctStates, SanitizedConfig
       DEF WellFormed
<1>2. CASE ~(b.state = CircuitOpen /\ b.openFor >= Cooldown)
  BY <1>2 DEF MaybeHalfOpen
<1> QED BY <1>1, <1>2

\* Acquire keeps the breaker well formed, and an accepted caller of a circuit
\* that is half-open afterwards has taken a slot.
LEMMA AcquireOK ==
    ASSUME NEW b \in Breakers, WellFormed(b)
    PROVE  /\ Acquire(b) \in Breakers
           /\ WellFormed(Acquire(b))
           /\ Acquire(b).state = MaybeHalfOpen(b).state
           /\ Acquire(b).openFor = MaybeHalfOpen(b).openFor
           /\ Acquire(b).halfOpenInFlight >= MaybeHalfOpen(b).halfOpenInFlight
           /\ AcquireAccepts(b) /\ Acquire(b).state = CircuitHalfOpen
                => /\ MaybeHalfOpen(b).halfOpenInFlight < ProbeLimit
                   /\ Acquire(b).halfOpenInFlight =
                        MaybeHalfOpen(b).halfOpenInFlight + 1
           /\ AcquireAccepts(b) => Acquire(b).state # CircuitOpen
<1> DEFINE c == MaybeHalfOpen(b)
<1>1. c \in Breakers /\ WellFormed(c)
  BY MaybeHalfOpenOK
<1>2. CASE c.state = CircuitHalfOpen /\ c.halfOpenInFlight < ProbeLimit
  <2>1. Acquire(b) = [c EXCEPT !.halfOpenInFlight = @ + 1]
    BY <1>2 DEF Acquire
  <2> HIDE DEF c
  <2>2. /\ Acquire(b) \in Breakers
        /\ Acquire(b).state = c.state
        /\ Acquire(b).openFor = c.openFor
        /\ Acquire(b).failureCount = c.failureCount
        /\ Acquire(b).halfOpenInFlight = c.halfOpenInFlight + 1
    BY <1>1, <2>1 DEF Breakers
  <2>3. WellFormed(Acquire(b))
    BY <1>1, <1>2, <2>2, BreakerFields, SanitizedConfig, DistinctStates
       DEF WellFormed
  <2> QED
    BY <1>1, <1>2, <2>2, <2>3, BreakerFields, DistinctStates
       DEF AcquireAccepts, c
<1>3. CASE ~(c.state = CircuitHalfOpen /\ c.halfOpenInFlight < ProbeLimit)
  <2>1. Acquire(b) = c
    BY <1>3 DEF Acquire
  <2> QED
    BY <1>1, <1>3, <2>1, BreakerFields, DistinctStates DEF AcquireAccepts
<1> QED BY <1>2, <1>3

\* OnSuccess keeps the breaker well formed, closes a half-open circuit and
\* leaves an open one alone.
LEMMA OnSuccessOK ==
    ASSUME NEW b \in Breakers, WellFormed(b)
    PROVE  /\ OnSuccess(b) \in Breakers
           /\ WellFormed(OnSuccess(b))
           /\ b.state = CircuitOpen => OnSuccess(b) = b
           /\ b.state # CircuitOpen =>
                /\ OnSuccess(b).state = CircuitClosed
                /\ OnSuccess(b).openFor \in {0, b.openFor}
           /\ b.state = CircuitHalfOpen => OnSuccess(b).openFor = 0
           /\ b.state = CircuitClosed => OnSuccess(b).openFor = b.openFor
<1>1. CASE b.state = CircuitHalfOpen
  <2>1. OnSuccess(b) = TransitionTo(b, CircuitClosed)
    BY <1>1, DistinctStates DEF OnSuccess
  <2> QED
    BY <1>1, <2>1, TransitionToOK, DistinctStates, SanitizedConfig
       DEF WellFormed
<1>2. CASE b.state = CircuitClosed
  <2>1. OnSuccess(b) = [b EXCEPT !.failureCount = 0]
    BY <1>2, DistinctStates DEF OnSuccess
  <2>2. /\ OnSuccess(b) \in Breakers
        /\ OnSuccess(b).state = b.state
        /\ OnSuccess(b).openFor = b.openFor
        /\ OnSuccess(b).failureCount = 0
        /\ OnSuccess(b).halfOpenInFlight = b.halfOpenInFlight
    BY <2>1 DEF Breakers
  <2> QED
    BY <1>2, <2>2, DistinctStates, SanitizedConfig DEF WellFormed
<1>3. CASE b.state = CircuitOpen
  BY <1>3, DistinctStates DEF OnSuccess
<1> QED BY <1>1, <1>2, <1>3, BreakerFields, DistinctStates

\* OnFailure keeps the breaker well formed: the circuit opens at the
\* threshold, and a half-open one opens at once.
LEMMA OnFailureOK ==
    ASSUME NEW b \in Breakers, WellFormed(b)
    PROVE  /\ OnFailure(b) \in Breakers
           /\ WellFormed(OnFailure(b))
           /\ b.state = CircuitOpen => OnFailure(b) = b
           /\ b.state = CircuitHalfOpen =>
                OnFailure(b).state = CircuitOpen /\ OnFailure(b).openFor = 0
           /\ b.state = CircuitClosed =>
                \/ /\ OnFailure(b).state = CircuitClosed
                   /\ OnFailure(b).openFor = b.openFor
                \/ OnFailure(b).state = CircuitOpen /\ OnFailure(b).openFor = 0
<1> DEFINE counted == [b EXCEPT !.failureCount = @ + 1]
<1>1. CASE b.state = CircuitHalfOpen
  <2>1. OnFailure(b) = TransitionTo(b, CircuitOpen)
    BY <1>1, DistinctStates DEF OnFailure
  <2> QED
    BY <1>1, <2>1, TransitionToOK, DistinctStates, SanitizedConfig
       DEF WellFormed
<1>2. CASE b.state = CircuitClosed
  <2>1. OnFailure(b) = IF counted.failureCount >= Threshold
                       THEN TransitionTo(counted, CircuitOpen) ELSE counted
    BY <1>2, DistinctStates DEF OnFailure
  <2>2. /\ counted \in Breakers
        /\ counted.state = b.state
        /\ counted.openFor = b.openFor
        /\ counted.failureCount = b.failureCount + 1
        /\ counted.halfOpenInFlight = b.halfOpenInFlight
    BY DEF Breakers
  <2> HIDE DEF counted
  <2>3. CASE counted.failureCount >= Threshold
    <3>1. counted.failureCount = Threshold
      BY <1>2, <2>2, <2>3, BreakerFields, SanitizedConfig DEF WellFormed
    <3>2. OnFailure(b) = TransitionTo(counted, CircuitOpen)
      BY <2>1, <2>3
    <3> DEFINE opened == TransitionTo(counted, CircuitOpen)
    <3>3. /\ opened \in Breakers
          /\ opened.state = CircuitOpen /\ opened.openFor = 0
          /\ opened.halfOpenInFlight = 0
          /\ opened.failureCount = Threshold
      BY <2>2, <3>1, TransitionToOK, DistinctStates
    <3> HIDE DEF opened
    <3>4. WellFormed(opened)
      BY <3>3, DistinctStates, SanitizedConfig DEF WellFormed
    <3> QED
      BY <1>2, <3>2, <3>3, <3>4, DistinctStates DEF opened
  <2>4. CASE ~(counted.failureCount >= Threshold)
    BY <1>2, <2>1, <2>2, <2>4, BreakerFields, DistinctStates,
       SanitizedConfig DEF WellFormed
  <2> QED BY <2>3, <2>4
<1>3. CASE b.state = CircuitOpen
  BY <1>3, DistinctStates DEF OnFailure
<1> QED BY <1>1, <1>2, <1>3, BreakerFields, DistinctStates

\* Reset leaves a closed circuit with no failures and no slots.
LEMMA ResetOK ==
    ASSUME NEW b \in Breakers, WellFormed(b)
    PROVE  /\ Reset(b) \in Breakers
           /\ WellFormed(Reset(b))
           /\ Reset(b).state = CircuitClosed
           /\ b.state = CircuitClosed => Reset(b).openFor = b.openFor
           /\ b.state # CircuitClosed => Reset(b).openFor = 0
<1>1. CASE b.state = CircuitClosed
  <2>1. Reset(b) = [b EXCEPT !.failureCount = 0, !.halfOpenInFlight = 0]
    BY <1>1 DEF Reset
  <2>2. /\ Reset(b) \in Breakers
        /\ Reset(b).state = b.state
        /\ Reset(b).openFor = b.openFor
        /\ Reset(b).failureCount = 0
        /\ Reset(b).halfOpenInFlight = 0
    <3> DEFINE cleared == [b EXCEPT !.failureCount = 0]
    <3>1. /\ cleared \in Breakers
          /\ cleared.state = b.state
          /\ cleared.openFor = b.openFor
          /\ cleared.failureCount = 0
      BY DEF Breakers
    <3>2. Reset(b) = [cleared EXCEPT !.halfOpenInFlight = 0]
      BY <2>1
    <3> HIDE DEF cleared
    <3> QED BY <3>1, <3>2 DEF Breakers
  <2> QED BY <1>1, <2>2, DistinctStates, SanitizedConfig DEF WellFormed
<1>2. CASE b.state # CircuitClosed
  <2>1. Reset(b) = TransitionTo(b, CircuitClosed)
    BY <1>2 DEF Reset
  <2> QED
    BY <1>2, <2>1, TransitionToOK, DistinctStates, SanitizedConfig
       DEF WellFormed
<1> QED BY <1>1, <1>2

\* Time changes only how long an open circuit has been open.
LEMMA ElapseOK ==
    ASSUME NEW b \in Breakers, WellFormed(b)
    PROVE  /\ Elapse(b) \in Breakers
           /\ WellFormed(Elapse(b))
           /\ Elapse(b).state = b.state
           /\ Elapse(b).halfOpenInFlight = b.halfOpenInFlight
           /\ b.state # CircuitOpen => Elapse(b) = b
<1>1. CASE b.state = CircuitOpen /\ b.openFor < Cooldown
  <2>1. Elapse(b) = [b EXCEPT !.openFor = @ + 1]
    BY <1>1 DEF Elapse
  <2>2. b.openFor + 1 \in 0..Cooldown
    BY <1>1, BreakerFields, SanitizedConfig
  <2>3. /\ Elapse(b) \in Breakers
        /\ Elapse(b).state = b.state
        /\ Elapse(b).failureCount = b.failureCount
        /\ Elapse(b).halfOpenInFlight = b.halfOpenInFlight
    BY <2>1, <2>2 DEF Breakers
  <2> QED BY <1>1, <2>3 DEF WellFormed
<1>2. CASE ~(b.state = CircuitOpen /\ b.openFor < Cooldown)
  BY <1>2 DEF Elapse
<1> QED BY <1>1, <1>2

----------------------------------------------------------------------------
(* Facts about messages and the mailbox.                                   *)

\* The addressee of a message has the type its kind calls for.
LEMMA MessageOf ==
    ASSUME NEW m \in Messages
    PROVE  /\ m.type \in {"CanAcceptWork", "GetOrCreateSession",
                          "ReportSuccess", "ReportFailure"}
                => m.of \in Invocations
           /\ m.type \in {"SessionActivated", "SessionDeactivated"}
                => m.of \in Sessions
BY DEF Messages, InvocationMessages, SessionMessages

\* What is sent is a message.
LEMMA MsgOK ==
    /\ \A i \in Invocations :
        \A type \in {"CanAcceptWork", "GetOrCreateSession", "ReportSuccess",
                     "ReportFailure"} : Msg(type, i) \in Messages
    /\ \A s \in Sessions :
        \A type \in {"SessionActivated", "SessionDeactivated"} :
            Msg(type, s) \in Messages
BY DEF Msg, Messages, InvocationMessages, SessionMessages

\* An empty mailbox, and one with a message more, is a mailbox.
LEMMA MailboxOK ==
    /\ <<>> \in Seq(Messages)
    /\ \A q \in Seq(Messages), m \in Messages : Append(q, m) \in Seq(Messages)
OBVIOUS

\* The first message of a mailbox can be taken.
LEMMA TakeMessage ==
    ASSUME NEW type, mailbox \in Seq(Messages), Receives(type)
    PROVE  /\ Head(mailbox) \in Messages
           /\ Head(mailbox).type = type
           /\ Tail(mailbox) \in Seq(Messages)
BY DEF Receives

\* The history variable stays a set of invocations.
LEMMA TrackOK ==
    ASSUME NEW b, NEW admitted \in SUBSET Invocations,
           probes \subseteq Invocations, Track(b, admitted)
    PROVE  probes' \subseteq Invocations
BY DEF Track

----------------------------------------------------------------------------
(* The breaker in every step.                                              *)

\* A step leaves the breaker alone or applies one of its operations.
LEMMA BreakerStep ==
    ASSUME TypeOK, CircuitWellFormed, [Next]_vars
    PROVE  breaker' \in Breakers /\ CircuitWellFormed'
<1> USE DEF TypeOK, CircuitWellFormed
<1>1. breaker' \in {breaker, Acquire(breaker), OnSuccess(breaker),
                    OnFailure(breaker), MaybeHalfOpen(breaker),
                    Reset(breaker), Elapse(breaker), NewCircuitBreaker}
  <2>1. ASSUME NEW i \in Invocations,
               \/ Route(i) \/ ResolveSession(i) \/ CredentialsUnavailable(i)
               \/ AskTimeout(i) \/ Detach(i) \/ GrainUnreachable(i)
               \/ ReportOutcome(i)
        PROVE  breaker' = breaker
    BY <2>1 DEF Route, ResolveSession, CredentialsUnavailable, AskTimeout,
                Detach, GrainUnreachable, ReportOutcome
  <2>2. ASSUME NEW s \in Sessions, Passivate(s)
        PROVE  breaker' = breaker
    BY <2>2 DEF Passivate
  <2>3. CASE Handle
    BY <2>3 DEF Handle, HandleCanAcceptWork, HandleGetOrCreateSession,
                HandleReportSuccess, HandleReportFailure,
                HandleSessionActivated, HandleSessionDeactivated,
                AfterAcceptCheck, IfAboutTool
  <2>4. CASE \/ HandleRefreshToolConfig \/ HandleDrainTool
             \/ HandleGetToolStatus \/ HandleResetCircuit \/ HealthProbe
    BY <2>4 DEF HandleRefreshToolConfig, HandleDrainTool,
                HandleGetToolStatus, HandleResetCircuit, HealthProbe, Peek,
                AfterAcceptCheck
  <2>5. CASE StopSupervisor \/ SpawnSupervisor \/ Tick
    BY <2>5 DEF StopSupervisor, SpawnSupervisor, Tick
  <2>6. CASE UNCHANGED vars
    BY <2>6 DEF vars
  <2> QED BY <2>1, <2>2, <2>3, <2>4, <2>5, <2>6 DEF Next
<1> QED
  BY <1>1, AcquireOK, OnSuccessOK, OnFailureOK, MaybeHalfOpenOK, ResetOK,
     ElapseOK, NewBreakerOK

----------------------------------------------------------------------------
(* Types.                                                                  *)

\* The initial state is well typed.
LEMMA InitTypeOK == Init => TypeOK
<1> SUFFICES ASSUME Init PROVE TypeOK
  OBVIOUS
<1>1. breaker \in Breakers
  BY NewBreakerOK DEF Init
<1> QED
  BY <1>1, MailboxOK DEF Init, TypeOK, Tools, ToolStates, Stages

\* Every step keeps the types.
LEMMA NextTypeOK ==
    ASSUME TypeOK, CircuitWellFormed, [Next]_vars
    PROVE  TypeOK'
<1> USE SupervisorAssumption DEF TypeOK, actorVars
<1>0. breaker' \in Breakers
  BY BreakerStep
<1>1. ASSUME NEW i \in Invocations, Route(i)
      PROVE  TypeOK'
  BY <1>0, <1>1, MsgOK DEF Route, Stages
<1>2. ASSUME NEW i \in Invocations, ResolveSession(i)
      PROVE  TypeOK'
  <2>1. stage' \in [Invocations -> Stages]
    BY <1>2 DEF ResolveSession, Stages
  <2>2. mailbox' \in Seq(Messages)
    BY <1>2, MsgOK, MailboxOK DEF ResolveSession
  <2> QED BY <1>0, <1>2, <2>1, <2>2 DEF ResolveSession
<1>3. ASSUME NEW i \in Invocations,
             \/ CredentialsUnavailable(i) \/ AskTimeout(i) \/ Detach(i)
             \/ GrainUnreachable(i)
      PROVE  TypeOK'
  BY <1>0, <1>3 DEF CredentialsUnavailable, AskTimeout, Detach,
                    GrainUnreachable, Stages
<1>4. ASSUME NEW i \in Invocations, ReportOutcome(i)
      PROVE  TypeOK'
  BY <1>0, <1>4, MsgOK DEF ReportOutcome, Stages
<1>5. ASSUME NEW s \in Sessions, Passivate(s)
      PROVE  TypeOK'
  BY <1>0, <1>5, MsgOK DEF Passivate
<1>6. CASE HandleCanAcceptWork
  <2> DEFINE i == Head(mailbox).of
  <2>1. i \in Invocations /\ Tail(mailbox) \in Seq(Messages)
    BY <1>6, TakeMessage, MessageOf DEF HandleCanAcceptWork
  <2>2. stage' \in [Invocations -> Stages]
    BY <1>6, <2>1 DEF HandleCanAcceptWork, Stages
  <2>3. (IF Accepts /\ stage[i] = "asked" THEN {i} ELSE {})
            \in SUBSET Invocations
    BY <2>1
  <2>4. probes' \subseteq Invocations
    BY <1>6, <2>3, TrackOK DEF HandleCanAcceptWork
  <2> QED BY <1>0, <1>6, <2>1, <2>2, <2>4 DEF HandleCanAcceptWork
<1>7. CASE HandleGetOrCreateSession
  <2> DEFINE i == Head(mailbox).of
  <2>1. i \in Invocations /\ Tail(mailbox) \in Seq(Messages)
    BY <1>7, TakeMessage, MessageOf DEF HandleGetOrCreateSession
  <2>2. SessionOf[i] \in Sessions
    BY <2>1
  <2>3. stage' \in [Invocations -> Stages]
    BY <1>7, <2>1 DEF HandleGetOrCreateSession, Stages
  <2>4. live' \subseteq Sessions
    BY <1>7, <2>2 DEF HandleGetOrCreateSession
  <2>5. mailbox' \in Seq(Messages)
    <3>1. Msg("SessionActivated", SessionOf[i]) \in Messages
      BY <2>2, MsgOK
    <3>2. mailbox' \in {Tail(mailbox),
                        Append(Tail(mailbox),
                               Msg("SessionActivated", SessionOf[i]))}
      BY <1>7 DEF HandleGetOrCreateSession
    <3> QED BY <2>1, <3>1, <3>2, MailboxOK
  <2> QED
    BY <1>0, <1>7, <2>3, <2>4, <2>5 DEF HandleGetOrCreateSession
<1>8. CASE HandleReportSuccess
  <2>1. Tail(mailbox) \in Seq(Messages)
    BY <1>8, TakeMessage DEF HandleReportSuccess
  <2>2. probes' \subseteq Invocations
    BY <1>8, TrackOK DEF HandleReportSuccess
  <2> QED BY <1>0, <1>8, <2>1, <2>2 DEF HandleReportSuccess
<1>9. CASE HandleReportFailure
  <2>1. Tail(mailbox) \in Seq(Messages)
    BY <1>9, TakeMessage DEF HandleReportFailure
  <2>2. probes' \subseteq Invocations
    BY <1>9, TrackOK DEF HandleReportFailure
  <2> QED BY <1>0, <1>9, <2>1, <2>2 DEF HandleReportFailure
<1>10. CASE HandleSessionActivated
  <2>1. Head(mailbox).of \in Sessions /\ Tail(mailbox) \in Seq(Messages)
    BY <1>10, TakeMessage, MessageOf DEF HandleSessionActivated
  <2> QED BY <1>0, <1>10, <2>1 DEF HandleSessionActivated, IfAboutTool
<1>11. CASE HandleSessionDeactivated
  <2>1. Tail(mailbox) \in Seq(Messages)
    BY <1>11, TakeMessage DEF HandleSessionDeactivated
  <2> QED BY <1>0, <1>11, <2>1 DEF HandleSessionDeactivated, IfAboutTool
<1>12. CASE HandleRefreshToolConfig \/ HandleDrainTool
  BY <1>0, <1>12 DEF HandleRefreshToolConfig, HandleDrainTool
<1>13. CASE HandleGetToolStatus
  <2>1. probes' \subseteq Invocations
    BY <1>13, TrackOK DEF HandleGetToolStatus
  <2> QED BY <1>0, <1>13, <2>1 DEF HandleGetToolStatus
<1>14. CASE HandleResetCircuit
  <2>1. probes' \subseteq Invocations
    BY <1>14, TrackOK DEF HandleResetCircuit
  <2> QED BY <1>0, <1>14, <2>1 DEF HandleResetCircuit
<1>15. CASE HealthProbe
  <2>1. probes' \subseteq Invocations
    BY <1>15, TrackOK DEF HealthProbe
  <2> QED BY <1>0, <1>15, <2>1 DEF HealthProbe
<1>16. CASE StopSupervisor
  <2>1. stage' \in [Invocations -> Stages]
    BY <1>16 DEF StopSupervisor, Stages
  <2> QED BY <1>0, <1>16, <2>1, MailboxOK DEF StopSupervisor
<1>17. CASE SpawnSupervisor
  BY <1>0, <1>17 DEF SpawnSupervisor
<1>18. CASE Tick
  BY <1>0, <1>18 DEF Tick
<1>19. CASE UNCHANGED vars
  BY <1>19 DEF vars
<1> QED
  BY <1>1, <1>2, <1>3, <1>4, <1>5, <1>6, <1>7, <1>8, <1>9, <1>10, <1>11,
     <1>12, <1>13, <1>14, <1>15, <1>16, <1>17, <1>18, <1>19
     DEF Next, Handle

\* Types and the breaker's well-formedness are inductive together: the type
\* of the failure count rests on the breaker's operations.
THEOREM TypeCorrect == Spec => []TypeOK
<1>1. Init => TypeOK /\ CircuitWellFormed
  BY InitTypeOK, NewBreakerOK DEF Init, CircuitWellFormed
<1>2. TypeOK /\ CircuitWellFormed /\ [Next]_vars
        => TypeOK' /\ CircuitWellFormed'
  BY NextTypeOK, BreakerStep
<1> QED BY <1>1, <1>2, PTL DEF Spec

\* The counters of the circuit agree with its state in every reachable state,
\* for every configuration (mcp/circuit.go).
THEOREM CircuitSafe == Spec => []CircuitWellFormed
<1>1. Init => TypeOK /\ CircuitWellFormed
  BY InitTypeOK, NewBreakerOK DEF Init, CircuitWellFormed
<1>2. TypeOK /\ CircuitWellFormed /\ [Next]_vars
        => TypeOK' /\ CircuitWellFormed'
  BY NextTypeOK, BreakerStep
<1> QED BY <1>1, <1>2, PTL DEF Spec

----------------------------------------------------------------------------
(* Probes and half-open slots.                                             *)

\* The inductive invariant.
Inv == TypeOK /\ CircuitWellFormed /\ ProbesHoldSlots

\* Probes are finitely many, and there are none outside a half-open period.
LEMMA ProbesFinite ==
    ASSUME Inv
    PROVE  /\ IsFiniteSet(probes)
           /\ Cardinality(probes) \in Nat
           /\ breaker.state # CircuitHalfOpen =>
                probes = {} /\ Cardinality(probes) = 0
<1>1. IsFiniteSet(probes)
  BY SupervisorAssumption, FS_Subset DEF Inv, TypeOK
<1> QED
  BY <1>1, FS_CardinalityType, FS_EmptySet DEF Inv, ProbesHoldSlots

\* After the lazy move to half-open the probes still have their slots.
LEMMA SlotsAfterPeek ==
    ASSUME Inv
    PROVE  Cardinality(probes) <= MaybeHalfOpen(breaker).halfOpenInFlight
<1>1. breaker \in Breakers /\ WellFormed(breaker)
  BY DEF Inv, TypeOK, CircuitWellFormed
<1>2. CASE MaybeHalfOpen(breaker) = breaker
  BY <1>2 DEF Inv, ProbesHoldSlots
<1>3. CASE /\ breaker.state = CircuitOpen
           /\ MaybeHalfOpen(breaker).halfOpenInFlight = 0
  BY <1>3, ProbesFinite, DistinctStates
<1> QED BY <1>1, <1>2, <1>3, MaybeHalfOpenOK

\* The history in a step that admits nobody or one invocation.
LEMMA TrackedProbes ==
    ASSUME Inv, NEW b, NEW admitted, Track(b, admitted)
    PROVE  probes' = IF b.state = CircuitHalfOpen THEN admitted \cup probes
                     ELSE {}
BY ProbesFinite DEF Track

\* A step that admits nobody keeps the bound if the breaker keeps its slots.
LEMMA NobodyAdmitted ==
    ASSUME Inv, NEW b, breaker' = b, b.halfOpenInFlight \in Nat, Track(b, {}),
           b.state = CircuitHalfOpen => Cardinality(probes) <= b.halfOpenInFlight
    PROVE  ProbesHoldSlots'
<1>1. CASE b.state = CircuitHalfOpen
  <2>1. probes' = probes
    BY <1>1, TrackedProbes
  <2> QED BY <1>1, <2>1 DEF ProbesHoldSlots
<1>2. CASE b.state # CircuitHalfOpen
  <2>1. probes' = {}
    BY <1>2, TrackedProbes
  <2>2. Cardinality(probes') = 0
    BY <2>1, FS_EmptySet
  <2> QED BY <2>1, <2>2 DEF ProbesHoldSlots
<1> QED BY <1>1, <1>2

\* A report to a supervisor without a tool is ignored ...
LEMMA IgnoredReport ==
    ASSUME Inv, tool = NoTool, HandleReportSuccess \/ HandleReportFailure
    PROVE  UNCHANGED <<breaker, probes, stage>>
<1>1. breaker' = breaker /\ Track(breaker, {}) /\ stage' = stage
  BY DEF HandleReportSuccess, HandleReportFailure, IfAboutTool
<1> QED BY <1>1, TrackedProbes, ProbesFinite

\* ... and every other one is counted.
LEMMA CountedReport ==
    ASSUME tool # NoTool
    PROVE  /\ HandleReportSuccess =>
                /\ breaker' = OnSuccess(breaker)
                /\ Track(OnSuccess(breaker), {})
           /\ HandleReportFailure =>
                /\ breaker' = OnFailure(breaker)
                /\ Track(OnFailure(breaker), {})
BY DEF HandleReportSuccess, HandleReportFailure, IfAboutTool

\* A caller of Acquire that is not admitted: a rejected or abandoned request,
\* or the health checker.
LEMMA AcquireWithoutProbe ==
    ASSUME Inv, breaker' = AfterAcceptCheck, Track(AfterAcceptCheck, {})
    PROVE  ProbesHoldSlots'
<1>0. breaker \in Breakers /\ WellFormed(breaker)
  BY DEF Inv, TypeOK, CircuitWellFormed
<1>1. MaybeHalfOpen(breaker).halfOpenInFlight \in Nat
  BY <1>0, MaybeHalfOpenOK, BreakerFields
<1>2. AfterAcceptCheck \in Breakers
  BY <1>0, AcquireOK DEF AfterAcceptCheck
<1>3. AfterAcceptCheck.halfOpenInFlight \in Nat
  BY <1>2, BreakerFields
<1>4. Cardinality(probes) <= AfterAcceptCheck.halfOpenInFlight
  <2>1. CASE Admissible
    <3>1. AfterAcceptCheck = Acquire(breaker)
      BY <2>1 DEF AfterAcceptCheck
    <3>2. Acquire(breaker).halfOpenInFlight >=
              MaybeHalfOpen(breaker).halfOpenInFlight
      BY <1>0, AcquireOK
    <3> QED
      BY <1>1, <1>3, <3>1, <3>2, SlotsAfterPeek, ProbesFinite
  <2>2. CASE ~Admissible
    BY <2>2 DEF AfterAcceptCheck, Inv, ProbesHoldSlots
  <2> QED BY <2>1, <2>2
<1> HIDE DEF AfterAcceptCheck
<1> QED BY <1>3, <1>4, NobodyAdmitted

\* An invocation that is admitted takes the slot the probe needs.
LEMMA AcquireWithProbe ==
    ASSUME Inv, NEW i \in Invocations, Accepts, breaker' = AfterAcceptCheck,
           Track(AfterAcceptCheck, {i})
    PROVE  ProbesHoldSlots'
<1>0. breaker \in Breakers /\ WellFormed(breaker)
  BY DEF Inv, TypeOK, CircuitWellFormed
<1>1. AfterAcceptCheck = Acquire(breaker) /\ AcquireAccepts(breaker)
  BY DEF Accepts, AfterAcceptCheck
<1>2. MaybeHalfOpen(breaker).halfOpenInFlight \in Nat
  BY <1>0, MaybeHalfOpenOK, BreakerFields
<1>3. CASE Acquire(breaker).state = CircuitHalfOpen
  <2>1. probes' = probes \cup {i}
    BY <1>1, <1>3, TrackedProbes
  <2>2. Cardinality(probes') <= Cardinality(probes) + 1
    BY <2>1, ProbesFinite, FS_AddElement
  <2>3. Cardinality(probes') \in Nat
    BY <2>1, ProbesFinite, FS_AddElement, FS_CardinalityType
  <2>4. breaker'.halfOpenInFlight = MaybeHalfOpen(breaker).halfOpenInFlight + 1
    BY <1>0, <1>1, <1>3, AcquireOK
  <2>5. Cardinality(probes') <= breaker'.halfOpenInFlight
    BY <1>2, <2>2, <2>3, <2>4, SlotsAfterPeek, ProbesFinite
  <2> QED BY <1>1, <1>3, <2>5 DEF ProbesHoldSlots
<1>4. CASE Acquire(breaker).state # CircuitHalfOpen
  <2>1. probes' = {}
    BY <1>1, <1>4, TrackedProbes
  <2>2. Cardinality(probes') = 0
    BY <2>1, FS_EmptySet
  <2>3. Acquire(breaker).halfOpenInFlight \in Nat
    BY <1>0, AcquireOK, BreakerFields
  <2> QED BY <1>1, <2>1, <2>2, <2>3 DEF ProbesHoldSlots
<1> QED BY <1>3, <1>4

\* Every step keeps the probes within their slots.
LEMMA NextProbes ==
    ASSUME Inv, [Next]_vars
    PROVE  ProbesHoldSlots'
<1>0. breaker \in Breakers /\ WellFormed(breaker)
  BY DEF Inv, TypeOK, CircuitWellFormed
<1>1. CASE UNCHANGED <<breaker, probes>>
  BY <1>1 DEF Inv, ProbesHoldSlots
<1>2. ASSUME NEW i \in Invocations,
             \/ Route(i) \/ ResolveSession(i) \/ CredentialsUnavailable(i)
             \/ AskTimeout(i) \/ Detach(i) \/ GrainUnreachable(i)
             \/ ReportOutcome(i)
      PROVE  UNCHANGED <<breaker, probes>>
  BY <1>2 DEF Route, ResolveSession, CredentialsUnavailable, AskTimeout,
              Detach, GrainUnreachable, ReportOutcome
<1>3. ASSUME NEW s \in Sessions, Passivate(s)
      PROVE  UNCHANGED <<breaker, probes>>
  BY <1>3 DEF Passivate
<1>4. CASE \/ HandleGetOrCreateSession \/ HandleSessionActivated
           \/ HandleSessionDeactivated \/ HandleRefreshToolConfig
           \/ HandleDrainTool \/ StopSupervisor \/ UNCHANGED vars
  BY <1>1, <1>4 DEF HandleGetOrCreateSession, HandleSessionActivated,
       HandleSessionDeactivated, HandleRefreshToolConfig, HandleDrainTool,
       StopSupervisor, vars
<1>5. CASE HandleCanAcceptWork
  <2> DEFINE i == Head(mailbox).of
  <2>1. i \in Invocations
    BY <1>5, TakeMessage, MessageOf DEF HandleCanAcceptWork, Inv, TypeOK
  <2>2. /\ breaker' = AfterAcceptCheck
        /\ \/ Accepts /\ Track(AfterAcceptCheck, {i})
           \/ Track(AfterAcceptCheck, {})
    BY <1>5 DEF HandleCanAcceptWork
  <2> QED BY <2>1, <2>2, AcquireWithProbe, AcquireWithoutProbe
<1>6. CASE HealthProbe
  BY <1>6, AcquireWithoutProbe DEF HealthProbe
<1>7. CASE HandleReportSuccess /\ tool # NoTool
  <2>1. OnSuccess(breaker) \in Breakers
    BY <1>0, OnSuccessOK
  <2>2. OnSuccess(breaker).state # CircuitHalfOpen
    BY <1>0, OnSuccessOK, BreakerFields, DistinctStates
  <2> QED
    BY <1>7, <2>1, <2>2, BreakerFields, NobodyAdmitted, CountedReport
<1>8. CASE HandleReportFailure /\ tool # NoTool
  <2>1. OnFailure(breaker) \in Breakers
    BY <1>0, OnFailureOK
  <2>2. OnFailure(breaker).state # CircuitHalfOpen
    BY <1>0, OnFailureOK, BreakerFields, DistinctStates
  <2> QED
    BY <1>8, <2>1, <2>2, BreakerFields, NobodyAdmitted, CountedReport
<1>9. CASE HandleGetToolStatus
  <2>1. Peek(breaker) \in Breakers
    BY <1>0, MaybeHalfOpenOK DEF Peek
  <2>2. Cardinality(probes) <= Peek(breaker).halfOpenInFlight
    BY SlotsAfterPeek DEF Peek
  <2> QED
    BY <1>9, <2>1, <2>2, BreakerFields, NobodyAdmitted
       DEF HandleGetToolStatus
<1>10. CASE HandleResetCircuit
  <2>1. Reset(breaker) \in Breakers
    BY <1>0, ResetOK
  <2>2. Reset(breaker).state # CircuitHalfOpen
    BY <1>0, ResetOK, DistinctStates
  <2> QED
    BY <1>10, <2>1, <2>2, BreakerFields, NobodyAdmitted
       DEF HandleResetCircuit
<1>11. CASE SpawnSupervisor
  <2>1. probes' = {} /\ breaker' = NewCircuitBreaker
    BY <1>11 DEF SpawnSupervisor
  <2>2. Cardinality(probes') = 0 /\ breaker'.halfOpenInFlight = 0
    BY <2>1, FS_EmptySet DEF NewCircuitBreaker
  <2> QED BY <2>1, <2>2 DEF ProbesHoldSlots
<1>12. CASE Tick
  <2>1. /\ breaker'.state = breaker.state
        /\ breaker'.halfOpenInFlight = breaker.halfOpenInFlight
        /\ probes' = probes
    BY <1>0, <1>12, ElapseOK DEF Tick
  <2> QED BY <2>1 DEF Inv, ProbesHoldSlots
<1>13. CASE (HandleReportSuccess \/ HandleReportFailure) /\ tool = NoTool
  BY <1>1, <1>13, IgnoredReport
<1> QED
  BY <1>1, <1>2, <1>3, <1>4, <1>5, <1>6, <1>7, <1>8, <1>9, <1>10, <1>11,
     <1>12, <1>13 DEF Next, Handle

\* The invariant holds initially and in every step.
LEMMA InvInductive ==
    /\ Init => Inv
    /\ Inv /\ [Next]_vars => Inv'
<1>1. Init => ProbesHoldSlots
  BY FS_EmptySet DEF Init, ProbesHoldSlots, NewCircuitBreaker
<1>2. Init => Inv
  BY <1>1, InitTypeOK, NewBreakerOK DEF Init, CircuitWellFormed, Inv
<1>3. Inv /\ [Next]_vars => Inv'
  BY NextTypeOK, BreakerStep, NextProbes DEF Inv
<1> QED BY <1>2, <1>3

\* However requests time out, answers come late, supervisors are respawned
\* and health probes interfere, no more invocations are let through to a
\* recovering backend than there are half-open slots (mcp/circuit.go, Acquire;
\* tool_supervisor.go, handleCanAcceptWork).
THEOREM ProbesBounded == Spec => []ProbesHoldSlots
<1>1. Inv => ProbesHoldSlots
  BY DEF Inv
<1> QED BY <1>1, InvInductive, PTL DEF Spec

----------------------------------------------------------------------------
(* Refinement of BreakerContract.                                          *)

\* Whether an open circuit has been open for long enough.
Cooled == breaker.openFor >= Cooldown

\* A step that the contract does not see.
Unseen == UNCHANGED <<breaker.state, Cooled, Admitted, probes>>

\* A step of the contract, or one it does not see.
ContractStep == Contract!Next \/ Unseen

\* It is what the refinement calls for.
LEMMA ContractStepOK ==
    ASSUME ContractStep
    PROVE  [Contract!Next]_(Contract!cvars)
BY DEF ContractStep, Unseen, Cooled, Contract!cvars

\* A step that touches neither the breaker nor the history, and lets nobody
\* in, is one of the contract's: calls end or are given up.
LEMMA CallsEnd ==
    ASSUME UNCHANGED <<breaker, probes>>, Admitted' \subseteq Admitted
    PROVE  ContractStep
<1>1. Contract!Finish
  BY DEF Contract!Finish
<1> QED BY <1>1 DEF ContractStep, Contract!Next

\* Without an admission, the circuit stays as it is or moves to half-open.
LEMMA NoAdmission ==
    ASSUME Inv, NEW b, breaker' = b, Track(b, {}), Admitted' = Admitted,
           b.state = MaybeHalfOpen(breaker).state,
           b.openFor = MaybeHalfOpen(breaker).openFor
    PROVE  ContractStep
<1>0. breaker \in Breakers /\ WellFormed(breaker)
  BY DEF Inv, TypeOK, CircuitWellFormed
<1>1. CASE MaybeHalfOpen(breaker) = breaker
  <2>1. probes' = probes
    BY <1>1, TrackedProbes, ProbesFinite
  <2> QED BY <1>1, <2>1 DEF ContractStep, Unseen, Cooled
<1>2. CASE /\ breaker.state = CircuitOpen
           /\ breaker.openFor >= Cooldown
           /\ MaybeHalfOpen(breaker).state = CircuitHalfOpen
           /\ MaybeHalfOpen(breaker).openFor = 0
  <2>1. probes' = probes
    BY <1>2, TrackedProbes
  <2>2. ~(b.openFor >= Cooldown)
    BY <1>2, SanitizedConfig
  <2>3. Contract!HalfOpen
    BY <1>2, <2>1, <2>2 DEF Contract!HalfOpen, CircuitOpen, CircuitHalfOpen
  <2> QED BY <2>3 DEF ContractStep, Contract!Next
<1> QED BY <1>0, <1>1, <1>2, MaybeHalfOpenOK

\* The breaker after a request for admission, whoever asked.
LEMMA AfterAcceptCheckNoAdmission ==
    ASSUME Inv, breaker' = AfterAcceptCheck, Track(AfterAcceptCheck, {}),
           Admitted' = Admitted
    PROVE  ContractStep
<1>0. breaker \in Breakers /\ WellFormed(breaker)
  BY DEF Inv, TypeOK, CircuitWellFormed
<1>1. CASE Admissible
  <2>1. AfterAcceptCheck = Acquire(breaker)
    BY <1>1 DEF AfterAcceptCheck
  <2> QED BY <1>0, <2>1, AcquireOK, NoAdmission
<1>2. CASE ~Admissible
  <2>1. AfterAcceptCheck = breaker
    BY <1>2 DEF AfterAcceptCheck
  <2>2. probes' = probes
    BY <2>1, TrackedProbes, ProbesFinite
  <2> QED BY <2>1, <2>2 DEF ContractStep, Unseen, Cooled
<1> QED BY <1>1, <1>2

\* An admission is an admission of the contract.
LEMMA Admission ==
    ASSUME Inv, NEW i \in Invocations, Accepts, breaker' = AfterAcceptCheck,
           Track(AfterAcceptCheck, {i}), Admitted' = Admitted \cup {i}
    PROVE  Contract!Admit(i)
<1>0. breaker \in Breakers /\ WellFormed(breaker)
  BY DEF Inv, TypeOK, CircuitWellFormed
<1>1. AfterAcceptCheck = Acquire(breaker) /\ AcquireAccepts(breaker)
  BY DEF Accepts, AfterAcceptCheck
<1>2. /\ breaker'.state = MaybeHalfOpen(breaker).state
      /\ breaker'.openFor = MaybeHalfOpen(breaker).openFor
      /\ breaker'.state # CircuitOpen
  BY <1>0, <1>1, AcquireOK
<1>3. probes' = IF breaker'.state = CircuitHalfOpen THEN {i} \cup probes
                ELSE {}
  BY TrackedProbes
<1>4. CASE MaybeHalfOpen(breaker) = breaker /\ breaker.state = CircuitClosed
  <2>1. probes' = probes
    BY <1>2, <1>3, <1>4, ProbesFinite, DistinctStates
  <2> QED BY <1>2, <1>4, <2>1 DEF Contract!Admit, CircuitClosed
<1>5. CASE MaybeHalfOpen(breaker) = breaker /\ breaker.state = CircuitHalfOpen
  <2>1. breaker.halfOpenInFlight < ProbeLimit
    BY <1>0, <1>1, <1>2, <1>5, AcquireOK
  <2>2. breaker.halfOpenInFlight \in Nat
    BY <1>0, BreakerFields
  <2>3. Cardinality(probes) <= breaker.halfOpenInFlight
    BY DEF Inv, ProbesHoldSlots
  <2>4. Cardinality(probes) < ProbeLimit
    BY <2>1, <2>2, <2>3, ProbesFinite, SanitizedConfig
  <2>5. probes' = probes \cup {i}
    BY <1>2, <1>3, <1>5
  <2>6. Contract!Cardinality(probes) = Cardinality(probes)
    BY DEF Contract!Cardinality, Cardinality
  <2> QED BY <1>2, <1>5, <2>4, <2>5, <2>6 DEF Contract!Admit, CircuitHalfOpen
<1>6. CASE /\ breaker.state = CircuitOpen
           /\ breaker.openFor >= Cooldown
           /\ MaybeHalfOpen(breaker).state = CircuitHalfOpen
           /\ MaybeHalfOpen(breaker).openFor = 0
  <2>1. probes' = {i}
    BY <1>2, <1>3, <1>6, ProbesFinite, DistinctStates
  <2>2. ~(breaker'.openFor >= Cooldown)
    BY <1>2, <1>6, SanitizedConfig
  <2> QED
    BY <1>2, <1>6, <2>1, <2>2
       DEF Contract!Admit, CircuitOpen, CircuitHalfOpen
<1> QED
  BY <1>0, <1>2, <1>4, <1>5, <1>6, MaybeHalfOpenOK, BreakerFields,
     DistinctStates

\* A circuit that is closed, by an outcome or by hand.
LEMMA ClosingStep ==
    ASSUME breaker'.state = CircuitClosed, breaker'.openFor = 0, probes' = {},
           Admitted' = Admitted
    PROVE  ContractStep
<1>1. ~(breaker'.openFor >= Cooldown)
  BY SanitizedConfig
<1>2. Contract!Close
  BY <1>1 DEF Contract!Close, CircuitClosed
<1> QED BY <1>2 DEF ContractStep, Contract!Next

\* A circuit that is opened by a failure.
LEMMA OpeningStep ==
    ASSUME breaker.state # CircuitOpen, breaker'.state = CircuitOpen,
           breaker'.openFor = 0, probes' = {}, Admitted' = Admitted
    PROVE  ContractStep
<1>1. ~(breaker'.openFor >= Cooldown)
  BY SanitizedConfig
<1>2. Contract!Open
  BY <1>1 DEF Contract!Open, CircuitOpen
<1> QED BY <1>2 DEF ContractStep, Contract!Next

\* Every step of the supervisor is a step of the contract or is not seen.
LEMMA NextRefines ==
    ASSUME Inv, [Next]_vars
    PROVE  ContractStep
<1>0. /\ breaker \in Breakers
      /\ WellFormed(breaker)
      /\ stage \in [Invocations -> Stages]
  BY DEF Inv, TypeOK, CircuitWellFormed
<1>1. ASSUME NEW i \in Invocations,
             \/ Route(i) \/ ResolveSession(i) \/ CredentialsUnavailable(i)
             \/ AskTimeout(i) \/ Detach(i) \/ GrainUnreachable(i)
             \/ ReportOutcome(i)
      PROVE  ContractStep
  <2>1. UNCHANGED <<breaker, probes>>
    BY <1>1 DEF Route, ResolveSession, CredentialsUnavailable, AskTimeout,
                Detach, GrainUnreachable, ReportOutcome
  <2>2. \E st \in Stages :
            /\ stage' = [stage EXCEPT ![i] = st]
            /\ st \in {"accepted", "resolving", "executing", "detached"}
                 => i \in Admitted
    BY <1>1 DEF Route, ResolveSession, CredentialsUnavailable, AskTimeout,
                Detach, GrainUnreachable, ReportOutcome, Admitted, Stages
  <2>3. Admitted' \subseteq Admitted
    BY <1>0, <2>2 DEF Admitted
  <2> QED BY <2>1, <2>3, CallsEnd
<1>2. ASSUME NEW s \in Sessions, Passivate(s)
      PROVE  ContractStep
  BY <1>2, CallsEnd DEF Passivate, Admitted
<1>3. CASE \/ HandleSessionActivated \/ HandleSessionDeactivated
           \/ HandleRefreshToolConfig \/ HandleDrainTool \/ UNCHANGED vars
  BY <1>3, CallsEnd DEF HandleSessionActivated, HandleSessionDeactivated,
       HandleRefreshToolConfig, HandleDrainTool, vars, Admitted
<1>4. CASE HandleGetOrCreateSession
  <2> DEFINE i == Head(mailbox).of
  <2>1. i \in Invocations
    BY <1>4, TakeMessage, MessageOf
       DEF HandleGetOrCreateSession, Inv, TypeOK
  <2>2. \/ stage' = stage
        \/ /\ stage[i] = "resolving"
           /\ \E st \in {"executing", "idle"} :
                  stage' = [stage EXCEPT ![i] = st]
    BY <1>4 DEF HandleGetOrCreateSession
  <2>3. Admitted' \subseteq Admitted
    BY <1>0, <2>1, <2>2 DEF Admitted
  <2> QED BY <1>4, <2>3, CallsEnd DEF HandleGetOrCreateSession
<1>5. CASE HandleCanAcceptWork
  <2> DEFINE i == Head(mailbox).of
  <2>1. i \in Invocations
    BY <1>5, TakeMessage, MessageOf DEF HandleCanAcceptWork, Inv, TypeOK
  <2>2. CASE Accepts /\ stage[i] = "asked"
    <3>1. /\ breaker' = AfterAcceptCheck
          /\ Track(AfterAcceptCheck, {i})
          /\ stage' = [stage EXCEPT ![i] = "accepted"]
      BY <1>5, <2>2 DEF HandleCanAcceptWork
    <3>2. Admitted' = Admitted \cup {i}
      BY <1>0, <2>1, <3>1 DEF Admitted
    <3>3. Contract!Admit(i)
      BY <2>1, <2>2, <3>1, <3>2, Admission
    <3> QED BY <2>1, <3>3 DEF ContractStep, Contract!Next
  <2>3. CASE ~(Accepts /\ stage[i] = "asked")
    <3>1. /\ breaker' = AfterAcceptCheck
          /\ Track(AfterAcceptCheck, {})
          /\ \/ stage' = stage
             \/ stage[i] = "asked" /\ stage' = [stage EXCEPT ![i] = "idle"]
      BY <1>5, <2>3 DEF HandleCanAcceptWork
    <3>2. Admitted' = Admitted
      BY <1>0, <2>1, <3>1 DEF Admitted
    <3> QED BY <3>1, <3>2, AfterAcceptCheckNoAdmission
  <2> QED BY <2>2, <2>3
<1>6. CASE HealthProbe
  BY <1>6, AfterAcceptCheckNoAdmission DEF HealthProbe, Admitted
<1>7. CASE HandleReportSuccess /\ tool # NoTool
  <2>1. /\ breaker' = OnSuccess(breaker)
        /\ Track(OnSuccess(breaker), {})
        /\ Admitted' = Admitted
    BY <1>7, CountedReport DEF HandleReportSuccess, Admitted
  <2>2. CASE breaker.state = CircuitHalfOpen
    <3>1. breaker'.state = CircuitClosed /\ breaker'.openFor = 0
      BY <1>0, <2>1, <2>2, OnSuccessOK, DistinctStates
    <3>2. probes' = {}
      BY <2>1, <3>1, TrackedProbes, DistinctStates
    <3> QED BY <2>1, <3>1, <3>2, ClosingStep
  <2>3. CASE breaker.state # CircuitHalfOpen
    <3>1. breaker'.state = breaker.state /\ breaker'.openFor = breaker.openFor
      BY <1>0, <2>1, <2>3, OnSuccessOK, BreakerFields, DistinctStates
    <3>2. probes' = probes
      BY <2>1, <2>3, <3>1, TrackedProbes, ProbesFinite
    <3> QED BY <2>1, <3>1, <3>2 DEF ContractStep, Unseen, Cooled
  <2> QED BY <2>2, <2>3
<1>8. CASE HandleReportFailure /\ tool # NoTool
  <2>1. /\ breaker' = OnFailure(breaker)
        /\ Track(OnFailure(breaker), {})
        /\ Admitted' = Admitted
    BY <1>8, CountedReport DEF HandleReportFailure, Admitted
  <2>2. CASE /\ breaker.state # CircuitOpen
             /\ breaker'.state = CircuitOpen
             /\ breaker'.openFor = 0
    <3>1. probes' = {}
      BY <2>1, <2>2, TrackedProbes, DistinctStates
    <3> QED BY <2>1, <2>2, <3>1, OpeningStep
  <2>3. CASE /\ breaker.state # CircuitHalfOpen
             /\ breaker'.state = breaker.state
             /\ breaker'.openFor = breaker.openFor
    <3>1. probes' = probes
      BY <2>1, <2>3, TrackedProbes, ProbesFinite
    <3> QED BY <2>1, <2>3, <3>1 DEF ContractStep, Unseen, Cooled
  <2> QED
    BY <1>0, <2>1, <2>2, <2>3, OnFailureOK, BreakerFields, DistinctStates
<1>9. CASE HandleGetToolStatus
  BY <1>9, NoAdmission DEF HandleGetToolStatus, Peek, Admitted
<1>10. CASE HandleResetCircuit
  <2>1. /\ breaker' = Reset(breaker)
        /\ Track(Reset(breaker), {})
        /\ Admitted' = Admitted
    BY <1>10 DEF HandleResetCircuit, Admitted
  <2>2. breaker'.state = CircuitClosed
    BY <1>0, <2>1, ResetOK
  <2>3. probes' = {}
    BY <2>1, <2>2, TrackedProbes, DistinctStates
  <2>4. CASE breaker.state = CircuitClosed
    <3>1. breaker'.openFor = breaker.openFor
      BY <1>0, <2>1, <2>4, ResetOK
    <3>2. probes' = probes
      BY <2>3, <2>4, ProbesFinite, DistinctStates
    <3> QED BY <2>1, <2>2, <2>4, <3>1, <3>2 DEF ContractStep, Unseen, Cooled
  <2>5. CASE breaker.state # CircuitClosed
    <3>1. breaker'.openFor = 0
      BY <1>0, <2>1, <2>5, ResetOK
    <3> QED BY <2>1, <2>2, <2>3, <3>1, ClosingStep
  <2> QED BY <2>4, <2>5
<1>11. CASE StopSupervisor
  <2>1. Admitted' \subseteq Admitted
    BY <1>0, <1>11 DEF StopSupervisor, Admitted
  <2> QED BY <1>11, <2>1, CallsEnd DEF StopSupervisor
<1>12. CASE SpawnSupervisor
  <2>1. /\ breaker'.state = CircuitClosed
        /\ breaker'.openFor = 0
        /\ probes' = {}
        /\ Admitted' = Admitted
    BY <1>12 DEF SpawnSupervisor, NewCircuitBreaker, Admitted
  <2> QED BY <2>1, ClosingStep
<1>13. CASE Tick
  <2>1. /\ breaker'.state = breaker.state
        /\ breaker.state = CircuitOpen
        /\ probes' = probes
        /\ Admitted' = Admitted
    BY <1>0, <1>13, ElapseOK DEF Tick, Admitted
  <2>2. CASE breaker'.openFor >= Cooldown
    <3>1. Contract!Cool
      BY <2>1, <2>2 DEF Contract!Cool, CircuitOpen
    <3> QED BY <3>1 DEF ContractStep, Contract!Next
  <2>3. CASE ~(breaker'.openFor >= Cooldown)
    <3>1. ~(breaker.openFor >= Cooldown)
      BY <1>0, <1>13, BreakerFields, SanitizedConfig DEF Tick
    <3> QED BY <2>1, <2>3, <3>1 DEF ContractStep, Unseen, Cooled
  <2> QED BY <2>2, <2>3
<1>14. CASE (HandleReportSuccess \/ HandleReportFailure) /\ tool = NoTool
  <2>1. UNCHANGED <<breaker, probes, stage>>
    BY <1>14, IgnoredReport
  <2> QED BY <2>1, CallsEnd DEF Admitted
<1> QED
  BY <1>1, <1>2, <1>3, <1>4, <1>5, <1>6, <1>7, <1>8, <1>9, <1>10, <1>11,
     <1>12, <1>13, <1>14 DEF Next, Handle

\* The supervisor, with its mailbox, counters, timeouts and respawns,
\* implements the contract of a circuit (BreakerContract): invocations reach
\* the backend only when the circuit is closed, or half-open with a free slot.
THEOREM Refinement == Spec => ImplementsContract
<1>1. Init => Contract!Init
  <2> SUFFICES ASSUME Init PROVE Contract!Init
    OBVIOUS
  <2>1. breaker.state = "closed" /\ ~(breaker.openFor >= Cooldown)
    BY SanitizedConfig DEF Init, NewCircuitBreaker, CircuitClosed
  <2>2. Admitted = {} /\ probes = {}
    BY DEF Init, Admitted
  <2> QED BY <2>1, <2>2 DEF Contract!Init
<1>2. Inv /\ [Next]_vars => [Contract!Next]_(Contract!cvars)
  BY NextRefines, ContractStepOK
<1> QED
  BY <1>1, <1>2, InvInductive, PTL DEF Spec, ImplementsContract, Contract!Spec

----------------------------------------------------------------------------
(* Positions in the mailbox.                                               *)

\* A message more at the end.
LEMMA AppendPositions ==
    ASSUME NEW q \in Seq(Messages), NEW m \in Messages
    PROVE  /\ Append(q, m) \in Seq(Messages)
           /\ Len(q) \in Nat
           /\ Len(Append(q, m)) = Len(q) + 1
           /\ Append(q, m)[Len(q) + 1] = m
           /\ \A k \in 1..Len(q) : Append(q, m)[k] = q[k]
OBVIOUS

\* The first message is taken, the others move up.
LEMMA TailPositions ==
    ASSUME NEW q \in Seq(Messages), q # <<>>
    PROVE  /\ Tail(q) \in Seq(Messages)
           /\ Len(q) \in Nat /\ Len(q) > 0
           /\ Head(q) = q[1]
           /\ Len(Tail(q)) = Len(q) - 1
           /\ \A k \in 1..Len(Tail(q)) :
                  k + 1 \in 1..Len(q) /\ Tail(q)[k] = q[k + 1]
           /\ \A k \in 2..Len(q) :
                  k - 1 \in 1..Len(Tail(q)) /\ Tail(q)[k - 1] = q[k]
<1>1. /\ Tail(q) \in Seq(Messages)
      /\ Len(q) \in Nat /\ Len(q) > 0
      /\ Head(q) = q[1]
      /\ Len(Tail(q)) = Len(q) - 1
      /\ \A k \in 1..(Len(q) - 1) : Tail(q)[k] = q[k + 1]
  OBVIOUS
<1>2. \A k \in 1..Len(Tail(q)) :
          k + 1 \in 1..Len(q) /\ Tail(q)[k] = q[k + 1]
  BY <1>1
<1>3. ASSUME NEW k \in 2..Len(q)
      PROVE  k - 1 \in 1..Len(Tail(q)) /\ Tail(q)[k - 1] = q[k]
  <2>1. k - 1 \in 1..(Len(q) - 1) /\ (k - 1) + 1 = k
    BY <1>1
  <2> QED BY <1>1, <2>1
<1> QED BY <1>1, <1>2, <1>3

----------------------------------------------------------------------------
(* The session map.                                                        *)

\* What the queue q says of session s, when the grains in l are active and
\* the sessions in ss registered.
MapHolds(q, l, ss, s) ==
    /\ (\A j \in 1..Len(q) : ~About(q[j], s)) => (s \in l <=> s \in ss)
    /\ \A k \in 1..Len(q) :
        About(q[k], s) /\ (\A j \in (k + 1)..Len(q) : ~About(q[j], s)) =>
            (s \in l <=> q[k].type = "SessionActivated")

LEMMA MapHoldsOK ==
    ASSUME TypeOK
    PROVE  /\ SessionMapAuthoritative <=>
                \A s \in Sessions : MapHolds(mailbox, live, sessions, s)
           /\ SessionMapAuthoritative' <=>
                \A s \in Sessions : MapHolds(mailbox', live', sessions', s)
<1>1. 0 + 1 = 1
  OBVIOUS
<1> QED BY <1>1 DEF SessionMapAuthoritative, MapHolds, NoneBeyond

\* A message about something else is queued.
LEMMA MapAppendOther ==
    ASSUME NEW q \in Seq(Messages), NEW m \in Messages, NEW s, NEW l, NEW ss,
           NEW k, s \in k <=> s \in l,
           ~About(m, s), MapHolds(q, l, ss, s)
    PROVE  MapHolds(Append(q, m), k, ss, s)
<1>1. /\ Len(q) \in Nat
      /\ Len(Append(q, m)) = Len(q) + 1
      /\ Append(q, m)[Len(q) + 1] = m
      /\ \A j \in 1..Len(q) : Append(q, m)[j] = q[j]
  BY AppendPositions
<1>2. ASSUME NEW j \in 1..Len(Append(q, m)), About(Append(q, m)[j], s)
      PROVE  j \in 1..Len(q) /\ About(q[j], s)
  BY <1>1, <1>2
<1>3. ASSUME NEW j \in 1..Len(q)
      PROVE  j \in 1..Len(Append(q, m))
             /\ (About(q[j], s) => About(Append(q, m)[j], s))
  BY <1>1
<1>4. \A n \in 1..Len(q) : \A j \in (n + 1)..Len(q) :
          j \in 1..Len(q) /\ j \in (n + 1)..Len(Append(q, m))
  BY <1>1
<1> QED BY <1>1, <1>2, <1>3, <1>4 DEF MapHolds

\* A message about s is queued: it says what has just happened to s.
LEMMA MapAppendAbout ==
    ASSUME NEW q \in Seq(Messages), NEW m \in Messages, NEW s, NEW l, NEW ss,
           About(m, s), s \in l <=> m.type = "SessionActivated"
    PROVE  MapHolds(Append(q, m), l, ss, s)
<1>1. /\ Len(q) \in Nat
      /\ Len(Append(q, m)) = Len(q) + 1
      /\ Append(q, m)[Len(q) + 1] = m
  BY AppendPositions
<1>2. ASSUME NEW n \in 1..Len(Append(q, m)),
             \A j \in (n + 1)..Len(Append(q, m)) : ~About(Append(q, m)[j], s)
      PROVE  n = Len(q) + 1
  <2>1. n \in 1..Len(q) => Len(q) + 1 \in (n + 1)..Len(Append(q, m))
    BY <1>1
  <2> QED BY <1>1, <1>2, <2>1
<1>3. Len(q) + 1 \in 1..Len(Append(q, m))
  BY <1>1
<1> QED BY <1>1, <1>2, <1>3 DEF MapHolds

\* A message about something else is handled.
LEMMA MapTakeOther ==
    ASSUME NEW q \in Seq(Messages), q # <<>>, NEW s, NEW l, NEW ss, NEW tt,
           s \in tt <=> s \in ss,
           ~About(Head(q), s), MapHolds(q, l, ss, s)
    PROVE  MapHolds(Tail(q), l, tt, s)
<1> DEFINE r == Tail(q)
<1>1. /\ Len(q) \in Nat /\ Len(q) > 0 /\ Len(r) = Len(q) - 1
      /\ Head(q) = q[1]
      /\ \A k \in 1..Len(r) : k + 1 \in 1..Len(q) /\ r[k] = q[k + 1]
      /\ \A k \in 2..Len(q) : k - 1 \in 1..Len(r) /\ r[k - 1] = q[k]
  BY TailPositions
<1> HIDE DEF r
<1>2. (\A j \in 1..Len(r) : ~About(r[j], s)) => (s \in l <=> s \in tt)
  <2> SUFFICES ASSUME \A j \in 1..Len(r) : ~About(r[j], s)
               PROVE  \A j \in 1..Len(q) : ~About(q[j], s)
    BY DEF MapHolds
  <2>1. \A j \in 1..Len(q) : j = 1 \/ j \in 2..Len(q)
    BY <1>1
  <2> QED BY <1>1, <2>1
<1>3. ASSUME NEW k \in 1..Len(r), About(r[k], s),
             \A j \in (k + 1)..Len(r) : ~About(r[j], s)
      PROVE  s \in l <=> r[k].type = "SessionActivated"
  <2>1. k + 1 \in 1..Len(q) /\ r[k] = q[k + 1] /\ k \in Nat
    BY <1>1
  <2>2. ASSUME NEW j \in (k + 1 + 1)..Len(q)
        PROVE  ~About(q[j], s)
    <3>1. j \in 2..Len(q) /\ j - 1 \in (k + 1)..Len(r)
      BY <1>1, <2>1
    <3> QED BY <1>1, <1>3, <3>1
  <2> QED BY <1>3, <2>1, <2>2 DEF MapHolds
<1> QED BY <1>2, <1>3 DEF MapHolds, r

\* A message about s is handled: it is applied to the map.
LEMMA MapTakeAbout ==
    ASSUME NEW q \in Seq(Messages), q # <<>>, NEW s, NEW l, NEW ss, NEW tt,
           s \in tt <=> Head(q).type = "SessionActivated",
           About(Head(q), s), MapHolds(q, l, ss, s)
    PROVE  MapHolds(Tail(q), l, tt, s)
<1> DEFINE r == Tail(q)
<1>1. /\ Len(q) \in Nat /\ Len(q) > 0 /\ Len(r) = Len(q) - 1
      /\ Head(q) = q[1]
      /\ \A k \in 1..Len(r) : k + 1 \in 1..Len(q) /\ r[k] = q[k + 1]
      /\ \A k \in 2..Len(q) : k - 1 \in 1..Len(r) /\ r[k - 1] = q[k]
  BY TailPositions
<1> HIDE DEF r
<1>2. (\A j \in 1..Len(r) : ~About(r[j], s)) => (s \in l <=> s \in tt)
  <2> SUFFICES ASSUME \A j \in 1..Len(r) : ~About(r[j], s)
               PROVE  \A j \in (1 + 1)..Len(q) : ~About(q[j], s)
    <3>1. 1 \in 1..Len(q)
      BY <1>1
    <3> QED BY <1>1, <3>1 DEF MapHolds
  <2>1. \A j \in (1 + 1)..Len(q) : j \in 2..Len(q)
    OBVIOUS
  <2> QED BY <1>1, <2>1
<1>3. ASSUME NEW k \in 1..Len(r), About(r[k], s),
             \A j \in (k + 1)..Len(r) : ~About(r[j], s)
      PROVE  s \in l <=> r[k].type = "SessionActivated"
  <2>1. k + 1 \in 1..Len(q) /\ r[k] = q[k + 1] /\ k \in Nat
    BY <1>1
  <2>2. ASSUME NEW j \in (k + 1 + 1)..Len(q)
        PROVE  ~About(q[j], s)
    <3>1. j \in 2..Len(q) /\ j - 1 \in (k + 1)..Len(r)
      BY <1>1, <2>1
    <3> QED BY <1>1, <1>3, <3>1
  <2> QED BY <1>3, <2>1, <2>2 DEF MapHolds
<1> QED BY <1>2, <1>3 DEF MapHolds, r

\* The map, while the supervisor is not replaced.
MapInv ==
    /\ TypeOK /\ CircuitWellFormed
    /\ running /\ tool # NoTool
    /\ SessionMapAuthoritative

\* A definition from the extension is one the supervisor can work with.
LEMMA ToolsAreSome == \A t \in Tools : t # NoTool
BY DEF Tools, NoTool, ToolStates

\* A supervisor that is not replaced keeps running, with a tool.
LEMMA ToolKept ==
    ASSUME ~Reregisters, running, tool # NoTool, [Next]_vars
    PROVE  running' /\ tool' # NoTool
<1>1. CASE HandleRefreshToolConfig
  BY <1>1, ToolsAreSome DEF HandleRefreshToolConfig
<1>2. CASE ~HandleRefreshToolConfig
  BY <1>2 DEF actorVars, Next, Handle, Route, ResolveSession,
     CredentialsUnavailable, AskTimeout, Detach, GrainUnreachable,
     ReportOutcome, Passivate, HandleCanAcceptWork, HandleGetOrCreateSession,
     HandleReportSuccess, HandleReportFailure, HandleSessionActivated,
     HandleSessionDeactivated, HandleDrainTool, HandleGetToolStatus,
     HandleResetCircuit, HealthProbe, StopSupervisor, SpawnSupervisor, Tick,
     vars
<1> QED BY <1>1, <1>2

\* Steps that leave the sessions and the mailbox alone.
LEMMA MapUntouched ==
    ASSUME MapInv, UNCHANGED <<mailbox, live, sessions>>
    PROVE  SessionMapAuthoritative'
BY DEF MapInv, SessionMapAuthoritative, NoneBeyond

\* Steps that queue a message which is not about the life of a session.
LEMMA MapSend ==
    ASSUME MapInv, UNCHANGED <<live, sessions>>, NEW m \in Messages,
           m.type \notin {"SessionActivated", "SessionDeactivated"},
           mailbox' = Append(mailbox, m)
    PROVE  SessionMapAuthoritative'
<1>1. TypeOK /\ mailbox \in Seq(Messages)
  BY DEF MapInv, TypeOK
<1>2. \A s \in Sessions : ~About(m, s)
  BY DEF About
<1>3. \A s \in Sessions : MapHolds(mailbox, live, sessions, s)
  BY <1>1, MapHoldsOK DEF MapInv
<1>4. \A s \in Sessions : MapHolds(mailbox', live', sessions', s)
  BY <1>1, <1>2, <1>3, MapAppendOther
<1> QED BY <1>1, <1>4, MapHoldsOK

\* Steps that handle such a message.
LEMMA MapTake ==
    ASSUME MapInv, UNCHANGED <<live, sessions>>, mailbox # <<>>,
           Head(mailbox).type \notin {"SessionActivated", "SessionDeactivated"},
           mailbox' = Tail(mailbox)
    PROVE  SessionMapAuthoritative'
<1>1. TypeOK /\ mailbox \in Seq(Messages)
  BY DEF MapInv, TypeOK
<1>2. \A s \in Sessions : ~About(Head(mailbox), s)
  BY DEF About
<1>3. \A s \in Sessions : MapHolds(mailbox, live, sessions, s)
  BY <1>1, MapHoldsOK DEF MapInv
<1>4. \A s \in Sessions : MapHolds(mailbox', live', sessions', s)
  BY <1>1, <1>2, <1>3, MapTakeOther
<1> QED BY <1>1, <1>4, MapHoldsOK

LEMMA NextMap ==
    ASSUME ~Reregisters, MapInv, [Next]_vars
    PROVE  MapInv'
<1> USE DEF actorVars
<1>0. TypeOK /\ CircuitWellFormed /\ running /\ tool # NoTool
      /\ mailbox \in Seq(Messages)
      /\ \A s \in Sessions : MapHolds(mailbox, live, sessions, s)
  BY MapHoldsOK DEF MapInv, TypeOK
<1>1. TypeOK' /\ CircuitWellFormed'
  BY <1>0, NextTypeOK, BreakerStep
<1>2. running' /\ tool' # NoTool
  BY <1>0, ToolKept
<1>3. SessionMapAuthoritative'
  <2>1. ASSUME NEW i \in Invocations, Route(i)
        PROVE  SessionMapAuthoritative'
    <3>1. Msg("CanAcceptWork", i) \in Messages
          /\ Msg("CanAcceptWork", i).type = "CanAcceptWork"
      BY MsgOK DEF Msg
    <3> QED BY <2>1, <3>1, MapSend DEF Route
  <2>2. ASSUME NEW i \in Invocations, ResolveSession(i)
        PROVE  SessionMapAuthoritative'
    <3>1. Msg("GetOrCreateSession", i) \in Messages
          /\ Msg("GetOrCreateSession", i).type = "GetOrCreateSession"
      BY MsgOK DEF Msg
    <3> QED BY <1>0, <2>2, <3>1, MapSend DEF ResolveSession
  <2>3. ASSUME NEW i \in Invocations,
               \/ CredentialsUnavailable(i) \/ AskTimeout(i) \/ Detach(i)
               \/ GrainUnreachable(i)
        PROVE  SessionMapAuthoritative'
    BY <2>3, MapUntouched DEF CredentialsUnavailable, AskTimeout, Detach,
       GrainUnreachable
  <2>4. ASSUME NEW i \in Invocations, ReportOutcome(i)
        PROVE  SessionMapAuthoritative'
    <3>1. PICK outcome \in {"ReportSuccess", "ReportFailure"} :
              mailbox' = Append(mailbox, Msg(outcome, i))
      BY <1>0, <2>4 DEF ReportOutcome
    <3>2. Msg(outcome, i) \in Messages /\ Msg(outcome, i).type = outcome
      BY MsgOK DEF Msg
    <3> QED BY <2>4, <3>1, <3>2, MapSend DEF ReportOutcome
  <2>5. ASSUME NEW s \in Sessions, Passivate(s)
        PROVE  SessionMapAuthoritative'
    <3> DEFINE m == Msg("SessionDeactivated", s)
    <3>1. m \in Messages /\ About(m, s) /\ m.type = "SessionDeactivated"
          /\ \A t \in Sessions : t # s => ~About(m, t)
      BY MsgOK DEF Msg, About
    <3>2. /\ live' = live \ {s} /\ sessions' = sessions
          /\ mailbox' = Append(mailbox, m)
      BY <1>0, <2>5 DEF Passivate
    <3> HIDE DEF m
    <3>3. MapHolds(mailbox', live', sessions', s)
      BY <1>0, <3>1, <3>2, MapAppendAbout
    <3>4. ASSUME NEW t \in Sessions, t # s
          PROVE  MapHolds(mailbox', live', sessions', t)
      <4>1. t \in live' <=> t \in live
        BY <3>2, <3>4
      <4> QED BY <1>0, <3>1, <3>2, <3>4, <4>1, MapAppendOther
    <3> QED BY <1>0, <3>3, <3>4, MapHoldsOK
  <2>6. CASE HandleCanAcceptWork \/ HandleReportSuccess
             \/ HandleReportFailure
    BY <2>6, MapTake DEF HandleCanAcceptWork, HandleReportSuccess,
       HandleReportFailure, Receives
  <2>7. CASE HandleGetOrCreateSession
    <3> DEFINE s == SessionOf[Head(mailbox).of]
               m == Msg("SessionActivated", s)
    <3>1. /\ mailbox # <<>> /\ Head(mailbox).type = "GetOrCreateSession"
          /\ Tail(mailbox) \in Seq(Messages)
          /\ s \in Sessions
          /\ \A t \in Sessions : ~About(Head(mailbox), t)
      BY <1>0, <2>7, TakeMessage, MessageOf, SupervisorAssumption
         DEF HandleGetOrCreateSession, Receives, About
    <3>2. \A t \in Sessions : MapHolds(Tail(mailbox), live, sessions, t)
      BY <1>0, <3>1, MapTakeOther
    <3>3. CASE live' = live /\ mailbox' = Tail(mailbox)
      BY <1>0, <2>7, <3>2, <3>3, MapHoldsOK DEF HandleGetOrCreateSession
    <3>4. CASE /\ live' = live \cup {s}
               /\ mailbox' = Append(Tail(mailbox), m)
      <4>1. m \in Messages /\ About(m, s) /\ m.type = "SessionActivated"
            /\ \A t \in Sessions : t # s => ~About(m, t)
        BY <3>1, MsgOK DEF Msg, About
      <4>2. sessions' = sessions /\ s \in live'
        BY <2>7, <3>4 DEF HandleGetOrCreateSession
      <4> HIDE DEF m, s
      <4>3. MapHolds(mailbox', live', sessions', s)
        BY <3>1, <3>4, <4>1, <4>2, MapAppendAbout
      <4>4. ASSUME NEW t \in Sessions, t # s
            PROVE  MapHolds(mailbox', live', sessions', t)
        <5>1. t \in live' <=> t \in live
          BY <3>4, <4>4
        <5> QED BY <3>1, <3>2, <3>4, <4>1, <4>2, <4>4, <5>1, MapAppendOther
      <4> QED BY <1>0, <4>3, <4>4, MapHoldsOK
    <3> QED BY <2>7, <3>3, <3>4 DEF HandleGetOrCreateSession
  <2>8. CASE HandleSessionActivated \/ HandleSessionDeactivated
    <3> DEFINE s == Head(mailbox).of
    <3>1. /\ mailbox # <<>>
          /\ Head(mailbox).type \in {"SessionActivated", "SessionDeactivated"}
          /\ About(Head(mailbox), s)
          /\ \A t \in Sessions : t # s => ~About(Head(mailbox), t)
          /\ mailbox' = Tail(mailbox) /\ live' = live
          /\ s \in sessions' <=> Head(mailbox).type = "SessionActivated"
          /\ \A t \in Sessions : t # s => (t \in sessions' <=> t \in sessions)
      BY <1>0, <2>8 DEF HandleSessionActivated, HandleSessionDeactivated,
         IfAboutTool, Receives, About
    <3> HIDE DEF s
    <3>2. \A t \in Sessions : MapHolds(mailbox', live', sessions', t)
      BY <1>0, <3>1, MapTakeAbout, MapTakeOther
    <3> QED BY <1>0, <3>2, MapHoldsOK
  <2>9. CASE HandleRefreshToolConfig \/ HandleDrainTool
             \/ HandleGetToolStatus \/ HandleResetCircuit \/ HealthProbe
             \/ Tick \/ UNCHANGED vars
    BY <2>9, MapUntouched DEF HandleRefreshToolConfig, HandleDrainTool,
       HandleGetToolStatus, HandleResetCircuit, HealthProbe, Tick, vars
  <2>10. ~StopSupervisor /\ ~SpawnSupervisor
    BY <1>0 DEF StopSupervisor, SpawnSupervisor
  <2> QED BY <2>1, <2>2, <2>3, <2>4, <2>5, <2>6, <2>7, <2>8, <2>9, <2>10
          DEF Next, Handle
<1> QED BY <1>1, <1>2, <1>3 DEF MapInv

LEMMA InitMap == Init => MapInv
<1> SUFFICES ASSUME Init PROVE MapInv
  OBVIOUS
<1>1. SessionMapAuthoritative
  BY DEF Init, SessionMapAuthoritative
<1>2. tool # NoTool
  BY DEF Init, NoTool
<1> QED
  BY <1>1, <1>2, InitTypeOK, NewBreakerOK DEF Init, CircuitWellFormed, MapInv

\* As long as the supervisor is not replaced, its map of sessions and the
\* lifecycle messages in its mailbox together say which grains are active,
\* even when requests time out and activations fail (tool_supervisor.go,
\* handleSessionActivated and handleSessionDeactivated).
THEOREM MapCorrect ==
    ASSUME ~Reregisters
    PROVE  Spec => []SessionMapAuthoritative
<1>1. MapInv => SessionMapAuthoritative
  BY DEF MapInv
<1>2. MapInv /\ [Next]_vars => MapInv'
  BY NextMap
<1> QED BY <1>1, <1>2, InitMap, PTL DEF Spec

----------------------------------------------------------------------------
(* Requests in the mailbox.                                                *)

AskTypes == {"CanAcceptWork", "GetOrCreateSession"}
ReportTypes == {"ReportSuccess", "ReportFailure"}

\* A request in queue q is the one its invocation waits for, and the only one.
Awaited(q, st) ==
    \A k \in 1..Len(q) :
        /\ q[k].type = "CanAcceptWork" => st[q[k].of] = "asked"
        /\ q[k].type = "GetOrCreateSession" => st[q[k].of] = "resolving"
        /\ q[k].type \in AskTypes =>
             \A j \in 1..Len(q) :
                 q[j].type \in AskTypes /\ q[j].of = q[k].of => j = k

RequestsAwaited == running /\ Awaited(mailbox, stage)

\* Nothing in queue q asks for i.
NotAsking(q, i) ==
    \A k \in 1..Len(q) : q[k].type \in AskTypes => q[k].of # i

\* An invocation that waits for neither answer has no request queued.
LEMMA NotAskingOK ==
    ASSUME NEW q, NEW st, NEW i, Awaited(q, st),
           st[i] \notin {"asked", "resolving"}
    PROVE  NotAsking(q, i)
BY DEF Awaited, NotAsking, AskTypes

\* A request is queued.
LEMMA AwaitedAsk ==
    ASSUME NEW q \in Seq(Messages), NEW st \in [Invocations -> Stages],
           NEW i \in Invocations, NEW type \in AskTypes,
           Awaited(q, st), NotAsking(q, i)
    PROVE  Awaited(Append(q, Msg(type, i)),
                   [st EXCEPT ![i] = IF type = "CanAcceptWork" THEN "asked"
                                     ELSE "resolving"])
<1> DEFINE m == Msg(type, i)
           r == Append(q, m)
           tt == [st EXCEPT ![i] = IF type = "CanAcceptWork" THEN "asked"
                                   ELSE "resolving"]
<1>1. m \in Messages /\ m.type = type /\ m.of = i
  BY MsgOK DEF Msg, AskTypes
<1> HIDE DEF m
<1>2. /\ Len(q) \in Nat /\ Len(r) = Len(q) + 1 /\ r[Len(q) + 1] = m
      /\ \A k \in 1..Len(q) : r[k] = q[k] /\ k # Len(q) + 1
      /\ \A k \in 1..Len(r) : k \in 1..Len(q) \/ k = Len(q) + 1
  BY <1>1, AppendPositions
<1>3. /\ tt[i] = IF type = "CanAcceptWork" THEN "asked" ELSE "resolving"
      /\ \A j \in Invocations \ {i} : tt[j] = st[j]
  OBVIOUS
<1>4. \A k \in 1..Len(q) : q[k].type \in AskTypes =>
          q[k].of \in Invocations \ {i}
  BY MessageOf DEF NotAsking, AskTypes
<1> HIDE DEF r, tt
<1>5. ASSUME NEW k \in 1..Len(r)
      PROVE  /\ r[k].type = "CanAcceptWork" => tt[r[k].of] = "asked"
             /\ r[k].type = "GetOrCreateSession" => tt[r[k].of] = "resolving"
             /\ r[k].type \in AskTypes =>
                  \A j \in 1..Len(r) :
                      r[j].type \in AskTypes /\ r[j].of = r[k].of => j = k
  <2>1. CASE k \in 1..Len(q)
    BY <1>1, <1>2, <1>3, <1>4, <2>1 DEF Awaited, AskTypes
  <2>2. CASE k = Len(q) + 1
    BY <1>1, <1>2, <1>3, <1>4, <2>2 DEF AskTypes
  <2> QED BY <1>2, <2>1, <2>2
<1> QED BY <1>5 DEF Awaited, r, tt, m

\* Something else is queued, and those who wait go on waiting.
LEMMA AwaitedTell ==
    ASSUME NEW q \in Seq(Messages), NEW m \in Messages, m.type \notin AskTypes,
           NEW st, NEW tt, Awaited(q, st),
           \A j \in Invocations :
               st[j] \in {"asked", "resolving"} => tt[j] = st[j]
    PROVE  Awaited(Append(q, m), tt)
<1> DEFINE r == Append(q, m)
<1>1. /\ Len(q) \in Nat /\ Len(r) = Len(q) + 1 /\ r[Len(q) + 1] = m
      /\ \A k \in 1..Len(q) : r[k] = q[k]
      /\ \A k \in 1..Len(r) : k \in 1..Len(q) \/ k = Len(q) + 1
  BY AppendPositions
<1>2. \A k \in 1..Len(q) : q[k].type \in AskTypes => q[k].of \in Invocations
  BY MessageOf DEF AskTypes
<1> HIDE DEF r
<1>3. \A k \in 1..Len(r) : r[k].type \in AskTypes =>
          k \in 1..Len(q) /\ r[k] = q[k]
  BY <1>1
<1>4. "CanAcceptWork" \in AskTypes /\ "GetOrCreateSession" \in AskTypes
  BY DEF AskTypes
<1> QED BY <1>2, <1>3, <1>4 DEF Awaited, r

\* The first message is handled; only who waited for it stops waiting.
LEMMA AwaitedTake ==
    ASSUME NEW q \in Seq(Messages), q # <<>>, NEW st, NEW tt, Awaited(q, st),
           \A j \in Invocations :
               st[j] \in {"asked", "resolving"} =>
                   \/ tt[j] = st[j]
                   \/ Head(q).type \in AskTypes /\ Head(q).of = j
    PROVE  Awaited(Tail(q), tt)
<1> DEFINE r == Tail(q)
<1>1. /\ Len(q) \in Nat /\ Len(q) > 0
      /\ Head(q) = q[1] /\ 1 \in 1..Len(q)
      /\ \A k \in 1..Len(r) :
             k + 1 \in 1..Len(q) /\ r[k] = q[k + 1] /\ k + 1 # 1
  BY TailPositions
<1>2. \A k \in 1..Len(q) : q[k].type \in AskTypes => q[k].of \in Invocations
  BY MessageOf DEF AskTypes
<1>3. \A k, j \in 1..Len(r) : k + 1 = j + 1 => k = j
  OBVIOUS
<1>4. "CanAcceptWork" \in AskTypes /\ "GetOrCreateSession" \in AskTypes
  BY DEF AskTypes
<1> HIDE DEF r
<1>5. ASSUME NEW k \in 1..Len(r), r[k].type \in AskTypes
      PROVE  /\ r[k].type = "CanAcceptWork" => tt[r[k].of] = "asked"
             /\ r[k].type = "GetOrCreateSession" => tt[r[k].of] = "resolving"
             /\ \A j \in 1..Len(r) :
                    r[j].type \in AskTypes /\ r[j].of = r[k].of => j = k
  <2>1. ~(Head(q).type \in AskTypes /\ Head(q).of = r[k].of)
    BY <1>1, <1>5 DEF Awaited
  <2>2. /\ r[k].of \in Invocations
        /\ r[k].type = "CanAcceptWork" => st[r[k].of] = "asked"
        /\ r[k].type = "GetOrCreateSession" => st[r[k].of] = "resolving"
    BY <1>1, <1>2, <1>5 DEF Awaited
  <2>3. \A j \in 1..Len(r) :
            r[j].type \in AskTypes /\ r[j].of = r[k].of => j = k
    BY <1>1, <1>3, <1>5 DEF Awaited
  <2> QED BY <2>1, <2>2, <2>3
<1> QED BY <1>4, <1>5 DEF Awaited, r

\* Every request in the mailbox is awaited, as long as nobody gives up and
\* the supervisor is not replaced.
LEMMA NextAwaited ==
    ASSUME ~AsksMayFail, ~Reregisters, TypeOK, RequestsAwaited, [Next]_vars
    PROVE  RequestsAwaited'
<1> USE DEF actorVars
<1>0. /\ mailbox \in Seq(Messages) /\ stage \in [Invocations -> Stages]
      /\ running /\ Awaited(mailbox, stage)
  BY DEF TypeOK, RequestsAwaited
<1>1. ASSUME NEW i \in Invocations, Route(i)
      PROVE  RequestsAwaited'
  <2>1. NotAsking(mailbox, i)
    BY <1>1 DEF Route, NotAsking, AskTypes
  <2>2. Awaited(Append(mailbox, Msg("CanAcceptWork", i)),
                [stage EXCEPT ![i] = "asked"])
    BY <1>0, <2>1, AwaitedAsk DEF AskTypes
  <2> QED BY <1>0, <1>1, <2>2 DEF Route, RequestsAwaited
<1>2. ASSUME NEW i \in Invocations, ResolveSession(i)
      PROVE  RequestsAwaited'
  <2>1. NotAsking(mailbox, i)
    BY <1>0, <1>2, NotAskingOK DEF ResolveSession
  <2>2. Awaited(Append(mailbox, Msg("GetOrCreateSession", i)),
                [stage EXCEPT ![i] = "resolving"])
    BY <1>0, <2>1, AwaitedAsk DEF AskTypes
  <2> QED BY <1>0, <1>2, <2>2 DEF ResolveSession, RequestsAwaited
<1>3. ASSUME NEW i \in Invocations, CredentialsUnavailable(i) \/ Detach(i)
      PROVE  RequestsAwaited'
  <2>1. /\ mailbox' = mailbox /\ running' = running
        /\ \A j \in Invocations :
               stage[j] \in {"asked", "resolving"} => stage'[j] = stage[j]
    BY <1>0, <1>3 DEF CredentialsUnavailable, Detach
  <2>2. \A k \in 1..Len(mailbox) :
            mailbox[k].type \in AskTypes => mailbox[k].of \in Invocations
    BY <1>0, MessageOf DEF AskTypes
  <2> QED BY <1>0, <2>1, <2>2 DEF RequestsAwaited, Awaited, AskTypes
<1>4. ASSUME NEW i \in Invocations, ReportOutcome(i)
      PROVE  RequestsAwaited'
  <2>1. PICK outcome \in ReportTypes :
            mailbox' = Append(mailbox, Msg(outcome, i))
    BY <1>0, <1>4 DEF ReportOutcome, ReportTypes
  <2>2. Msg(outcome, i) \in Messages /\ Msg(outcome, i).type \notin AskTypes
    BY MsgOK DEF Msg, ReportTypes, AskTypes
  <2>3. running' = running
        /\ \A j \in Invocations :
               stage[j] \in {"asked", "resolving"} => stage'[j] = stage[j]
    BY <1>0, <1>4 DEF ReportOutcome
  <2>4. Awaited(Append(mailbox, Msg(outcome, i)), stage')
    BY <1>0, <2>2, <2>3, AwaitedTell
  <2> QED BY <1>0, <2>1, <2>3, <2>4 DEF RequestsAwaited
<1>5. ASSUME NEW s \in Sessions, Passivate(s)
      PROVE  RequestsAwaited'
  <2>1. mailbox' = Append(mailbox, Msg("SessionDeactivated", s))
        /\ stage' = stage /\ running' = running
    BY <1>0, <1>5 DEF Passivate
  <2>2. Msg("SessionDeactivated", s) \in Messages
        /\ Msg("SessionDeactivated", s).type \notin AskTypes
    BY MsgOK DEF Msg, AskTypes
  <2> QED BY <1>0, <2>1, <2>2, AwaitedTell DEF RequestsAwaited
<1>6. CASE HandleCanAcceptWork
  <2>1. /\ mailbox # <<>> /\ Head(mailbox).type \in AskTypes
        /\ mailbox' = Tail(mailbox) /\ running' = running
        /\ \A j \in Invocations : j # Head(mailbox).of => stage'[j] = stage[j]
    BY <1>0, <1>6 DEF HandleCanAcceptWork, Receives, AskTypes
  <2> QED BY <1>0, <2>1, AwaitedTake DEF RequestsAwaited
<1>7. CASE HandleGetOrCreateSession
  <2> DEFINE s == SessionOf[Head(mailbox).of]
             m == Msg("SessionActivated", s)
  <2>1. /\ mailbox # <<>> /\ Head(mailbox).type = "GetOrCreateSession"
        /\ running' = running
        /\ \A j \in Invocations : j # Head(mailbox).of => stage'[j] = stage[j]
        /\ mailbox' \in {Tail(mailbox), Append(Tail(mailbox), m)}
    BY <1>0, <1>7 DEF HandleGetOrCreateSession, Receives
  <2>2. s \in Sessions
    BY <1>0, <2>1, MessageOf, SupervisorAssumption
  <2>3. m \in Messages /\ m.type \notin AskTypes
    BY <2>2, MsgOK DEF Msg, AskTypes
  <2>4. Awaited(Tail(mailbox), stage') /\ Tail(mailbox) \in Seq(Messages)
    <3>1. Head(mailbox).type \in AskTypes
      BY <2>1 DEF AskTypes
    <3>2. Awaited(Tail(mailbox), stage')
      BY <1>0, <2>1, <3>1, AwaitedTake
    <3> QED BY <1>0, <2>1, <3>2
  <2> HIDE DEF m
  <2>5. Awaited(Append(Tail(mailbox), m), stage')
    BY <2>3, <2>4, AwaitedTell
  <2> QED BY <1>0, <2>1, <2>4, <2>5 DEF RequestsAwaited
<1>8. CASE \/ HandleReportSuccess \/ HandleReportFailure
           \/ HandleSessionActivated \/ HandleSessionDeactivated
  <2>1. /\ mailbox # <<>> /\ mailbox' = Tail(mailbox)
        /\ stage' = stage /\ running' = running
    BY <1>8 DEF HandleReportSuccess, HandleReportFailure,
       HandleSessionActivated, HandleSessionDeactivated, Receives
  <2> QED BY <1>0, <2>1, AwaitedTake DEF RequestsAwaited
<1>9. CASE HandleRefreshToolConfig \/ HandleDrainTool
           \/ HandleGetToolStatus \/ HandleResetCircuit \/ HealthProbe
           \/ Tick \/ UNCHANGED vars
  BY <1>0, <1>9 DEF HandleRefreshToolConfig, HandleDrainTool,
     HandleGetToolStatus, HandleResetCircuit, HealthProbe, Tick, vars,
     RequestsAwaited
<1>10. /\ ~StopSupervisor /\ ~SpawnSupervisor
       /\ \A i \in Invocations : ~AskTimeout(i) /\ ~GrainUnreachable(i)
  BY <1>0 DEF StopSupervisor, SpawnSupervisor, AskTimeout, GrainUnreachable
<1> QED BY <1>1, <1>2, <1>3, <1>4, <1>5, <1>6, <1>7, <1>8, <1>9, <1>10
        DEF Next, Handle

----------------------------------------------------------------------------
(* Half-open slots and their owners.                                       *)

\* Every caller that is let through reports: nobody else asks for admission,
\* nothing is lost, and no check after the breaker's turns a caller away.
CallersReport ==
    /\ ~HealthProbing
    /\ ~AsksMayFail
    /\ ~Reregisters
    /\ ~CredentialPolicyRequired
    /\ MaxSessionsPerTool = 0

\* A report of i is in queue q, before any new request of i for admission.
ReportQueued(q, i) ==
    \E k \in 1..Len(q) :
        /\ q[k].type \in ReportTypes /\ q[k].of = i
        /\ \A j \in 1..Len(q) :
            q[j].type = "CanAcceptWork" /\ q[j].of = i => k < j

\* A probe runs, or its report is on the way.
ProbesReport ==
    \A i \in probes : i \in Admitted \/ ReportQueued(mailbox, i)

SlotInv ==
    /\ Inv /\ RequestsAwaited /\ ProbesReport /\ tool # NoTool
    /\ breaker.state = CircuitHalfOpen =>
           breaker.halfOpenInFlight = Cardinality(probes)

\* A queued report stays queued when a message is added ...
LEMMA QueuedAppend ==
    ASSUME NEW q \in Seq(Messages), NEW m \in Messages, NEW i,
           ReportQueued(q, i)
    PROVE  ReportQueued(Append(q, m), i)
<1> DEFINE r == Append(q, m)
<1>1. /\ Len(q) \in Nat /\ Len(r) = Len(q) + 1
      /\ \A k \in 1..Len(q) : r[k] = q[k] /\ k < Len(q) + 1
      /\ \A k \in 1..Len(q) : k \in 1..Len(r)
      /\ \A k \in 1..Len(r) : k \in 1..Len(q) \/ k = Len(q) + 1
  BY AppendPositions
<1> HIDE DEF r
<1> QED BY <1>1 DEF ReportQueued, r

\* ... and when another message is handled.
LEMMA QueuedTake ==
    ASSUME NEW q \in Seq(Messages), q # <<>>, Head(q).type \notin ReportTypes,
           NEW i, ReportQueued(q, i)
    PROVE  ReportQueued(Tail(q), i)
<1> DEFINE r == Tail(q)
<1>1. /\ Len(q) \in Nat /\ Len(q) > 0 /\ Head(q) = q[1]
      /\ \A k \in 1..Len(r) : k + 1 \in 1..Len(q) /\ r[k] = q[k + 1]
      /\ \A k \in 2..Len(q) : k - 1 \in 1..Len(r) /\ r[k - 1] = q[k]
  BY TailPositions
<1>2. PICK k \in 1..Len(q) :
        /\ q[k].type \in ReportTypes /\ q[k].of = i
        /\ \A j \in 1..Len(q) :
            q[j].type = "CanAcceptWork" /\ q[j].of = i => k < j
  BY DEF ReportQueued
<1>3. k \in 2..Len(q)
  BY <1>1, <1>2
<1>4. k - 1 \in 1..Len(r) /\ r[k - 1] = q[k]
  BY <1>1, <1>3
<1>5. ASSUME NEW j \in 1..Len(r), r[j].type = "CanAcceptWork", r[j].of = i
      PROVE  k - 1 < j
  <2>1. k < j + 1
    BY <1>1, <1>2, <1>5
  <2> QED BY <2>1, <1>3
<1> QED BY <1>2, <1>4, <1>5 DEF ReportQueued

\* A report is queued.
LEMMA QueuedReport ==
    ASSUME NEW q \in Seq(Messages), NEW i \in Invocations,
           NEW type \in ReportTypes, NotAsking(q, i)
    PROVE  ReportQueued(Append(q, Msg(type, i)), i)
<1> DEFINE m == Msg(type, i)
           r == Append(q, m)
<1>1. m \in Messages /\ m.type = type /\ m.of = i
  BY MsgOK DEF Msg, ReportTypes
<1> HIDE DEF m
<1>2. /\ Len(q) \in Nat /\ Len(r) = Len(q) + 1 /\ r[Len(q) + 1] = m
      /\ \A k \in 1..Len(q) : r[k] = q[k]
      /\ \A k \in 1..Len(r) : k \in 1..Len(q) \/ k = Len(q) + 1
      /\ Len(q) + 1 \in 1..Len(r)
  BY <1>1, AppendPositions
<1> HIDE DEF r
<1>3. ASSUME NEW j \in 1..Len(r), r[j].type = "CanAcceptWork"
      PROVE  r[j].of # i
  BY <1>1, <1>2, <1>3 DEF NotAsking, AskTypes, ReportTypes
<1> QED BY <1>1, <1>2, <1>3 DEF ReportQueued, r, m

\* Steps that leave the breaker alone keep the slots owned, if those who ran
\* run on or have queued their report.
LEMMA OwnersKept ==
    ASSUME SlotInv, UNCHANGED <<breaker, probes>>,
           \A i \in Invocations :
               /\ i \in Admitted =>
                      i \in Admitted' \/ ReportQueued(mailbox', i)
               /\ ReportQueued(mailbox, i) => ReportQueued(mailbox', i)
    PROVE  ProbesReport' /\ (breaker'.state = CircuitHalfOpen =>
               breaker'.halfOpenInFlight = Cardinality(probes'))
<1>1. probes \subseteq Invocations
  BY DEF SlotInv, Inv, TypeOK
<1> QED BY <1>1 DEF SlotInv, ProbesReport

\* So do steps after which there are no probes.
LEMMA NoProbes ==
    ASSUME probes' = {},
           breaker'.state = CircuitHalfOpen => breaker'.halfOpenInFlight = 0
    PROVE  ProbesReport' /\ (breaker'.state = CircuitHalfOpen =>
               breaker'.halfOpenInFlight = Cardinality(probes'))
<1>1. Cardinality(probes') = 0
  BY FS_EmptySet
<1> QED BY <1>1 DEF ProbesReport

\* A caller that is turned away changes no counter.
LEMMA AcquireRejects ==
    ASSUME NEW b, ~AcquireAccepts(b)
    PROVE  Acquire(b) = MaybeHalfOpen(b)
BY DEF Acquire, AcquireAccepts

\* The lazy move to half-open, without an admission.
LEMMA PeekOwners ==
    ASSUME SlotInv, breaker' = MaybeHalfOpen(breaker),
           Track(MaybeHalfOpen(breaker), {}), Admitted' = Admitted,
           \A i \in Invocations :
               ReportQueued(mailbox, i) => ReportQueued(mailbox', i)
    PROVE  ProbesReport' /\ (breaker'.state = CircuitHalfOpen =>
               breaker'.halfOpenInFlight = Cardinality(probes'))
<1>0. Inv /\ breaker \in Breakers /\ WellFormed(breaker)
  BY DEF SlotInv, Inv, TypeOK, CircuitWellFormed
<1>1. probes' = IF breaker'.state = CircuitHalfOpen THEN probes ELSE {}
  BY <1>0, TrackedProbes
<1>2. CASE MaybeHalfOpen(breaker) = breaker
  <2>1. probes' = probes
    BY <1>0, <1>1, <1>2, ProbesFinite
  <2> QED BY <1>2, <2>1, OwnersKept
<1>3. CASE /\ breaker.state = CircuitOpen
           /\ MaybeHalfOpen(breaker).halfOpenInFlight = 0
  <2>1. probes' = {}
    BY <1>0, <1>1, <1>3, ProbesFinite, DistinctStates
  <2> QED BY <1>3, <2>1, NoProbes
<1> QED BY <1>0, <1>2, <1>3, MaybeHalfOpenOK

LEMMA NextSlots ==
    ASSUME CallersReport, SlotInv, [Next]_vars
    PROVE  SlotInv'
<1> USE DEF actorVars
<1>0. /\ Inv /\ breaker \in Breakers /\ WellFormed(breaker)
      /\ mailbox \in Seq(Messages) /\ stage \in [Invocations -> Stages]
      /\ running /\ tool # NoTool /\ Awaited(mailbox, stage)
      /\ probes \subseteq Invocations
  BY DEF SlotInv, Inv, TypeOK, CircuitWellFormed, RequestsAwaited
<1>1. Inv' /\ RequestsAwaited' /\ tool' # NoTool
  BY <1>0, InvInductive, NextAwaited, ToolKept
     DEF SlotInv, Inv, CallersReport
<1> DEFINE Owned == ProbesReport' /\ (breaker'.state = CircuitHalfOpen =>
                        breaker'.halfOpenInFlight = Cardinality(probes'))
<1> SUFFICES Owned
  BY <1>1 DEF SlotInv
<1>2. ASSUME NEW i \in Invocations, Route(i)
      PROVE  Owned
  <2>1. Admitted' = Admitted
    BY <1>0, <1>2 DEF Route, Admitted
  <2>2. \A j : ReportQueued(mailbox, j) => ReportQueued(mailbox', j)
    BY <1>0, <1>2, QueuedAppend, MsgOK DEF Route
  <2> QED BY <1>2, <2>1, <2>2, OwnersKept DEF Route
<1>3. ASSUME NEW i \in Invocations, ResolveSession(i)
      PROVE  Owned
  <2>1. Admitted' = Admitted
    BY <1>0, <1>3 DEF ResolveSession, Admitted
  <2>2. \A j : ReportQueued(mailbox, j) => ReportQueued(mailbox', j)
    BY <1>0, <1>3, QueuedAppend, MsgOK DEF ResolveSession
  <2> QED BY <1>3, <2>1, <2>2, OwnersKept DEF ResolveSession
<1>4. ASSUME NEW i \in Invocations, Detach(i)
      PROVE  Owned
  <2>1. Admitted' = Admitted
    BY <1>0, <1>4 DEF Detach, Admitted
  <2> QED BY <1>4, <2>1, OwnersKept DEF Detach
<1>5. ASSUME NEW i \in Invocations, ReportOutcome(i)
      PROVE  Owned
  <2>1. PICK outcome \in ReportTypes :
            mailbox' = Append(mailbox, Msg(outcome, i))
    BY <1>0, <1>5 DEF ReportOutcome, ReportTypes
  <2>2. Msg(outcome, i) \in Messages
    BY MsgOK DEF ReportTypes
  <2>3. NotAsking(mailbox, i)
    BY <1>0, <1>5, NotAskingOK DEF ReportOutcome
  <2>4. ReportQueued(mailbox', i)
    BY <1>0, <2>1, <2>3, QueuedReport
  <2>5. \A j : ReportQueued(mailbox, j) => ReportQueued(mailbox', j)
    BY <1>0, <2>1, <2>2, QueuedAppend
  <2>6. \A j \in Admitted : j # i => j \in Admitted'
    BY <1>0, <1>5 DEF ReportOutcome, Admitted
  <2> QED BY <1>5, <2>4, <2>5, <2>6, OwnersKept DEF ReportOutcome
<1>6. ASSUME NEW s \in Sessions, Passivate(s)
      PROVE  Owned
  <2>1. Admitted' = Admitted
    BY <1>6 DEF Passivate, Admitted
  <2>2. \A j : ReportQueued(mailbox, j) => ReportQueued(mailbox', j)
    BY <1>0, <1>6, QueuedAppend, MsgOK DEF Passivate
  <2> QED BY <1>6, <2>1, <2>2, OwnersKept DEF Passivate
<1>7. CASE HandleCanAcceptWork
  <2> DEFINE i == Head(mailbox).of
  <2>1. /\ mailbox # <<>> /\ Head(mailbox).type = "CanAcceptWork"
        /\ mailbox' = Tail(mailbox) /\ breaker' = AfterAcceptCheck
        /\ i \in Invocations
    BY <1>0, <1>7, MessageOf DEF HandleCanAcceptWork, Receives
  <2>2. stage[i] = "asked" /\ Head(mailbox) = mailbox[1]
        /\ 1 \in 1..Len(mailbox)
    <3>1. 1 \in 1..Len(mailbox) /\ Head(mailbox) = mailbox[1]
      BY <1>0, <2>1
    <3> QED BY <1>0, <2>1, <3>1 DEF Awaited
  <2>3. i \notin probes
    <3>1. ~ReportQueued(mailbox, i)
      BY <1>0, <2>1, <2>2 DEF ReportQueued
    <3>2. i \notin Admitted
      BY <2>2 DEF Admitted
    <3> QED BY <3>1, <3>2 DEF SlotInv, ProbesReport
  <2>4. \A j : ReportQueued(mailbox, j) => ReportQueued(mailbox', j)
    BY <1>0, <2>1, QueuedTake DEF ReportTypes
  <2>5. ~AtSessionLimit
    <3>1. tool \in Tools
      BY <1>0 DEF Inv, TypeOK
    <3>2. tool.limit \in 0..0
      BY <3>1, SupervisorAssumption DEF Tools, CallersReport
    <3> QED BY <3>2 DEF AtSessionLimit
  <2>6. CASE Accepts
    <3>1. /\ stage' = [stage EXCEPT ![i] = "accepted"]
          /\ Track(AfterAcceptCheck, {i})
      BY <1>7, <2>2, <2>6 DEF HandleCanAcceptWork
    <3>2. Admitted' = Admitted \cup {i}
      BY <1>0, <2>1, <3>1 DEF Admitted
    <3>3. AfterAcceptCheck = Acquire(breaker) /\ AcquireAccepts(breaker)
      BY <2>6 DEF Accepts, AfterAcceptCheck
    <3>4. probes' = IF breaker'.state = CircuitHalfOpen THEN {i} \cup probes
                    ELSE {}
      BY <1>0, <2>1, <3>1, TrackedProbes
    <3>5. ProbesReport'
      BY <1>0, <2>4, <3>2, <3>4 DEF SlotInv, ProbesReport
    <3>6. ASSUME breaker'.state = CircuitHalfOpen
          PROVE  breaker'.halfOpenInFlight = Cardinality(probes')
      <4>1. breaker'.halfOpenInFlight =
                MaybeHalfOpen(breaker).halfOpenInFlight + 1
        BY <1>0, <2>1, <3>3, <3>6, AcquireOK
      <4>2. probes' = probes \cup {i}
        BY <3>4, <3>6
      <4>3. Cardinality(probes') = Cardinality(probes) + 1
        BY <1>0, <2>3, <4>2, ProbesFinite, FS_AddElement
      <4>4. MaybeHalfOpen(breaker).halfOpenInFlight = Cardinality(probes)
        <5>1. MaybeHalfOpen(breaker).state = CircuitHalfOpen
          BY <1>0, <2>1, <3>3, <3>6, AcquireOK
        <5>2. CASE MaybeHalfOpen(breaker) = breaker
          BY <5>1, <5>2 DEF SlotInv
        <5>3. CASE /\ breaker.state = CircuitOpen
                   /\ MaybeHalfOpen(breaker).halfOpenInFlight = 0
          BY <1>0, <5>3, ProbesFinite, DistinctStates
        <5> QED BY <1>0, <5>2, <5>3, MaybeHalfOpenOK
      <4> QED BY <4>1, <4>3, <4>4
    <3> QED BY <3>5, <3>6
  <2>7. CASE ~Accepts
    <3>1. /\ stage' = [stage EXCEPT ![i] = "idle"]
          /\ Track(AfterAcceptCheck, {})
      BY <1>7, <2>2, <2>7 DEF HandleCanAcceptWork
    <3>2. Admitted' = Admitted
      BY <1>0, <2>1, <2>2, <3>1 DEF Admitted
    <3>3. CASE Admissible
      <4>1. AfterAcceptCheck = MaybeHalfOpen(breaker)
        BY <2>5, <2>7, <3>3, AcquireRejects DEF Accepts, AfterAcceptCheck
      <4> QED BY <2>1, <2>4, <3>1, <3>2, <4>1, PeekOwners
    <3>4. CASE ~Admissible
      <4>1. AfterAcceptCheck = breaker
        BY <3>4 DEF AfterAcceptCheck
      <4>2. probes' = probes
        <5>1. Track(breaker, {})
          BY <3>1, <4>1
        <5>2. probes' = IF breaker.state = CircuitHalfOpen THEN {} \cup probes
                        ELSE {}
          BY <1>0, <5>1, TrackedProbes
        <5> QED BY <1>0, <5>2, ProbesFinite
      <4> QED BY <2>1, <2>4, <3>2, <4>1, <4>2, OwnersKept
    <3> QED BY <3>3, <3>4
  <2> QED BY <2>6, <2>7
<1>8. CASE HandleGetOrCreateSession
  <2> DEFINE i == Head(mailbox).of
             s == SessionOf[i]
             m == Msg("SessionActivated", s)
  <2>1. /\ mailbox # <<>> /\ Head(mailbox).type = "GetOrCreateSession"
        /\ i \in Invocations /\ Tail(mailbox) \in Seq(Messages)
        /\ s \in Sessions
    BY <1>0, <1>8, TakeMessage, MessageOf, SupervisorAssumption
       DEF HandleGetOrCreateSession, Receives
  <2>2. /\ mailbox' \in {Tail(mailbox), Append(Tail(mailbox), m)}
        /\ \/ stage' = stage
           \/ /\ stage[i] = "resolving"
              /\ stage' = [stage EXCEPT ![i] = "executing"]
    BY <1>0, <1>8 DEF HandleGetOrCreateSession, CallersReport
  <2>3. Admitted' = Admitted
    BY <1>0, <2>1, <2>2 DEF Admitted
  <2>4. m \in Messages
    BY <2>1, MsgOK
  <2> HIDE DEF m
  <2>5. \A j : ReportQueued(mailbox, j) => ReportQueued(Tail(mailbox), j)
    BY <1>0, <2>1, QueuedTake DEF ReportTypes
  <2>6. \A j : ReportQueued(mailbox, j) => ReportQueued(mailbox', j)
    BY <2>1, <2>2, <2>4, <2>5, QueuedAppend
  <2> QED BY <1>8, <2>3, <2>6, OwnersKept DEF HandleGetOrCreateSession
<1>9. CASE HandleReportSuccess \/ HandleReportFailure
  <2>1. /\ breaker'.state # CircuitHalfOpen
        /\ Track(breaker', {})
    <3>1. /\ breaker.state \in CircuitStates
          /\ OnSuccess(breaker).state # CircuitHalfOpen
      BY <1>0, OnSuccessOK, BreakerFields, DistinctStates
    <3>2. OnFailure(breaker).state # CircuitHalfOpen
      BY <1>0, <3>1, OnFailureOK, DistinctStates
    <3>3. \/ breaker' = OnSuccess(breaker) /\ Track(OnSuccess(breaker), {})
          \/ breaker' = OnFailure(breaker) /\ Track(OnFailure(breaker), {})
      BY <1>0, <1>9, CountedReport
    <3> QED BY <3>1, <3>2, <3>3
  <2>2. probes' = {}
    BY <1>0, <2>1, TrackedProbes
  <2> QED BY <2>1, <2>2, NoProbes
<1>10. CASE HandleSessionActivated \/ HandleSessionDeactivated
  <2>1. /\ mailbox # <<>> /\ mailbox' = Tail(mailbox)
        /\ Head(mailbox).type \notin ReportTypes
        /\ UNCHANGED <<breaker, probes, stage>>
    BY <1>10 DEF HandleSessionActivated, HandleSessionDeactivated, Receives,
       ReportTypes
  <2>2. \A j : ReportQueued(mailbox, j) => ReportQueued(mailbox', j)
    BY <1>0, <2>1, QueuedTake
  <2> QED BY <2>1, <2>2, OwnersKept DEF Admitted
<1>11. CASE HandleRefreshToolConfig \/ HandleDrainTool \/ UNCHANGED vars
  <2>1. UNCHANGED <<breaker, probes, stage, mailbox>>
    BY <1>11 DEF HandleRefreshToolConfig, HandleDrainTool, vars
  <2> QED BY <2>1, OwnersKept DEF Admitted
<1>12. CASE HandleGetToolStatus
  BY <1>12, PeekOwners DEF HandleGetToolStatus, Peek, Admitted
<1>13. CASE HandleResetCircuit
  <2>1. /\ breaker'.state # CircuitHalfOpen
        /\ Track(breaker', {})
    BY <1>0, <1>13, ResetOK, DistinctStates DEF HandleResetCircuit
  <2>2. probes' = {}
    BY <1>0, <2>1, TrackedProbes
  <2> QED BY <2>1, <2>2, NoProbes
<1>14. CASE Tick
  <2>1. /\ breaker'.state # CircuitHalfOpen
        /\ breaker.state # CircuitHalfOpen /\ probes' = probes
    BY <1>0, <1>14, ElapseOK, DistinctStates DEF Tick
  <2>2. probes' = {}
    BY <1>0, <2>1, ProbesFinite
  <2> QED BY <2>1, <2>2, NoProbes
<1>15. /\ ~StopSupervisor /\ ~SpawnSupervisor /\ ~HealthProbe
       /\ \A i \in Invocations : /\ ~AskTimeout(i) /\ ~GrainUnreachable(i)
                                 /\ ~CredentialsUnavailable(i)
  BY <1>0 DEF StopSupervisor, SpawnSupervisor, AskTimeout, HealthProbe,
     CredentialsUnavailable, GrainUnreachable, CallersReport
<1> QED BY <1>2, <1>3, <1>4, <1>5, <1>6, <1>7, <1>8, <1>9, <1>10, <1>11,
           <1>12, <1>13, <1>14, <1>15 DEF Next, Handle

LEMMA InitSlots == Init => SlotInv
<1> SUFFICES ASSUME Init PROVE SlotInv
  OBVIOUS
<1>1. Inv
  BY InvInductive
<1>2. RequestsAwaited
  BY DEF Init, RequestsAwaited, Awaited
<1>3. ProbesReport /\ tool # NoTool /\ breaker.state # CircuitHalfOpen
  BY DistinctStates DEF Init, ProbesReport, NewCircuitBreaker, NoTool
<1> QED BY <1>1, <1>2, <1>3 DEF SlotInv

\* What mcp/circuit.go says of Acquire, "the caller is committed to reporting
\* the outcome", is enough for every half-open slot to be released by its
\* owner, however requests, reports, resets and status queries interleave and
\* invocations are issued again.
THEOREM SlotsHaveOwners ==
    ASSUME CallersReport
    PROVE  Spec => []SlotsOwned
<1>1. SlotInv => SlotsOwned
  BY DEF SlotInv, ProbesReport, ReportQueued, ReportTypes, Admitted,
     SlotsOwned, WillReport
<1>2. SlotInv /\ [Next]_vars => SlotInv'
  BY NextSlots
<1> QED BY <1>1, <1>2, InitSlots, PTL DEF Spec

----------------------------------------------------------------------------
(* The limit on sessions.                                                  *)

\* Nobody gives up on a request and the supervisor is not replaced.
NothingLost == ~AsksMayFail /\ ~Reregisters

\* The queued messages that register a session.
ActivationsIn(q) == {k \in 1..Len(q) : q[k].type = "SessionActivated"}

\* Invocations that may still activate a session.
Activating == {i \in Invocations : stage[i] \in {"accepted", "resolving"}}

\* Every activation in the queue q is owed to a router of its own, which is
\* not that of an invocation in A and has been granted nothing since: what it
\* asks for is queued behind the activation.
Owes(by, q, A) ==
    /\ by \in [ActivationsIn(q) -> Routers]
    /\ \A k, j \in ActivationsIn(q) : by[k] = by[j] => k = j
    /\ \A k \in ActivationsIn(q), i \in A : by[k] # RouterOf[i]
    /\ \A k \in ActivationsIn(q), j \in 1..Len(q) :
           /\ q[j].type = "CanAcceptWork"
           /\ RouterOf[q[j].of] = by[k]
           => k < j

OneEach == \E by : Owes(by, mailbox, Activating)

\* A router waits for one answer at a time.
Waiting == {"asked", "accepted", "resolving", "executing"}
OneAtATime ==
    \A i, j \in Invocations :
        /\ stage[i] \in Waiting /\ stage[j] \in Waiting
        /\ RouterOf[i] = RouterOf[j]
        => i = j

\* The sessions that are active and those that may be soon.
Claimed == live \cup {SessionOf[i] : i \in Activating}

CapInv ==
    /\ MapInv /\ RequestsAwaited /\ OneAtATime /\ OneEach
    /\ 0 \notin SessionLimits =>
           Cardinality(Claimed) <= MaxSessionsPerTool + Cardinality(Routers) - 1

\* Another message is queued: it is behind every activation.
LEMMA OwesAppend ==
    ASSUME NEW q \in Seq(Messages), NEW m \in Messages,
           m.type # "SessionActivated",
           NEW by, NEW A, Owes(by, q, A), NEW B, B \subseteq A
    PROVE  Owes(by, Append(q, m), B)
<1> DEFINE r == Append(q, m)
<1>1. /\ Len(q) \in Nat /\ Len(r) = Len(q) + 1 /\ r[Len(q) + 1] = m
      /\ \A k \in 1..Len(q) : r[k] = q[k] /\ k < Len(q) + 1 /\ k \in 1..Len(r)
      /\ \A k \in 1..Len(r) : k \in 1..Len(q) \/ k = Len(q) + 1
  BY AppendPositions
<1> HIDE DEF r
<1>2. ActivationsIn(r) = ActivationsIn(q)
  BY <1>1 DEF ActivationsIn
<1>3. ActivationsIn(q) \subseteq 1..Len(q)
  BY DEF ActivationsIn
<1>4. ASSUME NEW k \in ActivationsIn(q), NEW j \in 1..Len(r),
             r[j].type = "CanAcceptWork", RouterOf[r[j].of] = by[k]
      PROVE  k < j
  BY <1>1, <1>3, <1>4 DEF Owes
<1>5. Owes(by, r, B)
  BY <1>2, <1>4 DEF Owes
<1> QED BY <1>5 DEF r

\* The first message is handled.  What it may grant is to a router to whom no
\* activation is owed, for its request would be behind the activation.
LEMMA OwesTake ==
    ASSUME NEW q \in Seq(Messages), q # <<>>,
           NEW by, NEW A, Owes(by, q, A), NEW B,
           \A i \in B : \/ i \in A
                        \/ Head(q).type = "CanAcceptWork" /\ Head(q).of = i
    PROVE  \E c : Owes(c, Tail(q), B)
<1> DEFINE r == Tail(q)
           c == [k \in ActivationsIn(r) |-> by[k + 1]]
<1>1. /\ Len(q) \in Nat /\ Len(q) > 0 /\ Head(q) = q[1] /\ 1 \in 1..Len(q)
      /\ \A k \in 1..Len(r) : k \in Nat /\ k + 1 \in 1..Len(q)
                              /\ r[k] = q[k + 1]
  BY TailPositions
<1> HIDE DEF r
<1>2. \A k \in ActivationsIn(r) : /\ k \in 1..Len(r) /\ k \in Nat
                                  /\ k + 1 \in ActivationsIn(q)
  BY <1>1 DEF ActivationsIn
<1>3. c \in [ActivationsIn(r) -> Routers]
  BY <1>2 DEF Owes
<1>4. ASSUME NEW k \in ActivationsIn(r), NEW j \in ActivationsIn(r),
             c[k] = c[j]
      PROVE  k = j
  <2>1. k + 1 = j + 1
    BY <1>2, <1>4 DEF Owes
  <2> QED BY <1>2, <2>1
<1>5. ASSUME NEW k \in ActivationsIn(r), NEW i \in B
      PROVE  c[k] # RouterOf[i]
  <2>1. CASE i \in A
    BY <1>2, <2>1 DEF Owes
  <2>2. CASE Head(q).type = "CanAcceptWork" /\ Head(q).of = i
    <3>1. k + 1 \in ActivationsIn(q) /\ c[k] = by[k + 1] /\ ~(k + 1 < 1)
      BY <1>2
    <3> QED BY <1>1, <2>2, <3>1 DEF Owes
  <2> QED BY <2>1, <2>2
<1>6. ASSUME NEW k \in ActivationsIn(r), NEW j \in 1..Len(r),
             r[j].type = "CanAcceptWork", RouterOf[r[j].of] = c[k]
      PROVE  k < j
  <2>1. k + 1 < j + 1
    BY <1>1, <1>2, <1>6 DEF Owes
  <2> QED BY <1>1, <1>2, <2>1
<1> HIDE DEF c
<1>7. Owes(c, r, B)
  BY <1>3, <1>4, <1>5, <1>6 DEF Owes
<1> QED BY <1>7 DEF r

\* An invocation of A activates its session: the message is owed to its
\* router, which asks for nothing else.
LEMMA OwesActivate ==
    ASSUME NEW q \in Seq(Messages), NEW m \in Messages,
           NEW by, NEW A, Owes(by, q, A),
           NEW i \in A, RouterOf[i] \in Routers,
           NEW B, \A j \in B : j \in A /\ RouterOf[j] # RouterOf[i],
           \A k \in 1..Len(q) :
               q[k].type = "CanAcceptWork" => RouterOf[q[k].of] # RouterOf[i],
           m.type = "SessionActivated"
    PROVE  \E c : Owes(c, Append(q, m), B)
<1> DEFINE r == Append(q, m)
           n == Len(q) + 1
           c == [k \in ActivationsIn(r) |-> IF k = n THEN RouterOf[i] ELSE by[k]]
<1>1. /\ Len(q) \in Nat /\ Len(r) = n /\ r[n] = m
      /\ \A k \in 1..Len(q) : r[k] = q[k] /\ k < n /\ k # n
      /\ \A k \in 1..Len(r) : k \in 1..Len(q) \/ k = n
  BY AppendPositions
<1> HIDE DEF r, n
<1>2. \A k \in ActivationsIn(r) : k \in ActivationsIn(q) \/ k = n
  BY <1>1 DEF ActivationsIn
<1>3. \A k \in ActivationsIn(q) : k \in 1..Len(q) /\ k # n /\ k < n
  BY <1>1 DEF ActivationsIn
<1>4. c \in [ActivationsIn(r) -> Routers]
  BY <1>2 DEF Owes
<1>5. \A k \in ActivationsIn(q) : by[k] # RouterOf[i]
  BY DEF Owes
<1>6. \A k, j \in ActivationsIn(r) : c[k] = c[j] => k = j
  BY <1>2, <1>3, <1>5 DEF Owes
<1>7. \A k \in ActivationsIn(r), j \in B : c[k] # RouterOf[j]
  BY <1>2 DEF Owes
<1>8. ASSUME NEW k \in ActivationsIn(r), NEW j \in 1..Len(r),
             r[j].type = "CanAcceptWork", RouterOf[r[j].of] = c[k]
      PROVE  k < j
  <2>1. j \in 1..Len(q) /\ r[j] = q[j]
    BY <1>1, <1>8
  <2>2. k # n /\ k \in ActivationsIn(q) /\ c[k] = by[k]
    BY <1>2, <1>8, <2>1
  <2> QED BY <1>8, <2>1, <2>2 DEF Owes
<1> HIDE DEF c
<1>9. Owes(c, r, B)
  BY <1>4, <1>6, <1>7, <1>8 DEF Owes
<1> QED BY <1>9 DEF r

\* A set of positions that is not empty has a last one.
LEMMA LastPosition ==
    ASSUME NEW n \in Nat, NEW K, K \subseteq 1..n, K # {}
    PROVE  \E k \in K : \A j \in K : j <= k
<1> DEFINE T == {n - k : k \in K}
           R == OpToRel(<, Nat)
<1>1. T \subseteq Nat /\ T # {}
  <2>1. \A k \in K : n - k \in Nat
    OBVIOUS
  <2> QED BY <2>1
<1>2. IsWellFoundedOn(R, Nat)
  BY NatLessThanWellFounded
<1>3. PICK x \in T : \A y \in T : ~(<<y, x>> \in R)
  <2> HIDE DEF R, T
  <2> QED BY <1>1, <1>2, WFMin
<1>4. \A y \in T : ~(y < x)
  BY <1>1, <1>3 DEF OpToRel
<1>5. PICK k \in K : x = n - k
  BY <1>3
<1>6. ASSUME NEW j \in K PROVE j <= k
  <2>1. ~(n - j < n - k)
    BY <1>4, <1>5
  <2>2. j \in Nat /\ k \in Nat
    OBVIOUS
  <2> QED BY <2>1, <2>2
<1> QED BY <1>6

\* A session that is active is registered, or its registration is queued.
LEMMA LiveCovered ==
    ASSUME TypeOK, SessionMapAuthoritative, NEW s \in live
    PROVE  \/ s \in sessions
           \/ \E k \in ActivationsIn(mailbox) : mailbox[k].of = s
<1> DEFINE K == {k \in 1..Len(mailbox) : About(mailbox[k], s)}
<1>0. mailbox \in Seq(Messages) /\ s \in Sessions /\ Len(mailbox) \in Nat
  BY DEF TypeOK
<1>1. CASE K = {}
  <2>1. NoneBeyond(0, s)
    BY <1>1 DEF NoneBeyond
  <2> QED BY <1>0, <2>1 DEF SessionMapAuthoritative
<1>2. CASE K # {}
  <2>1. PICK k \in K : \A j \in K : j <= k
    <3> HIDE DEF K
    <3>1. K \subseteq 1..Len(mailbox)
      BY DEF K
    <3> QED BY <1>0, <1>2, <3>1, LastPosition
  <2>2. k \in 1..Len(mailbox) /\ About(mailbox[k], s)
    BY <2>1
  <2>3. ASSUME NEW j \in (k + 1)..Len(mailbox)
        PROVE  ~About(mailbox[j], s)
    <3>1. j \in 1..Len(mailbox) /\ ~(j <= k)
      BY <1>0, <2>2
    <3> QED BY <2>1, <3>1
  <2>4. mailbox[k].type = "SessionActivated" /\ mailbox[k].of = s
    BY <1>0, <2>2, <2>3 DEF SessionMapAuthoritative, NoneBeyond, About
  <2> QED BY <2>2, <2>4 DEF ActivationsIn
<1> QED BY <1>1, <1>2

\* A router serves session s when it is owed the activation of s or waits in
\* an invocation that may activate s.
Serves(by, r, s) ==
    \/ \E k \in ActivationsIn(mailbox) : by[k] = r /\ mailbox[k].of = s
    \/ \E i \in Activating : RouterOf[i] = r /\ SessionOf[i] = s

\* The sessions claimed are the registered ones and at most one per router.
LEMMA ClaimedBound ==
    TypeOK /\ SessionMapAuthoritative /\ OneAtATime /\ OneEach =>
        Cardinality(Claimed) <= Cardinality(sessions) + Cardinality(Routers)
<1> SUFFICES ASSUME TypeOK, SessionMapAuthoritative, OneAtATime, OneEach
             PROVE  Cardinality(Claimed) <=
                        Cardinality(sessions) + Cardinality(Routers)
  OBVIOUS
<1> DEFINE D == ActivationsIn(mailbox)
           E == {mailbox[k].of : k \in D} \cup {SessionOf[i] : i \in Activating}
<1>1. PICK by : Owes(by, mailbox, Activating)
  BY DEF OneEach
<1> DEFINE f == [s \in E |-> CHOOSE r \in Routers : Serves(by, r, s)]
<1>2. ASSUME NEW s \in E
      PROVE  \E r \in Routers : Serves(by, r, s)
  <2>1. CASE \E k \in D : mailbox[k].of = s
    BY <1>1, <2>1 DEF Owes, Serves
  <2>2. CASE \E i \in Activating : SessionOf[i] = s
    BY <2>2, SupervisorAssumption DEF Serves, Activating
  <2> QED BY <2>1, <2>2
<1>3. \A i, j \in Activating : RouterOf[i] = RouterOf[j] => i = j
  BY DEF OneAtATime, Activating, Waiting
<1>4. \A r, s, t : Serves(by, r, s) /\ Serves(by, r, t) => s = t
  BY <1>1, <1>3 DEF Serves, Owes
<1>5. f \in [E -> Routers] /\ \A s \in E : Serves(by, f[s], s)
  BY <1>2
<1> HIDE DEF f, E
<1>6. f \in Injection(E, Routers)
  BY <1>4, <1>5 DEF Injection, IsInjective
<1>7. IsFiniteSet(E) /\ Cardinality(E) <= Cardinality(Routers)
  BY <1>6, SupervisorAssumption, FS_Injection
<1>8. IsFiniteSet(sessions)
  BY SupervisorAssumption, FS_Subset DEF TypeOK
<1>9. Claimed \subseteq sessions \cup E
  BY LiveCovered DEF Claimed, E
<1>10. /\ IsFiniteSet(sessions \cup E)
       /\ Cardinality(sessions \cup E) =
              Cardinality(sessions) + Cardinality(E) - Cardinality(sessions \cap E)
  BY <1>7, <1>8, FS_Union
<1>11. /\ IsFiniteSet(sessions \cap E) /\ IsFiniteSet(Claimed)
       /\ Cardinality(Claimed) <= Cardinality(sessions \cup E)
  BY <1>8, <1>9, <1>10, FS_Subset, FS_Intersection
<1>12. /\ Cardinality(sessions) \in Nat /\ Cardinality(E) \in Nat
       /\ Cardinality(sessions \cap E) \in Nat /\ Cardinality(Routers) \in Nat
       /\ Cardinality(Claimed) \in Nat /\ Cardinality(sessions \cup E) \in Nat
  BY <1>7, <1>8, <1>10, <1>11, SupervisorAssumption, FS_CardinalityType
<1> QED BY <1>7, <1>10, <1>11, <1>12

LEMMA ClaimedFinite == TypeOK => IsFiniteSet(Claimed)
<1> SUFFICES ASSUME TypeOK PROVE IsFiniteSet(Claimed)
  OBVIOUS
<1>1. Claimed \subseteq Sessions
  BY SupervisorAssumption DEF TypeOK, Claimed, Activating
<1> QED BY <1>1, SupervisorAssumption, FS_Subset

\* A step that claims no new session.
LEMMA NoneClaimed ==
    ASSUME CapInv, Claimed' \subseteq Claimed
    PROVE  0 \notin SessionLimits =>
               Cardinality(Claimed') <=
                   MaxSessionsPerTool + Cardinality(Routers) - 1
<1>1. IsFiniteSet(Claimed)
  BY ClaimedFinite DEF CapInv, MapInv
<1>2. IsFiniteSet(Claimed') /\ Cardinality(Claimed') <= Cardinality(Claimed)
  BY <1>1, FS_Subset
<1>3. /\ Cardinality(Claimed) \in Nat /\ Cardinality(Claimed') \in Nat
      /\ Cardinality(Routers) \in Nat /\ MaxSessionsPerTool \in Nat
  BY <1>1, <1>2, FS_CardinalityType, SupervisorAssumption
<1> QED BY <1>2, <1>3 DEF CapInv

LEMMA NextOneAtATime ==
    ASSUME TypeOK, OneAtATime, [Next]_vars
    PROVE  OneAtATime'
<1> USE DEF actorVars
<1>0. mailbox \in Seq(Messages) /\ stage \in [Invocations -> Stages]
  BY DEF TypeOK
<1>1. ASSUME NEW i \in Invocations, Route(i)
      PROVE  OneAtATime'
  <2>1. /\ stage' = [stage EXCEPT ![i] = "asked"]
        /\ \A j \in Invocations : stage[j] \in Waiting =>
               RouterOf[j] # RouterOf[i]
    BY <1>1 DEF Route, Busy, Waiting
  <2> QED BY <1>0, <2>1 DEF OneAtATime
<1>2. CASE \A j \in Invocations :
               stage'[j] \in Waiting => stage[j] \in Waiting
  BY <1>2 DEF OneAtATime
<1>3. ASSUME NEW i \in Invocations,
             \/ ResolveSession(i) \/ CredentialsUnavailable(i) \/ AskTimeout(i)
             \/ Detach(i) \/ GrainUnreachable(i) \/ ReportOutcome(i)
      PROVE  OneAtATime'
  <2>1. \A j \in Invocations : stage'[j] \in Waiting => stage[j] \in Waiting
    BY <1>0, <1>3 DEF ResolveSession, CredentialsUnavailable, AskTimeout,
       Detach, GrainUnreachable, ReportOutcome, Waiting
  <2> QED BY <1>2, <2>1
<1>4. CASE HandleCanAcceptWork \/ HandleGetOrCreateSession
  <2>1. \A j \in Invocations : stage'[j] \in Waiting => stage[j] \in Waiting
    BY <1>0, <1>4 DEF HandleCanAcceptWork, HandleGetOrCreateSession, Waiting
  <2> QED BY <1>2, <2>1
<1>5. CASE StopSupervisor
  <2>1. \A j \in Invocations : stage'[j] \in Waiting => stage[j] \in Waiting
    BY <1>0, <1>5 DEF StopSupervisor, Waiting
  <2> QED BY <1>2, <2>1
<1>6. CASE \/ \E s \in Sessions : Passivate(s)
           \/ HandleReportSuccess \/ HandleReportFailure
           \/ HandleSessionActivated \/ HandleSessionDeactivated
           \/ HandleRefreshToolConfig \/ HandleDrainTool
           \/ HandleGetToolStatus \/ HandleResetCircuit \/ HealthProbe
           \/ SpawnSupervisor \/ Tick \/ UNCHANGED vars
  <2>1. stage' = stage
    BY <1>6 DEF Passivate, HandleReportSuccess, HandleReportFailure,
       HandleSessionActivated, HandleSessionDeactivated,
       HandleRefreshToolConfig, HandleDrainTool, HandleGetToolStatus,
       HandleResetCircuit, HealthProbe, SpawnSupervisor, Tick, vars
  <2> QED BY <2>1 DEF OneAtATime
<1> QED BY <1>1, <1>3, <1>4, <1>5, <1>6 DEF Next, Handle

LEMMA NextOneEach ==
    ASSUME NothingLost, CapInv, [Next]_vars
    PROVE  OneEach'
<1> USE DEF actorVars
<1>0. /\ mailbox \in Seq(Messages) /\ stage \in [Invocations -> Stages]
      /\ running /\ Awaited(mailbox, stage) /\ OneAtATime
  BY DEF CapInv, MapInv, TypeOK, RequestsAwaited
<1>1. PICK by : Owes(by, mailbox, Activating)
  BY DEF CapInv, OneEach
<1>2. ASSUME NEW m \in Messages, m.type # "SessionActivated",
             mailbox' = Append(mailbox, m), Activating' \subseteq Activating
      PROVE  OneEach'
  BY <1>0, <1>1, <1>2, OwesAppend DEF OneEach
<1>3. ASSUME mailbox' = mailbox, Activating' \subseteq Activating
      PROVE  OneEach'
  <2>1. Owes(by, mailbox, Activating')
    BY <1>1, <1>3 DEF Owes
  <2> QED BY <1>3, <2>1 DEF OneEach
<1>4. ASSUME mailbox # <<>>, mailbox' = Tail(mailbox),
             Activating' \subseteq Activating
      PROVE  OneEach'
  BY <1>0, <1>1, <1>4, OwesTake DEF OneEach
<1>5. ASSUME NEW i \in Invocations, Route(i)
      PROVE  OneEach'
  <2>1. Activating' \subseteq Activating
    BY <1>0, <1>5 DEF Route, Activating
  <2>2. Msg("CanAcceptWork", i) \in Messages
        /\ Msg("CanAcceptWork", i).type # "SessionActivated"
    BY MsgOK DEF Msg
  <2> QED BY <1>2, <1>5, <2>1, <2>2 DEF Route
<1>6. ASSUME NEW i \in Invocations, ResolveSession(i)
      PROVE  OneEach'
  <2>1. Activating' \subseteq Activating
    BY <1>0, <1>6 DEF ResolveSession, Activating
  <2>2. Msg("GetOrCreateSession", i) \in Messages
        /\ Msg("GetOrCreateSession", i).type # "SessionActivated"
    BY MsgOK DEF Msg
  <2>3. mailbox' = Append(mailbox, Msg("GetOrCreateSession", i))
    BY <1>0, <1>6 DEF ResolveSession
  <2> QED BY <1>2, <2>1, <2>2, <2>3
<1>7. ASSUME NEW i \in Invocations, CredentialsUnavailable(i) \/ Detach(i)
      PROVE  OneEach'
  <2>1. Activating' \subseteq Activating /\ mailbox' = mailbox
    BY <1>0, <1>7 DEF CredentialsUnavailable, Detach, Activating
  <2> QED BY <1>3, <2>1
<1>8. ASSUME NEW i \in Invocations, ReportOutcome(i)
      PROVE  OneEach'
  <2>1. Activating' \subseteq Activating
    BY <1>0, <1>8 DEF ReportOutcome, Activating
  <2>2. PICK outcome \in ReportTypes :
            mailbox' = Append(mailbox, Msg(outcome, i))
    BY <1>0, <1>8 DEF ReportOutcome, ReportTypes
  <2>3. Msg(outcome, i) \in Messages
        /\ Msg(outcome, i).type # "SessionActivated"
    BY MsgOK DEF Msg, ReportTypes
  <2> QED BY <1>2, <2>1, <2>2, <2>3
<1>9. ASSUME NEW s \in Sessions, Passivate(s)
      PROVE  OneEach'
  <2>1. /\ Activating' \subseteq Activating
        /\ mailbox' = Append(mailbox, Msg("SessionDeactivated", s))
    BY <1>0, <1>9 DEF Passivate, Activating
  <2>2. Msg("SessionDeactivated", s) \in Messages
        /\ Msg("SessionDeactivated", s).type # "SessionActivated"
    BY MsgOK DEF Msg
  <2> QED BY <1>2, <2>1, <2>2
<1>10. CASE HandleCanAcceptWork
  <2>1. /\ mailbox # <<>> /\ mailbox' = Tail(mailbox)
        /\ Head(mailbox).type = "CanAcceptWork"
        /\ \A j \in Activating' : j \in Activating \/ Head(mailbox).of = j
    BY <1>0, <1>10 DEF HandleCanAcceptWork, Receives, Activating
  <2> QED BY <1>0, <1>1, <2>1, OwesTake DEF OneEach
<1>11. CASE HandleGetOrCreateSession
  <2>1. PICK i \in Invocations :
            /\ mailbox # <<>> /\ Head(mailbox).of = i
            /\ Head(mailbox).type = "GetOrCreateSession"
            /\ Tail(mailbox) \in Seq(Messages)
    BY <1>0, <1>11, TakeMessage, MessageOf
       DEF HandleGetOrCreateSession, Receives
  <2>2. stage[i] = "resolving"
    <3>1. 1 \in 1..Len(mailbox) /\ Head(mailbox) = mailbox[1]
      BY <1>0, <2>1, TailPositions
    <3> QED BY <1>0, <2>1, <3>1 DEF Awaited
  <2>3. /\ stage' = [stage EXCEPT ![i] = "executing"]
        /\ mailbox' \in {Tail(mailbox), Append(Tail(mailbox),
                                   Msg("SessionActivated", SessionOf[i]))}
    BY <1>11, <2>1, <2>2
       DEF HandleGetOrCreateSession, NothingLost, CapInv, MapInv
  <2>4. Activating' = Activating \ {i} /\ i \in Activating
    BY <1>0, <2>2, <2>3 DEF Activating
  <2>5. CASE mailbox' = Tail(mailbox)
    BY <1>4, <2>1, <2>4, <2>5
  <2>6. CASE mailbox' =
                 Append(Tail(mailbox), Msg("SessionActivated", SessionOf[i]))
    <3> DEFINE m == Msg("SessionActivated", SessionOf[i])
    <3>1. m \in Messages /\ m.type = "SessionActivated"
      BY MsgOK, SupervisorAssumption DEF Msg
    <3>2. PICK c : Owes(c, Tail(mailbox), Activating)
      BY <1>0, <1>1, <2>1, OwesTake
    <3>3. \A j \in Activating' : j \in Activating /\ RouterOf[j] # RouterOf[i]
      BY <1>0, <2>2, <2>4 DEF OneAtATime, Activating, Waiting
    <3>4. ASSUME NEW k \in 1..Len(Tail(mailbox)),
                 Tail(mailbox)[k].type = "CanAcceptWork"
          PROVE  RouterOf[Tail(mailbox)[k].of] # RouterOf[i]
      <4>1. k + 1 \in 1..Len(mailbox) /\ Tail(mailbox)[k] = mailbox[k + 1]
        BY <1>0, <2>1, TailPositions
      <4>2. PICK j : j = mailbox[k + 1].of
        OBVIOUS
      <4>3. stage[j] = "asked" /\ j \in Invocations
        BY <1>0, <3>4, <4>1, <4>2, MessageOf DEF Awaited
      <4> QED BY <1>0, <2>2, <4>1, <4>2, <4>3 DEF OneAtATime, Waiting
    <3>5. RouterOf[i] \in Routers
      BY SupervisorAssumption
    <3> HIDE DEF m
    <3>6. PICK q : q = Tail(mailbox)
      OBVIOUS
    <3>7. PICK B : B = Activating'
      OBVIOUS
    <3>8. /\ q \in Seq(Messages) /\ Owes(c, q, Activating)
          /\ \A j \in B : j \in Activating /\ RouterOf[j] # RouterOf[i]
          /\ \A k \in 1..Len(q) :
                 q[k].type = "CanAcceptWork" => RouterOf[q[k].of] # RouterOf[i]
      BY <2>1, <3>2, <3>3, <3>4, <3>6, <3>7
    <3>9. \E d : Owes(d, Append(q, m), B)
      BY <2>4, <3>1, <3>5, <3>8, OwesActivate
    <3> QED BY <2>6, <3>6, <3>7, <3>9 DEF OneEach, m
  <2> QED BY <2>3, <2>5, <2>6
<1>12. CASE \/ HandleReportSuccess \/ HandleReportFailure
            \/ HandleSessionActivated \/ HandleSessionDeactivated
  <2>1. /\ mailbox # <<>> /\ mailbox' = Tail(mailbox)
        /\ Activating' = Activating
    BY <1>12 DEF HandleReportSuccess, HandleReportFailure, Activating,
       HandleSessionActivated, HandleSessionDeactivated, Receives
  <2> QED BY <1>4, <2>1
<1>13. CASE \/ HandleRefreshToolConfig \/ HandleDrainTool
            \/ HandleGetToolStatus \/ HandleResetCircuit \/ HealthProbe
            \/ Tick \/ UNCHANGED vars
  <2>1. mailbox' = mailbox /\ Activating' = Activating
    BY <1>13 DEF HandleRefreshToolConfig, HandleDrainTool, Activating,
       HandleGetToolStatus, HandleResetCircuit, HealthProbe, Tick, vars
  <2> QED BY <1>3, <2>1
<1>14. /\ ~StopSupervisor /\ ~SpawnSupervisor
       /\ \A i \in Invocations : ~AskTimeout(i) /\ ~GrainUnreachable(i)
  BY <1>0 DEF StopSupervisor, SpawnSupervisor, AskTimeout, GrainUnreachable,
     NothingLost
<1> QED BY <1>5, <1>6, <1>7, <1>8, <1>9, <1>10, <1>11, <1>12, <1>13, <1>14
        DEF Next, Handle

\* Only an admission claims a session, and it is made when the registered
\* sessions leave room.
LEMMA NextCap ==
    ASSUME NothingLost, CapInv, [Next]_vars
    PROVE  CapInv'
<1> USE DEF actorVars
<1>0. /\ MapInv /\ TypeOK /\ RequestsAwaited /\ OneAtATime /\ OneEach
      /\ mailbox \in Seq(Messages) /\ stage \in [Invocations -> Stages]
      /\ running /\ Awaited(mailbox, stage)
  BY DEF CapInv, MapInv, TypeOK, RequestsAwaited
<1>1. MapInv' /\ RequestsAwaited' /\ OneAtATime' /\ OneEach'
  BY <1>0, NextMap, NextAwaited, NextOneAtATime, NextOneEach DEF NothingLost
<1>2. 0 \notin SessionLimits =>
          Cardinality(Claimed') <= MaxSessionsPerTool + Cardinality(Routers) - 1
  <2>1. CASE HandleCanAcceptWork /\ ~AtSessionLimit
    <3>1. sessions' = sessions
      BY <2>1 DEF HandleCanAcceptWork
    <3>2. (TypeOK /\ SessionMapAuthoritative /\ OneAtATime /\ OneEach)' =>
              (Cardinality(Claimed) <=
                   Cardinality(sessions) + Cardinality(Routers))'
      BY ClaimedBound, PTL
    <3>3. Cardinality(Claimed') <= Cardinality(sessions) + Cardinality(Routers)
      BY <1>1, <3>1, <3>2 DEF MapInv
    <3>4. TypeOK' => IsFiniteSet(Claimed)'
      BY ClaimedFinite, PTL
    <3>5. IsFiniteSet(Claimed') /\ IsFiniteSet(sessions)
      BY <1>0, <1>1, <3>4, SupervisorAssumption, FS_Subset DEF TypeOK, MapInv
    <3>6. /\ Cardinality(Claimed') \in Nat /\ Cardinality(sessions) \in Nat
          /\ Cardinality(Routers) \in Nat /\ MaxSessionsPerTool \in Nat
      BY <3>5, FS_CardinalityType, SupervisorAssumption
    <3>7. tool \in Tools
      BY <1>0 DEF MapInv, TypeOK
    <3>8. tool.limit \in SessionLimits /\ tool.limit \in 0..MaxSessionsPerTool
      BY <3>7, SupervisorAssumption DEF Tools
    <3>9. 0 \notin SessionLimits => Cardinality(sessions) < MaxSessionsPerTool
      BY <2>1, <3>6, <3>8 DEF AtSessionLimit
    <3> QED BY <3>3, <3>6, <3>9
  <2>2. CASE HandleCanAcceptWork /\ AtSessionLimit
    <3>1. live' = live /\ Activating' \subseteq Activating
      BY <1>0, <2>2 DEF HandleCanAcceptWork, Accepts, Activating
    <3>2. Claimed' \subseteq Claimed
      BY <3>1 DEF Claimed
    <3> QED BY <3>2, NoneClaimed
  <2>3. CASE HandleGetOrCreateSession
    <3>1. PICK i \in Invocations :
              mailbox # <<>> /\ Head(mailbox) = mailbox[1]
              /\ mailbox[1].of = i /\ mailbox[1].type = "GetOrCreateSession"
              /\ 1 \in 1..Len(mailbox)
      BY <1>0, <2>3, TailPositions, MessageOf
         DEF HandleGetOrCreateSession, Receives
    <3>2. i \in Activating
      BY <1>0, <3>1 DEF Awaited, Activating
    <3>3. live' \subseteq live \cup {SessionOf[i]}
          /\ Activating' \subseteq Activating
      BY <1>0, <2>3, <3>1 DEF HandleGetOrCreateSession, Activating
    <3>4. Claimed' \subseteq Claimed
      BY <3>2, <3>3 DEF Claimed
    <3> QED BY <3>4, NoneClaimed
  <2>4. ASSUME NEW i \in Invocations,
               \/ Route(i) \/ ResolveSession(i) \/ CredentialsUnavailable(i)
               \/ AskTimeout(i) \/ Detach(i) \/ GrainUnreachable(i)
               \/ ReportOutcome(i)
        PROVE  Claimed' \subseteq Claimed
    <3>1. live' = live /\ Activating' \subseteq Activating
      BY <1>0, <2>4 DEF Route, ResolveSession, CredentialsUnavailable,
         AskTimeout, Detach, GrainUnreachable, ReportOutcome, Activating
    <3> QED BY <3>1 DEF Claimed
  <2>5. CASE \/ \E s \in Sessions : Passivate(s)
             \/ HandleReportSuccess \/ HandleReportFailure
             \/ HandleSessionActivated \/ HandleSessionDeactivated
             \/ HandleRefreshToolConfig \/ HandleDrainTool
             \/ HandleGetToolStatus \/ HandleResetCircuit \/ HealthProbe
             \/ Tick \/ UNCHANGED vars
    <3>1. live' \subseteq live /\ Activating' = Activating
      BY <2>5 DEF Passivate, HandleReportSuccess, HandleReportFailure,
         HandleSessionActivated, HandleSessionDeactivated,
         HandleRefreshToolConfig, HandleDrainTool, HandleGetToolStatus,
         HandleResetCircuit, HealthProbe, Tick, vars, Activating
    <3>2. Claimed' \subseteq Claimed
      BY <3>1 DEF Claimed
    <3> QED BY <3>2, NoneClaimed
  <2>6. ~StopSupervisor /\ ~SpawnSupervisor
    BY <1>0 DEF StopSupervisor, SpawnSupervisor, NothingLost
  <2> QED BY <2>1, <2>2, <2>3, <2>4, <2>5, <2>6, NoneClaimed DEF Next, Handle
<1> QED BY <1>1, <1>2 DEF CapInv

LEMMA InitCap == Init => CapInv
<1> SUFFICES ASSUME Init PROVE CapInv
  OBVIOUS
<1>1. MapInv
  BY InitMap
<1>2. RequestsAwaited /\ OneAtATime
  BY DEF Init, RequestsAwaited, Awaited, OneAtATime, Waiting
<1>3. ActivationsIn(mailbox) = {} /\ Len(mailbox) = 0
  BY DEF Init, ActivationsIn
<1>4. OneEach
  <2> DEFINE by == [k \in {} |-> RouterOf]
  <2>1. Owes(by, mailbox, Activating)
    BY <1>3 DEF Owes
  <2> QED BY <2>1 DEF OneEach
<1>5. Claimed = {}
  BY DEF Init, Claimed, Activating
<1>6. Cardinality(Claimed) = 0 /\ Cardinality(Routers) \in Nat
      /\ MaxSessionsPerTool \in Nat /\ MaxSessionsPerTool \in SessionLimits
  BY <1>5, FS_EmptySet, FS_CardinalityType, SupervisorAssumption
<1> QED BY <1>1, <1>2, <1>4, <1>6 DEF CapInv

\* MaxSessionsPerTool is checked at admission and the session registered by a
\* later message (tool_supervisor.go, handleCanAcceptWork).  With any number
\* of routers and invocations, streams that outlive their request included,
\* and any changes of the limit that leave the tool with one, the active
\* sessions exceed the greatest limit by less than one per router.
THEOREM OvershootBounded ==
    ASSUME NothingLost
    PROVE  Spec => []SessionOvershootBounded
<1>1. CapInv => SessionOvershootBounded
  <2> SUFFICES ASSUME CapInv, 0 \notin SessionLimits
               PROVE  Cardinality(live) <=
                          MaxSessionsPerTool + Cardinality(Routers) - 1
    BY DEF SessionOvershootBounded
  <2>1. IsFiniteSet(Claimed) /\ live \subseteq Claimed
    BY ClaimedFinite DEF CapInv, MapInv, Claimed
  <2>2. IsFiniteSet(live) /\ Cardinality(live) <= Cardinality(Claimed)
    BY <2>1, FS_Subset
  <2>3. /\ Cardinality(live) \in Nat /\ Cardinality(Claimed) \in Nat
        /\ Cardinality(Routers) \in Nat /\ MaxSessionsPerTool \in Nat
    BY <2>1, <2>2, FS_CardinalityType, SupervisorAssumption
  <2> QED BY <2>2, <2>3 DEF CapInv
<1>2. CapInv /\ [Next]_vars => CapInv'
  BY NextCap
<1> QED BY <1>1, <1>2, InitCap, PTL DEF Spec

====
