---- MODULE CircuitBreaker ----
(***************************************************************************)
(* mcp.CircuitBreaker (mcp/circuit.go): the per-tool breaker as a value    *)
(* and the operations on it.  The breaker is owned by one actor, so each   *)
(* method is a function from a breaker to the breaker it leaves behind.    *)
(*                                                                         *)
(* Wall-clock time enters the code only as now - openedAt compared with    *)
(* OpenDuration.  A breaker therefore carries openFor, the time since it   *)
(* was opened, which Tick advances and which saturates at OpenDuration.    *)
(***************************************************************************)
EXTENDS Integers

CONSTANTS
    FailureThreshold,     \* CircuitConfig.FailureThreshold as configured
    OpenDuration,         \* CircuitConfig.OpenDuration as configured
    HalfOpenMaxRequests   \* CircuitConfig.HalfOpenMaxRequests as configured

ASSUME CircuitConfigAssumption ==
    /\ FailureThreshold \in Int
    /\ OpenDuration \in Int
    /\ HalfOpenMaxRequests \in Int

CircuitClosed == "closed"
CircuitOpen == "open"
CircuitHalfOpen == "half_open"
CircuitStates == {CircuitClosed, CircuitOpen, CircuitHalfOpen}

\* Defaults of the code; the open duration is counted in units of 10 seconds.
DefaultCircuitFailureThreshold == 5
DefaultCircuitOpenDuration == 3
DefaultCircuitHalfOpenMaxRequests == 1

\* sanitizeCircuitConfig: the effective parameters.
Threshold ==
    IF FailureThreshold <= 0 THEN DefaultCircuitFailureThreshold
    ELSE FailureThreshold
Cooldown ==
    IF OpenDuration <= 0 THEN DefaultCircuitOpenDuration
    ELSE OpenDuration
ProbeLimit ==
    IF HalfOpenMaxRequests <= 0 THEN DefaultCircuitHalfOpenMaxRequests
    ELSE HalfOpenMaxRequests

Breakers ==
    [state : CircuitStates,
     failureCount : Nat,
     openFor : 0..Cooldown,
     halfOpenInFlight : Nat]

NewCircuitBreaker ==
    [state |-> CircuitClosed, failureCount |-> 0,
     openFor |-> 0, halfOpenInFlight |-> 0]

\* Mutant: the slots survive a transition.
TransitionToKeepsSlots(b, target) ==
    [state |-> target,
     failureCount |-> IF target = CircuitClosed THEN 0 ELSE b.failureCount,
     openFor |-> 0,
     halfOpenInFlight |-> b.halfOpenInFlight]

\* transitionTo: enter target and reset what belongs to it.  The failure
\* count survives opening and half-opening; openedAt is only read while open.
TransitionTo(b, target) ==
    [state |-> target,
     failureCount |-> IF target = CircuitClosed THEN 0 ELSE b.failureCount,
     openFor |-> 0,
     halfOpenInFlight |-> 0]

MaybeHalfOpen(b) ==
    IF b.state = CircuitOpen /\ b.openFor >= Cooldown
    THEN TransitionTo(b, CircuitHalfOpen)
    ELSE b

Peek(b) == MaybeHalfOpen(b)

\* Mutant: the limit is off by one.
AcquireAcceptsOneMore(b) ==
    LET c == MaybeHalfOpen(b) IN
        \/ c.state = CircuitClosed
        \/ c.state = CircuitHalfOpen /\ c.halfOpenInFlight <= ProbeLimit

\* Acquire is two functions of the breaker: whether the caller may proceed,
\* and the breaker afterwards.
AcquireAccepts(b) ==
    LET c == MaybeHalfOpen(b) IN
        \/ c.state = CircuitClosed
        \/ c.state = CircuitHalfOpen /\ c.halfOpenInFlight < ProbeLimit

\* Mutant: an admitted probe is not counted.
AcquireUncounted(b) == MaybeHalfOpen(b)

Acquire(b) ==
    LET c == MaybeHalfOpen(b) IN
        IF c.state = CircuitHalfOpen /\ c.halfOpenInFlight < ProbeLimit
        THEN [c EXCEPT !.halfOpenInFlight = @ + 1]
        ELSE c

\* Mutant: a success gives its slot back and leaves the others.
OnSuccessReleasesSlot(b) ==
    CASE b.state = CircuitHalfOpen ->
           [b EXCEPT !.state = CircuitClosed, !.failureCount = 0,
                     !.halfOpenInFlight = @ - 1]
      [] b.state = CircuitClosed -> [b EXCEPT !.failureCount = 0]
      [] OTHER -> b

OnSuccess(b) ==
    CASE b.state = CircuitHalfOpen -> TransitionTo(b, CircuitClosed)
      [] b.state = CircuitClosed   -> [b EXCEPT !.failureCount = 0]
      [] OTHER                     -> b

\* Mutant: only failures in the closed state count.
OnFailureIgnoresProbe(b) ==
    LET counted == [b EXCEPT !.failureCount = @ + 1] IN
        IF b.state = CircuitClosed
        THEN IF counted.failureCount >= Threshold
             THEN TransitionTo(counted, CircuitOpen)
             ELSE counted
        ELSE b

OnFailure(b) ==
    LET counted == [b EXCEPT !.failureCount = @ + 1] IN
        CASE b.state = CircuitHalfOpen -> TransitionTo(b, CircuitOpen)
          [] b.state = CircuitClosed ->
               IF counted.failureCount >= Threshold
               THEN TransitionTo(counted, CircuitOpen)
               ELSE counted
          [] OTHER -> b

Reset(b) ==
    IF b.state = CircuitClosed
    THEN [b EXCEPT !.failureCount = 0, !.halfOpenInFlight = 0]
    ELSE TransitionTo(b, CircuitClosed)

\* One unit of wall-clock time, as the breaker sees it.
Elapse(b) ==
    IF b.state = CircuitOpen /\ b.openFor < Cooldown
    THEN [b EXCEPT !.openFor = @ + 1]
    ELSE b

----------------------------------------------------------------------------

\* The counters of a breaker agree with its state.
WellFormed(b) ==
    /\ b.state = CircuitClosed => b.failureCount < Threshold
    /\ b.state # CircuitClosed => b.failureCount = Threshold
    /\ b.state # CircuitHalfOpen => b.halfOpenInFlight = 0
    /\ b.halfOpenInFlight <= ProbeLimit

====
