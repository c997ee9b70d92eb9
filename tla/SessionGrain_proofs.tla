---- MODULE SessionGrain_proofs ----
(***************************************************************************)
(* Proofs about the session grain, for any number of requests, executors,  *)
(* activations, recoveries and concurrent streams.                         *)
(***************************************************************************)
EXTENDS SessionGrain, FiniteSetTheorems, TLAPS

----------------------------------------------------------------------------
(* The invariant.                                                          *)

Messages == [type : {"SessionActivated", "SessionDeactivated",
                     "ReportSuccess", "ReportFailure"},
             of : Requests \cup {NoRequest}]

\* OnReceive runs only in an active grain, and dispatches to g.executor.
Serial ==
    /\ handling # NoRequest => grain = "active"
    /\ step # "idle" => handling # NoRequest
    /\ step \in {"executing", "recovering", "retrying", "falling_back"} =>
           executor # NoExecutor /\ target = executor
    /\ grain = "inactive" => executor = NoExecutor

\* Streams live within the activation that started them.
StreamsWithin == \A r \in Requests : Forwarding(r) => grain # "inactive"

\* A producer that has closed its channels has left a result in Final.
Ended(s) == s.producer = "ended" => s.final \in Outcomes

EndedHasFinal == \A r \in Requests : Ended(stream[r])

Inv ==
    /\ TypeOK
    /\ NoExecutorLeaked
    /\ Serial
    /\ StreamsWithin
    /\ EndedHasFinal

----------------------------------------------------------------------------
(* Types.                                                                  *)

\* What is told to the supervisor is a message.
LEMMA ToldOK ==
    ASSUME told \in Seq(Messages)
    PROVE  /\ \A type \in {"SessionActivated", "SessionDeactivated"} :
                Tell(type, NoRequest) => told' \in Seq(Messages)
           /\ \A r \in Requests : \A outcome :
                ReportOutcomeToSupervisor(r, outcome)
                    => told' \in Seq(Messages)
<1>1. \A m \in Messages : Append(told, m) \in Seq(Messages)
  OBVIOUS
<1>2. \A type \in {"SessionActivated", "SessionDeactivated"} :
          [type |-> type, of |-> NoRequest] \in Messages
  BY DEF Messages
<1>3. \A type \in {"ReportSuccess", "ReportFailure"}, r \in Requests :
          [type |-> type, of |-> r] \in Messages
  BY DEF Messages
<1> QED BY <1>1, <1>2, <1>3 DEF Tell, ReportOutcomeToSupervisor

\* A new executor is one that was not there before.
LEMMA CreatedOK ==
    ASSUME CanCreate
    PROVE  Created \in Executors /\ handles[Created] = "none"
BY DEF CanCreate, Created

\* The fields of a stream.
LEMMA StreamFields ==
    ASSUME NEW s \in Streams
    PROVE  /\ s.producer \in {"none", "producing", "sending", "ended"}
           /\ s.source \in Executors \cup {NoExecutor}
           /\ s.sent \in 0..EventBound
           /\ s.final \in Outcomes \cup {"none"}
           /\ s.forwarder \in {"none", "receiving", "offering", "reporting",
                               "done"}
           /\ s.outcome \in Outcomes \cup {"none"}
           /\ s.caller \in Outcomes \cup {"open", "empty"}
           /\ s.consumer \in {"none", "reading", "busy", "gone", "ended"}
BY DEF Streams

\* A fresh stream, and one that has just started, are streams.
LEMMA NewStreamOK ==
    /\ NoStream \in Streams
    /\ \A e \in Executors, c \in {"reading", "gone"} :
           NewStream(e, c) \in Streams
<1>1. 0 \in 0..EventBound
  BY GrainAssumption
<1> QED BY <1>1 DEF NoStream, NewStream, Streams, Outcomes

\* The steps of a stream's goroutines: one stream changes, to what, and how
\* its forwarder moves.
StreamStep(r) ==
    \/ Producer(r) \/ Forwarder(r) \/ ConsumerSends(r) \/ ConsumerEnds(r)

LEMMA StreamStepOK ==
    ASSUME Inv, NEW r \in Requests, StreamStep(r)
    PROVE  /\ UNCHANGED <<engine, answer>>
           /\ told' \in Seq(Messages)
           /\ \E s \in Streams :
                /\ stream' = [stream EXCEPT ![r] = s]
                /\ Ended(s)
                /\ s.forwarder \notin {"none", "done"} => Forwarding(r)
<1>0. /\ stream \in [Requests -> Streams]
      /\ stream[r] \in Streams
      /\ Ended(stream[r])
      /\ told \in Seq(Messages)
  BY DEF Inv, TypeOK, EndedHasFinal, Messages
<1>a. UNCHANGED <<engine, answer>>
  BY DEF StreamStep, Producer, Forwarder, ProducerReceives, ProducerEnds,
     ForwarderReceives, ForwarderDelivers, SendTimeout, ForwarderDrained,
     ForwarderReports, ConsumerSends, ConsumerEnds
<1> DEFINE Goal == \E s \in Streams :
                     /\ stream' = [stream EXCEPT ![r] = s]
                     /\ Ended(s)
                     /\ s.forwarder \notin {"none", "done"} => Forwarding(r)
<1>1. CASE ProducerReceives(r)
  <2> DEFINE s == [stream[r] EXCEPT !.producer = "sending", !.sent = @ + 1]
  <2>1. stream' = [stream EXCEPT ![r] = s]
    BY <1>0, <1>1 DEF ProducerReceives
  <2>2. stream[r].sent + 1 \in 0..EventBound
    BY <1>0, <1>1, StreamFields, GrainAssumption DEF ProducerReceives
  <2>3. /\ s \in Streams
        /\ Ended(s)
        /\ s.forwarder = stream[r].forwarder
    BY <1>0, <2>2 DEF Streams, Ended
  <2>4. Goal
    BY <2>1, <2>3 DEF Forwarding
  <2> QED BY <1>a, <1>0, <1>1, <2>4 DEF ProducerReceives
<1>2. CASE ProducerEnds(r)
  <2>1. PICK outcome \in Outcomes :
            stream' = [stream EXCEPT ![r].producer = "ended",
                                     ![r].final = outcome]
    BY <1>2 DEF ProducerEnds
  <2> DEFINE s == [stream[r] EXCEPT !.producer = "ended", !.final = outcome]
  <2>2. stream' = [stream EXCEPT ![r] = s]
    BY <1>0, <2>1
  <2>3. /\ s \in Streams
        /\ Ended(s)
        /\ s.forwarder = stream[r].forwarder
    BY <1>0 DEF Streams, Ended
  <2>4. Goal
    BY <2>2, <2>3 DEF Forwarding
  <2> QED BY <1>a, <1>0, <1>2, <2>4 DEF ProducerEnds
<1>3. CASE ForwarderReceives(r)
  <2> DEFINE s == [stream[r] EXCEPT !.forwarder = "offering",
                                    !.producer = "producing"]
  <2>1. stream' = [stream EXCEPT ![r] = s]
    BY <1>0, <1>3 DEF ForwarderReceives
  <2>2. s \in Streams /\ Ended(s)
    BY <1>0 DEF Streams, Ended
  <2>3. Goal
    BY <1>3, <2>1, <2>2 DEF Forwarding, ForwarderReceives
  <2> QED BY <1>a, <1>0, <1>3, <2>3 DEF ForwarderReceives
<1>4. CASE ForwarderDelivers(r)
  <2> DEFINE s == [stream[r] EXCEPT !.forwarder = "receiving",
                                    !.consumer = "busy"]
  <2>1. stream' = [stream EXCEPT ![r] = s]
    BY <1>0, <1>4 DEF ForwarderDelivers
  <2>2. s \in Streams /\ Ended(s)
    BY <1>0 DEF Streams, Ended
  <2>3. Goal
    BY <1>4, <2>1, <2>2 DEF Forwarding, ForwarderDelivers
  <2> QED BY <1>a, <1>0, <1>4, <2>3 DEF ForwarderDelivers
<1>5. CASE SendTimeout(r)
  <2> DEFINE left == IF stream[r].producer = "ended" THEN stream[r].final
                     ELSE "empty"
             s == [stream[r] EXCEPT !.forwarder = "reporting",
                                    !.outcome = "failure", !.caller = left]
  <2>1. stream' = [stream EXCEPT ![r] = s]
    BY <1>0, <1>5 DEF SendTimeout
  <2>2. left \in Outcomes \cup {"open", "empty"}
    BY <1>0 DEF Ended
  <2>3. s \in Streams /\ Ended(s)
    <3>1. "failure" \in Outcomes
      BY DEF Outcomes
    <3> HIDE DEF left
    <3>2. s \in Streams
      BY <1>0, <2>2, <3>1 DEF Streams
    <3>3. s.producer = stream[r].producer /\ s.final = stream[r].final
      BY <1>0 DEF Streams
    <3> QED BY <1>0, <3>2, <3>3 DEF Ended
  <2>4. Goal
    BY <1>5, <2>1, <2>3 DEF Forwarding, SendTimeout
  <2> QED BY <1>a, <1>0, <1>5, <2>4 DEF SendTimeout
<1>6. CASE ForwarderDrained(r)
  <2> DEFINE s == [stream[r] EXCEPT !.forwarder = "reporting",
                                    !.outcome = stream[r].final,
                                    !.caller = stream[r].final]
  <2>1. stream' = [stream EXCEPT ![r] = s]
    BY <1>0, <1>6 DEF ForwarderDrained
  <2>2. stream[r].final \in Outcomes
    BY <1>0, <1>6 DEF Ended, ForwarderDrained
  <2>3. s \in Streams /\ Ended(s)
    BY <1>0, <2>2 DEF Streams, Ended
  <2>4. Goal
    BY <1>6, <2>1, <2>3 DEF Forwarding, ForwarderDrained
  <2> QED BY <1>a, <1>0, <1>6, <2>4 DEF ForwarderDrained
<1>7. CASE ForwarderReports(r)
  <2> DEFINE s == [stream[r] EXCEPT !.forwarder = "done"]
  <2>1. stream' = [stream EXCEPT ![r] = s]
    BY <1>0, <1>7 DEF ForwarderReports
  <2>2. s \in Streams /\ Ended(s) /\ s.forwarder = "done"
    BY <1>0 DEF Streams, Ended
  <2>3. Goal
    BY <2>1, <2>2
  <2>4. told' \in Seq(Messages)
    BY <1>0, <1>7, ToldOK DEF ForwarderReports
  <2> QED BY <1>a, <2>3, <2>4
<1>8. CASE ConsumerSends(r)
  <2>1. PICK c \in {"reading", "gone"} :
            stream' = [stream EXCEPT ![r].consumer = c]
    BY <1>8 DEF ConsumerSends
  <2> DEFINE s == [stream[r] EXCEPT !.consumer = c]
  <2>2. stream' = [stream EXCEPT ![r] = s]
    BY <1>0, <2>1
  <2>3. /\ s \in Streams
        /\ Ended(s)
        /\ s.forwarder = stream[r].forwarder
    BY <1>0 DEF Streams, Ended
  <2>4. Goal
    BY <2>2, <2>3 DEF Forwarding
  <2> QED BY <1>a, <1>0, <1>8, <2>4 DEF ConsumerSends
<1>9. CASE ConsumerEnds(r)
  <2> DEFINE s == [stream[r] EXCEPT !.consumer = "ended"]
  <2>1. stream' = [stream EXCEPT ![r] = s]
    BY <1>0, <1>9 DEF ConsumerEnds
  <2>2. /\ s \in Streams
        /\ Ended(s)
        /\ s.forwarder = stream[r].forwarder
    BY <1>0 DEF Streams, Ended
  <2>3. Goal
    BY <2>1, <2>2 DEF Forwarding
  <2> QED BY <1>a, <1>0, <1>9, <2>3 DEF ConsumerEnds
<1> QED
  BY <1>1, <1>2, <1>3, <1>4, <1>5, <1>6, <1>7, <1>8, <1>9
     DEF StreamStep, Producer, Forwarder

----------------------------------------------------------------------------
(* The invariant is inductive.                                             *)

LEMMA InitInv == Init => Inv
<1> SUFFICES ASSUME Init PROVE Inv
  OBVIOUS
<1>1. stream \in [Requests -> Streams]
  BY NewStreamOK DEF Init
<1>2. \A r \in Requests : ~Forwarding(r) /\ Ended(stream[r])
  BY DEF Init, NoStream, Forwarding, Ended
<1>3. TypeOK
  BY <1>1 DEF Init, TypeOK
<1>4. NoExecutorLeaked /\ Serial
  BY GrainAssumption DEF Init, NoExecutorLeaked, Serial
<1> QED BY <1>2, <1>3, <1>4 DEF Inv, StreamsWithin, EndedHasFinal

\* Steps that leave the streams alone and keep the grain active keep what is
\* said of the streams.
LEMMA StreamsKept ==
    ASSUME Inv, UNCHANGED stream,
           grain' = "inactive" => grain = "inactive" \/ StreamsDone
    PROVE  /\ stream' \in [Requests -> Streams]
           /\ StreamsWithin'
           /\ EndedHasFinal'
BY DEF Inv, TypeOK, StreamsWithin, EndedHasFinal, Ended, Forwarding,
   StreamsDone

LEMMA OnActivateInv == ASSUME Inv, OnActivate PROVE Inv'
<1>1. told' \in Seq(Messages)
  BY ToldOK DEF Inv, TypeOK, OnActivate, Messages
<1>2. /\ stream' \in [Requests -> Streams]
      /\ StreamsWithin'
      /\ EndedHasFinal'
  BY StreamsKept DEF OnActivate
<1>3. /\ handles' \in [Executors -> {"none", "open", "closed"}]
      /\ executor' \in Executors \cup {NoExecutor}
      /\ NoExecutorLeaked'
  <2>1. CASE setup.factory
    <3>1. /\ CanCreate
          /\ executor' = Created
          /\ handles' = [handles EXCEPT ![Created] = "open"]
      BY <2>1 DEF OnActivate
    <3>2. Created \in Executors
      BY <3>1, CreatedOK
    <3>3. /\ handles \in [Executors -> {"none", "open", "closed"}]
          /\ \A e \in Executors : handles[e] # "open"
      BY GrainAssumption
         DEF Inv, TypeOK, NoExecutorLeaked, Serial, OnActivate
    <3> HIDE DEF Created
    <3> QED BY <3>1, <3>2, <3>3 DEF NoExecutorLeaked
  <2>2. CASE ~setup.factory
    BY <2>2 DEF OnActivate, Inv, TypeOK, NoExecutorLeaked
  <2> QED BY <2>1, <2>2
<1>4. TypeOK'
  BY <1>1, <1>2, <1>3 DEF Inv, TypeOK, OnActivate, Messages
<1>5. Serial'
  BY DEF Inv, Serial, OnActivate
<1> QED BY <1>2, <1>3, <1>4, <1>5 DEF Inv

LEMMA BeginDeactivateInv == ASSUME Inv, BeginDeactivate PROVE Inv'
<1>1. /\ stream' \in [Requests -> Streams]
      /\ StreamsWithin'
      /\ EndedHasFinal'
  BY StreamsKept DEF BeginDeactivate
<1>2. TypeOK'
  BY DEF Inv, TypeOK, BeginDeactivate
<1>3. NoExecutorLeaked' /\ Serial'
  BY DEF Inv, NoExecutorLeaked, Serial, BeginDeactivate
<1> QED BY <1>1, <1>2, <1>3 DEF Inv

LEMMA OnDeactivateInv == ASSUME Inv, OnDeactivate PROVE Inv'
<1>1. told' \in Seq(Messages)
  BY ToldOK DEF Inv, TypeOK, OnDeactivate, Messages
<1>2. /\ stream' \in [Requests -> Streams]
      /\ StreamsWithin'
      /\ EndedHasFinal'
  BY StreamsKept DEF OnDeactivate
<1>3. /\ handles' \in [Executors -> {"none", "open", "closed"}]
      /\ NoExecutorLeaked'
  BY GrainAssumption
     DEF OnDeactivate, CloseExecutor, Inv, TypeOK, NoExecutorLeaked
<1>4. TypeOK'
  BY <1>1, <1>2, <1>3 DEF Inv, TypeOK, OnDeactivate, Messages
<1>5. Serial'
  BY DEF Inv, Serial, OnDeactivate
<1> QED BY <1>2, <1>3, <1>4, <1>5 DEF Inv

\* The steps of OnReceive that change neither g.executor nor a stream.
LEMMA HandlerInv ==
    ASSUME Inv,
           UNCHANGED <<setup, grain, executor, handles, stream>>,
           handling' \in Requests \cup {NoRequest},
           step' \in {"idle", "executing", "retrying", "recovering",
                      "falling_back", "reporting"},
           target' \in Executors \cup {NoExecutor},
           answer' \in [Requests -> Outcomes \cup {"none", "stream"}],
           told' \in Seq(Messages),
           Serial'
    PROVE  Inv'
<1>1. /\ stream' \in [Requests -> Streams]
      /\ StreamsWithin'
      /\ EndedHasFinal'
  BY StreamsKept
<1>2. TypeOK'
  BY DEF Inv, TypeOK, Messages
<1>3. NoExecutorLeaked'
  BY DEF Inv, NoExecutorLeaked
<1> QED BY <1>1, <1>2, <1>3 DEF Inv

\* What follows from the invariant while OnReceive works on a request.
LEMMA HandlingRequest ==
    ASSUME Inv, step # "idle"
    PROVE  handling \in Requests /\ grain = "active"
BY DEF Inv, TypeOK, Serial

LEMMA RespondOK ==
    ASSUME Inv, NEW r \in Requests, NEW outcome \in Outcomes,
           Respond(r, outcome)
    PROVE  /\ answer' \in [Requests -> Outcomes \cup {"none", "stream"}]
           /\ step' = "reporting"
BY DEF Inv, TypeOK, Respond

\* OnReceive accepts a request.
LEMMA ReceiveInv ==
    ASSUME Inv, NEW r \in Requests,
           \/ HandleSessionInvoke(r)
           \/ HandleSessionInvokeStreamFallback(r)
    PROVE  Inv'
<1>1. CASE HandleSessionInvoke(r)
  <2>1. CASE executor = NoExecutor
    <3>1. /\ answer' \in [Requests -> Outcomes \cup {"none", "stream"}]
          /\ step' = "reporting"
      BY <1>1, <2>1, RespondOK DEF HandleSessionInvoke, Outcomes
    <3>2. Serial'
      BY <1>1, <2>1, <3>1, GrainAssumption
         DEF Inv, Serial, HandleSessionInvoke, Receive
    <3> QED BY <1>1, <2>1, <3>1, <3>2, HandlerInv
            DEF HandleSessionInvoke, Inv, TypeOK, Messages
  <2>2. CASE executor # NoExecutor
    <3>1. Serial'
      BY <1>1, <2>2, GrainAssumption
         DEF Inv, Serial, HandleSessionInvoke, Receive
    <3> QED BY <1>1, <2>2, <3>1, HandlerInv
            DEF HandleSessionInvoke, Inv, TypeOK, Messages
  <2> QED BY <2>1, <2>2
<1>2. CASE HandleSessionInvokeStreamFallback(r)
  <2>1. CASE executor = NoExecutor
    <3>1. answer' \in [Requests -> Outcomes \cup {"none", "stream"}]
      BY <1>2, <2>1
         DEF HandleSessionInvokeStreamFallback, Inv, TypeOK, Outcomes
    <3>2. told' \in Seq(Messages)
      BY <1>2, <2>1, ToldOK
         DEF HandleSessionInvokeStreamFallback, Inv, TypeOK, Messages
    <3>3. Serial'
      BY <1>2, <2>1 DEF Inv, Serial, HandleSessionInvokeStreamFallback
    <3> QED BY <1>2, <2>1, <3>1, <3>2, <3>3, HandlerInv
            DEF HandleSessionInvokeStreamFallback, Inv, TypeOK
  <2>2. CASE executor # NoExecutor
    <3>1. Serial'
      BY <1>2, <2>2, GrainAssumption
         DEF Inv, Serial, HandleSessionInvokeStreamFallback, Receive
    <3> QED BY <1>2, <2>2, <3>1, HandlerInv
            DEF HandleSessionInvokeStreamFallback, Inv, TypeOK, Messages
  <2> QED BY <2>1, <2>2
<1> QED BY <1>1, <1>2

\* A stream starts, or ExecuteStream fails at once.
LEMMA StreamStartInv ==
    ASSUME Inv, NEW r \in Requests, HandleSessionInvokeStream(r)
    PROVE  Inv'
<1>0. UNCHANGED <<setup, grain, executor, handles, target, told>>
  BY DEF HandleSessionInvokeStream
<1>1. CASE handling' = r /\ Respond(r, "failure") /\ UNCHANGED stream
  <2>1. /\ answer' \in [Requests -> Outcomes \cup {"none", "stream"}]
        /\ step' = "reporting"
    BY <1>1, RespondOK DEF Outcomes
  <2>2. Serial'
    BY <1>0, <1>1, <2>1, GrainAssumption
       DEF Inv, Serial, HandleSessionInvokeStream, Receive
  <2> QED BY <1>0, <1>1, <2>1, <2>2, HandlerInv DEF Inv, TypeOK, Messages
<1>2. ASSUME answer' = [answer EXCEPT ![r] = "stream"],
             NEW c \in {"reading", "gone"},
             stream' = [stream EXCEPT ![r] = NewStream(executor, c)],
             UNCHANGED <<handling, step>>
      PROVE  Inv'
  <2>1. NewStream(executor, c) \in Streams /\ Ended(NewStream(executor, c))
    <3>1. executor \in Executors
      BY DEF HandleSessionInvokeStream, Inv, TypeOK
    <3>2. Ended(NewStream(executor, c))
      BY DEF NewStream, Ended
    <3> QED BY <3>1, <3>2, NewStreamOK
  <2>2. stream' \in [Requests -> Streams] /\ EndedHasFinal'
    BY <1>2, <2>1 DEF Inv, TypeOK, EndedHasFinal
  <2>3. answer' \in [Requests -> Outcomes \cup {"none", "stream"}]
    BY <1>2 DEF Inv, TypeOK
  <2>4. TypeOK'
    BY <1>0, <1>2, <2>2, <2>3 DEF Inv, TypeOK
  <2>5. NoExecutorLeaked' /\ Serial'
    BY <1>0, <1>2 DEF Inv, NoExecutorLeaked, Serial
  <2>6. StreamsWithin'
    BY <1>0 DEF StreamsWithin, HandleSessionInvokeStream, Receive
  <2> QED BY <2>2, <2>4, <2>5, <2>6 DEF Inv
<1> QED BY <1>1, <1>2 DEF HandleSessionInvokeStream

\* tryRecoverExecutor: the replacement is open, what it replaces is closed.
LEMMA TryRecoverExecutorInv == ASSUME Inv, TryRecoverExecutor PROVE Inv'
<1>0. /\ UNCHANGED <<setup, grain, handling, answer, stream, told>>
      /\ executor' = Created /\ target' = Created /\ step' = "retrying"
      /\ handles' = [CloseExecutor(executor) EXCEPT ![Created] = "open"]
      /\ executor # NoExecutor
      /\ handling # NoRequest /\ grain = "active"
  BY DEF TryRecoverExecutor, Inv, Serial
<1>1. /\ Created \in Executors /\ handles[Created] = "none"
      /\ executor \in Executors
      /\ handles \in [Executors -> {"none", "open", "closed"}]
  BY <1>0, CreatedOK DEF TryRecoverExecutor, Inv, TypeOK
<1> HIDE DEF Created
<1>2. CloseExecutor(executor) = [handles EXCEPT ![executor] = "closed"]
  BY <1>0 DEF CloseExecutor
<1>3. handles' \in [Executors -> {"none", "open", "closed"}]
  BY <1>0, <1>1, <1>2
<1>4. NoExecutorLeaked'
  BY <1>0, <1>1, <1>2 DEF Inv, NoExecutorLeaked
<1>5. Serial'
  BY <1>0, <1>1, GrainAssumption DEF Serial
<1>6. /\ stream' \in [Requests -> Streams]
      /\ StreamsWithin'
      /\ EndedHasFinal'
  BY <1>0, StreamsKept
<1>7. TypeOK'
  BY <1>0, <1>1, <1>3, <1>6 DEF Inv, TypeOK
<1> QED BY <1>4, <1>5, <1>6, <1>7 DEF Inv

\* The other steps of an OnReceive that is under way.
LEMMA OnReceiveInv == ASSUME Inv, OnReceive PROVE Inv'
<1>1. CASE ExecuteReturns
  <2>0. handling \in Requests /\ grain = "active"
    BY <1>1, HandlingRequest DEF ExecuteReturns
  <2>1. /\ answer' \in [Requests -> Outcomes \cup {"none", "stream"}]
        /\ step' \in {"reporting", "recovering"}
    BY <1>1, <2>0, RespondOK DEF ExecuteReturns, Inv, TypeOK
  <2>2. Serial'
    BY <1>1, <2>1 DEF Inv, Serial, ExecuteReturns
  <2> QED BY <1>1, <2>1, <2>2, HandlerInv
          DEF ExecuteReturns, Inv, TypeOK, Messages
<1>2. CASE RecoveryFails \/ RetryReturns
  <2>0. handling \in Requests /\ grain = "active"
    BY <1>2, HandlingRequest DEF RecoveryFails, RetryReturns
  <2>1. /\ answer' \in [Requests -> Outcomes \cup {"none", "stream"}]
        /\ step' = "reporting"
    BY <1>2, <2>0, RespondOK DEF RecoveryFails, RetryReturns, Outcomes
  <2>2. Serial'
    BY <1>2, <2>1 DEF Inv, Serial, RecoveryFails, RetryReturns
  <2> QED BY <1>2, <2>1, <2>2, HandlerInv
          DEF RecoveryFails, RetryReturns, Inv, TypeOK, Messages
<1>3. CASE Report
  <2>0. handling \in Requests
    BY <1>3, HandlingRequest DEF Report
  <2>1. told' \in Seq(Messages)
    BY <1>3, <2>0, ToldOK DEF Report, Inv, TypeOK, Messages
  <2>2. Serial'
    BY <1>3 DEF Inv, Serial, Report
  <2> QED BY <1>3, <2>1, <2>2, HandlerInv DEF Report, Inv, TypeOK
<1>4. CASE FallbackReturns
  <2>0. handling \in Requests
    BY <1>4, HandlingRequest DEF FallbackReturns
  <2>1. /\ told' \in Seq(Messages)
        /\ answer' \in [Requests -> Outcomes \cup {"none", "stream"}]
    BY <1>4, <2>0, ToldOK DEF FallbackReturns, Inv, TypeOK, Messages
  <2>2. Serial'
    BY <1>4 DEF Inv, Serial, FallbackReturns
  <2> QED BY <1>4, <2>1, <2>2, HandlerInv DEF FallbackReturns, Inv, TypeOK
<1> QED BY <1>1, <1>2, <1>3, <1>4, TryRecoverExecutorInv DEF OnReceive

LEMMA StreamStepInv ==
    ASSUME Inv, NEW r \in Requests, StreamStep(r)
    PROVE  Inv'
<1>1. /\ UNCHANGED <<engine, answer>>
      /\ told' \in Seq(Messages)
  BY StreamStepOK
<1>2. PICK s \in Streams :
        /\ stream' = [stream EXCEPT ![r] = s]
        /\ Ended(s)
        /\ s.forwarder \notin {"none", "done"} => Forwarding(r)
  BY StreamStepOK
<1>3. stream \in [Requests -> Streams]
  BY DEF Inv, TypeOK
<1>4. /\ stream' \in [Requests -> Streams]
      /\ EndedHasFinal'
  BY <1>2, <1>3 DEF Inv, EndedHasFinal
<1>5. StreamsWithin'
  BY <1>1, <1>2, <1>3 DEF Inv, StreamsWithin, Forwarding, engine
<1>6. TypeOK'
  BY <1>1, <1>4 DEF Inv, TypeOK, engine, Messages
<1>7. NoExecutorLeaked' /\ Serial'
  BY <1>1 DEF Inv, NoExecutorLeaked, Serial, engine
<1> QED BY <1>4, <1>5, <1>6, <1>7 DEF Inv

LEMMA NextInv == Inv /\ [Next]_vars => Inv'
<1> SUFFICES ASSUME Inv, [Next]_vars PROVE Inv'
  OBVIOUS
<1>1. CASE Next
  BY <1>1, OnActivateInv, BeginDeactivateInv, OnDeactivateInv, OnReceiveInv,
     ReceiveInv, StreamStartInv, StreamStepInv
     DEF Next, StreamStep
<1>2. CASE UNCHANGED vars
  BY <1>2 DEF vars, engine, Inv, TypeOK, NoExecutorLeaked, Serial,
     StreamsWithin, Forwarding, EndedHasFinal, Ended
<1> QED BY <1>1, <1>2

----------------------------------------------------------------------------
(* What the invariant says.                                                *)

\* Every variable has its type, for any number of requests and executors
\* (session_grain.go).
THEOREM TypeCorrect == Spec => []TypeOK
<1>1. Inv => TypeOK
  BY DEF Inv
<1> QED BY <1>1, InitInv, NextInv, PTL DEF Spec

\* No backend connection leaks over any number of recoveries, activations and
\* deactivations (session_grain.go, tryRecoverExecutor and OnDeactivate).
THEOREM NoLeak == Spec => []NoExecutorLeaked
<1>1. Inv => NoExecutorLeaked
  BY DEF Inv
<1> QED BY <1>1, InitInv, NextInv, PTL DEF Spec

\* A synchronous dispatch, the retry after a recovery included, runs on the
\* executor the grain holds, which is open (session_grain.go, executeOnce).
THEOREM DispatchOpen == Spec => []DispatchOnOpenExecutor
<1>1. Inv => DispatchOnOpenExecutor
  BY DEF Inv, TypeOK, Serial, NoExecutorLeaked, DispatchOnOpenExecutor
<1> QED BY <1>1, InitInv, NextInv, PTL DEF Spec

----------------------------------------------------------------------------
(* What the supervisor is told.                                            *)

\* The invocations that were received, and are not over, or not yet received.
Pending(r) == answer[r] = "none" \/ handling = r \/ Forwarding(r)

\* Where a request is decides what it was answered with, and a stream that is
\* going to be credited with a success has given it to its caller.
Placed ==
    /\ handling # NoRequest => step # "idle"
    /\ \A r \in Requests :
        /\ handling = r =>
             IF step = "reporting" THEN answer[r] \in Outcomes
             ELSE answer[r] = "none"
        /\ stream[r].forwarder = "none" <=> answer[r] # "stream"
        /\ stream[r].forwarder = "reporting" /\ stream[r].outcome = "success"
             => stream[r].caller = "success"

\* The reports of a request, without counting them.
Reported ==
    \A r \in Requests :
        IF Pending(r) THEN Reports(r) = {}
        ELSE \E k \in 1..Len(told) : Reports(r) = {k}

\* While the grain is up, the last Tell was not that it is down.
InSession ==
    grain # "inactive" =>
        told # <<>> /\ told[Len(told)].type # "SessionDeactivated"

\* The Tells come in an order that makes sense.
Ordered ==
    \A k \in 1..Len(told) :
        told[k].type \in {"SessionDeactivated", "ReportSuccess",
                          "ReportFailure"}
            => k > 1 /\ told[k - 1].type # "SessionDeactivated"

ToldInv ==
    /\ Inv /\ Placed
    /\ Reported /\ SuccessReportedTruly /\ InSession /\ Ordered

\* What one Tell adds to the history.
LEMMA TellAppends ==
    ASSUME told \in Seq(Messages), NEW m \in Messages, told' = Append(told, m)
    PROVE  /\ told' # <<>>
           /\ Len(told') = Len(told) + 1
           /\ told'[Len(told')] = m
           /\ \A k \in 1..Len(told) : told'[k] = told[k]
OBVIOUS

LEMMA TellReports ==
    ASSUME told \in Seq(Messages), NEW m \in Messages, told' = Append(told, m),
           NEW q \in Requests
    PROVE  Reports(q)' = IF m.type \in {"ReportSuccess", "ReportFailure"}
                            /\ m.of = q
                         THEN Reports(q) \cup {Len(told) + 1}
                         ELSE Reports(q)
<1>1. Len(told) \in Nat
  OBVIOUS
<1>2. /\ Len(told') = Len(told) + 1 /\ told'[Len(told) + 1] = m
      /\ \A k \in 1..Len(told) : told'[k] = told[k]
  BY TellAppends
<1>3. 1..Len(told') = (1..Len(told)) \cup {Len(told) + 1}
  BY <1>1, <1>2
<1>4. \A k \in 1..Len(told) : k # Len(told) + 1
  BY <1>1
<1> QED BY <1>2, <1>3, <1>4 DEF Reports

\* The positions of reports are positions of the history.
LEMMA ReportsRange ==
    ASSUME told \in Seq(Messages), NEW q \in Requests
    PROVE  \A k \in Reports(q) : k \in 1..Len(told) /\ k \in Nat
BY DEF Reports

\* What is said of the history of Tells.
TellsOK == Reported /\ SuccessReportedTruly /\ InSession /\ Ordered

\* A request whose report, made or due, is none of the step's concern.
Kept(q) ==
    /\ Pending(q)' <=> Pending(q)
    /\ ~Pending(q) => /\ answer'[q] = answer[q]
                      /\ stream'[q].caller = stream[q].caller

\* A step that tells nothing.
LEMMA QuietStep ==
    ASSUME ToldInv, told' = told, \A q \in Requests : Kept(q),
           grain' # "inactive" => grain # "inactive"
    PROVE  TellsOK'
<1>1. \A q \in Requests : Reports(q)' = Reports(q)
  BY DEF Reports
<1>2. Reported'
  BY <1>1 DEF ToldInv, Reported, Kept
<1>3. SuccessReportedTruly'
  <2> SUFFICES ASSUME NEW q \in Requests, NEW k \in Reports(q),
                      told[k].type = "ReportSuccess"
               PROVE  "success" \in {answer'[q], stream'[q].caller}
    BY <1>1 DEF SuccessReportedTruly
  <2>1. ~Pending(q)
    BY DEF ToldInv, Reported
  <2>2. "success" \in {answer[q], stream[q].caller}
    BY DEF ToldInv, SuccessReportedTruly
  <2> QED BY <2>1, <2>2 DEF Kept
<1>4. InSession' /\ Ordered'
  BY DEF ToldInv, InSession, Ordered
<1> QED BY <1>2, <1>3, <1>4 DEF TellsOK

\* The order of the Tells after one more.
LEMMA OrderKept ==
    ASSUME ToldInv, NEW m \in Messages, told' = Append(told, m),
           m.type # "SessionActivated" => grain # "inactive",
           m.type = "SessionDeactivated" => grain' = "inactive"
    PROVE  InSession' /\ Ordered'
<1>1. told \in Seq(Messages) /\ Len(told) \in Nat
  BY DEF ToldInv, Inv, TypeOK, Messages
<1>2. /\ told' # <<>>
      /\ Len(told') = Len(told) + 1
      /\ told'[Len(told')] = m
      /\ \A k \in 1..Len(told) : told'[k] = told[k]
  BY <1>1, TellAppends
<1>3. InSession'
  BY <1>2 DEF InSession
<1>4. ASSUME NEW k \in 1..Len(told'),
             told'[k].type \in {"SessionDeactivated", "ReportSuccess",
                                "ReportFailure"}
      PROVE  k > 1 /\ told'[k - 1].type # "SessionDeactivated"
  <2>1. CASE k \in 1..Len(told)
    <3>1. k > 1 /\ told[k - 1].type # "SessionDeactivated"
      BY <1>2, <1>4, <2>1 DEF ToldInv, Ordered
    <3>2. k - 1 \in 1..Len(told)
      BY <1>1, <2>1, <3>1
    <3> QED BY <1>2, <3>1, <3>2
  <2>2. CASE k = Len(told) + 1
    <3>1. told # <<>> /\ told[Len(told)].type # "SessionDeactivated"
      BY <1>2, <1>4, <2>2 DEF ToldInv, InSession
    <3>2. Len(told) > 0
      BY <1>1, <3>1
    <3>3. k > 1 /\ k - 1 = Len(told) /\ k - 1 \in 1..Len(told)
      BY <1>1, <2>2, <3>2
    <3> QED BY <1>2, <3>1, <3>3
  <2> QED BY <1>1, <1>2, <2>1, <2>2
<1> QED BY <1>3, <1>4 DEF Ordered

\* The grain goes up or down.
LEMMA LifecycleStep ==
    ASSUME ToldInv, NEW type \in {"SessionActivated", "SessionDeactivated"},
           Tell(type, NoRequest), \A q \in Requests : Kept(q),
           type = "SessionDeactivated" =>
               grain # "inactive" /\ grain' = "inactive"
    PROVE  TellsOK'
<1> DEFINE m == [type |-> type, of |-> NoRequest]
<1>1. told \in Seq(Messages) /\ m \in Messages /\ told' = Append(told, m)
      /\ m.type = type
  BY DEF ToldInv, Inv, TypeOK, Messages, Tell
<1> HIDE DEF m
<1>2. \A q \in Requests : Reports(q)' = Reports(q)
  BY <1>1, TellReports
<1>3. Len(told) \in Nat /\ Len(told') = Len(told) + 1
      /\ \A k \in 1..Len(told) : told'[k] = told[k]
  BY <1>1, TellAppends
<1>4. Reported'
  BY <1>2, <1>3 DEF ToldInv, Reported, Kept
<1>5. SuccessReportedTruly'
  <2> SUFFICES ASSUME NEW q \in Requests, NEW k \in Reports(q),
                      told'[k].type = "ReportSuccess"
               PROVE  "success" \in {answer'[q], stream'[q].caller}
    BY <1>2 DEF SuccessReportedTruly
  <2>1. ~Pending(q)
    BY DEF ToldInv, Reported
  <2>2. told[k].type = "ReportSuccess"
    BY <1>1, <1>3, ReportsRange
  <2>3. "success" \in {answer[q], stream[q].caller}
    BY <2>2 DEF ToldInv, SuccessReportedTruly
  <2> QED BY <2>1, <2>3 DEF Kept
<1>6. InSession' /\ Ordered'
  BY <1>1, OrderKept
<1> QED BY <1>4, <1>5, <1>6 DEF TellsOK

\* One invocation is over, and reported.
LEMMA ReportStep ==
    ASSUME ToldInv, NEW r \in Requests, NEW outcome \in Outcomes,
           ReportOutcomeToSupervisor(r, outcome), grain # "inactive",
           Pending(r), ~Pending(r)',
           outcome = "success" =>
               "success" \in {answer'[r], stream'[r].caller},
           \A q \in Requests \ {r} : Kept(q)
    PROVE  TellsOK'
<1> DEFINE type == IF outcome = "success" THEN "ReportSuccess"
                   ELSE "ReportFailure"
           m == [type |-> type, of |-> r]
<1>1. /\ told \in Seq(Messages) /\ m \in Messages /\ told' = Append(told, m)
      /\ m.type \in {"ReportSuccess", "ReportFailure"} /\ m.of = r
      /\ m.type = "ReportSuccess" => outcome = "success"
  BY DEF ToldInv, Inv, TypeOK, Messages, Tell, ReportOutcomeToSupervisor
<1> HIDE DEF m
<1>2. /\ Reports(r)' = Reports(r) \cup {Len(told) + 1}
      /\ \A q \in Requests \ {r} : Reports(q)' = Reports(q)
  BY <1>1, TellReports
<1>3. Len(told) \in Nat /\ Len(told') = Len(told) + 1
      /\ told'[Len(told) + 1] = m
      /\ \A k \in 1..Len(told) : told'[k] = told[k]
  BY <1>1, TellAppends
<1>4. Reports(r)' = {Len(told) + 1}
  BY <1>2 DEF ToldInv, Reported
<1>5. Reported'
  <2>1. Len(told) + 1 \in 1..Len(told')
    BY <1>3
  <2>2. ASSUME NEW q \in Requests \ {r}
        PROVE  IF Pending(q)' THEN Reports(q)' = {}
               ELSE \E k \in 1..Len(told') : Reports(q)' = {k}
    BY <1>2, <1>3 DEF ToldInv, Reported, Kept
  <2> QED BY <1>4, <2>1, <2>2 DEF Reported
<1>6. SuccessReportedTruly'
  <2> SUFFICES ASSUME NEW q \in Requests, NEW k \in Reports(q)',
                      told'[k].type = "ReportSuccess"
               PROVE  "success" \in {answer'[q], stream'[q].caller}
    BY DEF SuccessReportedTruly
  <2>1. CASE q = r
    BY <1>1, <1>3, <1>4, <2>1
  <2>2. CASE q # r
    <3>1. k \in Reports(q) /\ ~Pending(q)
      BY <1>2, <2>2 DEF ToldInv, Reported
    <3>2. told[k].type = "ReportSuccess"
      BY <1>1, <1>3, <3>1, ReportsRange
    <3>3. "success" \in {answer[q], stream[q].caller}
      BY <3>1, <3>2 DEF ToldInv, SuccessReportedTruly
    <3> QED BY <2>2, <3>1, <3>3 DEF Kept
  <2> QED BY <2>1, <2>2
<1>7. InSession' /\ Ordered'
  BY <1>1, OrderKept
<1> QED BY <1>5, <1>6, <1>7 DEF TellsOK

\* How the goroutines of a stream move it, as far as reports are concerned:
\* not at all, on to the next event, to the outcome, or to the report.
LEMMA StreamMoves ==
    ASSUME Inv, NEW r \in Requests, StreamStep(r)
    PROVE  /\ UNCHANGED <<engine, answer>>
           /\ \A q \in Requests \ {r} : stream'[q] = stream[q]
           /\ \/ /\ told' = told
                 /\ stream'[r].forwarder = stream[r].forwarder
                 /\ stream'[r].outcome = stream[r].outcome
                 /\ stream'[r].caller = stream[r].caller
              \/ /\ told' = told
                 /\ Forwarding(r)
                 /\ \/ stream'[r].forwarder \in {"receiving", "offering"}
                    \/ /\ stream'[r].forwarder = "reporting"
                       /\ stream'[r].outcome = "success" =>
                              stream'[r].caller = "success"
              \/ /\ stream[r].forwarder = "reporting"
                 /\ stream'[r].forwarder = "done"
                 /\ stream'[r].caller = stream[r].caller
                 /\ ReportOutcomeToSupervisor(r, stream[r].outcome)
<1>1. stream \in [Requests -> Streams] /\ stream[r] \in Streams
  BY DEF Inv, TypeOK
<1>2. UNCHANGED <<engine, answer>>
  BY StreamStepOK
<1>3. \A q \in Requests \ {r} : stream'[q] = stream[q]
  <2>1. PICK s \in Streams : stream' = [stream EXCEPT ![r] = s]
    BY StreamStepOK
  <2> QED BY <1>1, <2>1
<1>4. CASE Producer(r) \/ ConsumerSends(r) \/ ConsumerEnds(r)
  <2>1. /\ stream'[r].forwarder = stream[r].forwarder
        /\ stream'[r].outcome = stream[r].outcome
        /\ stream'[r].caller = stream[r].caller
    BY <1>1, <1>4 DEF Producer, ProducerReceives, ProducerEnds, ConsumerSends,
       ConsumerEnds, Streams
  <2>2. told' = told
    BY <1>4 DEF Producer, ProducerReceives, ProducerEnds, ConsumerSends,
       ConsumerEnds
  <2> QED BY <1>2, <1>3, <2>1, <2>2
<1>5. CASE ForwarderReceives(r) \/ ForwarderDelivers(r)
  <2>1. /\ stream'[r].forwarder \in {"receiving", "offering"}
        /\ stream[r].forwarder \in {"receiving", "offering"}
        /\ told' = told
    BY <1>1, <1>5 DEF ForwarderReceives, ForwarderDelivers, Streams
  <2> QED BY <1>2, <1>3, <2>1 DEF Forwarding
<1>6. CASE SendTimeout(r) \/ ForwarderDrained(r)
  <2>1. /\ stream'[r].forwarder = "reporting"
        /\ stream'[r].outcome = "success" => stream'[r].caller = "success"
        /\ stream[r].forwarder \in {"receiving", "offering"}
        /\ told' = told
    BY <1>1, <1>6 DEF SendTimeout, ForwarderDrained, Streams
  <2> QED BY <1>2, <1>3, <2>1 DEF Forwarding
<1>7. CASE ForwarderReports(r)
  <2>1. /\ stream[r].forwarder = "reporting"
        /\ stream'[r].forwarder = "done"
        /\ stream'[r].caller = stream[r].caller
        /\ ReportOutcomeToSupervisor(r, stream[r].outcome)
    BY <1>1, <1>7 DEF ForwarderReports, Streams
  <2> QED BY <1>2, <1>3, <2>1
<1> QED BY <1>4, <1>5, <1>6, <1>7 DEF StreamStep, Forwarder

LEMMA StreamStepTold ==
    ASSUME ToldInv, NEW r \in Requests, StreamStep(r)
    PROVE  Placed' /\ TellsOK'
<1>0. Inv /\ Placed
  BY DEF ToldInv
<1>1. /\ UNCHANGED <<handling, step, grain, answer>>
      /\ \A q \in Requests \ {r} : stream'[q] = stream[q]
  BY <1>0, StreamMoves DEF engine
<1>2. \A q \in Requests \ {r} : Kept(q)
  BY <1>1 DEF Kept, Pending, Forwarding
<1>3. CASE /\ told' = told
           /\ stream'[r].forwarder = stream[r].forwarder
           /\ stream'[r].outcome = stream[r].outcome
           /\ stream'[r].caller = stream[r].caller
  <2>1. Kept(r)
    BY <1>1, <1>3 DEF Kept, Pending, Forwarding
  <2>2. TellsOK'
    BY <1>1, <1>2, <1>3, <2>1, QuietStep
  <2>3. Placed'
    BY <1>0, <1>1, <1>3 DEF Placed
  <2> QED BY <2>2, <2>3
<1>4. CASE /\ told' = told
           /\ Forwarding(r)
           /\ \/ stream'[r].forwarder \in {"receiving", "offering"}
              \/ /\ stream'[r].forwarder = "reporting"
                 /\ stream'[r].outcome = "success" =>
                        stream'[r].caller = "success"
  <2>1. Pending(r) /\ Pending(r)'
    BY <1>4 DEF Pending, Forwarding
  <2>2. TellsOK'
    BY <1>1, <1>2, <1>4, <2>1, QuietStep DEF Kept
  <2>3. Placed'
    BY <1>0, <1>1, <1>4 DEF Placed, Forwarding
  <2> QED BY <2>2, <2>3
<1>5. CASE /\ stream[r].forwarder = "reporting"
           /\ stream'[r].forwarder = "done"
           /\ stream'[r].caller = stream[r].caller
           /\ ReportOutcomeToSupervisor(r, stream[r].outcome)
  <2>1. /\ Pending(r) /\ Forwarding(r)
        /\ answer[r] = "stream" /\ handling # r
    BY <1>0, <1>5 DEF Pending, Forwarding, Placed, Outcomes
  <2>2. ~Pending(r)'
    BY <1>1, <1>5, <2>1 DEF Pending, Forwarding
  <2>3. grain # "inactive"
    BY <1>0, <2>1 DEF Inv, StreamsWithin
  <2>4. stream[r].outcome = "success" => stream'[r].caller = "success"
    BY <1>0, <1>5 DEF Placed
  <2> DEFINE o == IF stream[r].outcome = "success" THEN "success"
                  ELSE "failure"
  <2>5. o \in Outcomes /\ ReportOutcomeToSupervisor(r, o)
        /\ (o = "success" => stream'[r].caller = "success")
    BY <1>5, <2>4 DEF Outcomes, ReportOutcomeToSupervisor
  <2> HIDE DEF o
  <2>6. TellsOK'
    BY <1>2, <2>1, <2>2, <2>3, <2>5, ReportStep
  <2>7. Placed'
    BY <1>0, <1>1, <1>5, <2>1 DEF Placed
  <2> QED BY <2>6, <2>7
<1> QED BY <1>0, <1>3, <1>4, <1>5, StreamMoves

\* The grain goes up or down, or begins to.
LEMMA ActivationTold ==
    ASSUME ToldInv, OnActivate \/ BeginDeactivate \/ OnDeactivate
    PROVE  Placed' /\ TellsOK'
<1>1. UNCHANGED <<handling, step, answer, stream>>
  BY DEF OnActivate, BeginDeactivate, OnDeactivate
<1>2. Placed'
  BY <1>1 DEF ToldInv, Placed
<1>3. \A q \in Requests : Kept(q)
  BY <1>1 DEF Kept, Pending, Forwarding
<1>4. CASE OnActivate
  <2>1. Tell("SessionActivated", NoRequest)
    BY <1>4 DEF OnActivate
  <2> QED BY <1>2, <1>3, <2>1, LifecycleStep
<1>5. CASE BeginDeactivate
  <2>1. told' = told /\ grain # "inactive"
    BY <1>5 DEF BeginDeactivate
  <2> QED BY <1>2, <1>3, <2>1, QuietStep
<1>6. CASE OnDeactivate
  <2>1. /\ Tell("SessionDeactivated", NoRequest)
        /\ grain # "inactive" /\ grain' = "inactive"
    BY <1>6 DEF OnDeactivate
  <2> QED BY <1>2, <1>3, <2>1, LifecycleStep
<1> QED BY <1>4, <1>5, <1>6

\* A request is taken from the mailbox.
LEMMA ReceiveTold ==
    ASSUME ToldInv, NEW r \in Requests,
           \/ HandleSessionInvoke(r)
           \/ HandleSessionInvokeStream(r)
           \/ HandleSessionInvokeStreamFallback(r)
    PROVE  Placed' /\ TellsOK'
<1>0. /\ grain = "active" /\ handling = NoRequest /\ answer[r] = "none"
      /\ UNCHANGED grain
      /\ answer \in [Requests -> Outcomes \cup {"none", "stream"}]
      /\ stream \in [Requests -> Streams]
      /\ stream[r].forwarder = "none"
      /\ NoRequest \notin Requests
      /\ step = "idle"
  BY GrainAssumption DEF HandleSessionInvoke, HandleSessionInvokeStream,
     HandleSessionInvokeStreamFallback, Receive, ToldInv, Inv, TypeOK, Placed,
     Serial
<1>1. Pending(r)
  BY <1>0 DEF Pending
<1>2. CASE /\ handling' = r /\ UNCHANGED <<stream, told>>
           /\ \/ step' \notin {"idle", "reporting"} /\ answer' = answer
              \/ /\ step' = "reporting"
                 /\ \E o \in Outcomes : answer' = [answer EXCEPT ![r] = o]
  <2>1. \A q \in Requests \ {r} : answer'[q] = answer[q] /\ handling' # q
    BY <1>0, <1>2
  <2>2. \A q \in Requests : Kept(q)
    BY <1>0, <1>1, <1>2, <2>1 DEF Kept, Pending, Forwarding
  <2>3. TellsOK'
    BY <1>0, <1>2, <2>2, QuietStep
  <2>4. Placed'
    BY <1>0, <1>2, <2>1 DEF ToldInv, Placed, Outcomes
  <2> QED BY <2>3, <2>4
<1>3. CASE /\ UNCHANGED <<handling, step, told>>
           /\ answer' = [answer EXCEPT ![r] = "stream"]
           /\ \E c \in {"reading", "gone"} :
                 stream' = [stream EXCEPT ![r] = NewStream(executor, c)]
  <2>1. /\ stream'[r].forwarder = "receiving"
        /\ answer'[r] = "stream"
        /\ \A q \in Requests \ {r} :
               answer'[q] = answer[q] /\ stream'[q] = stream[q]
    BY <1>0, <1>3 DEF NewStream
  <2>2. \A q \in Requests : Kept(q)
    BY <1>1, <1>3, <2>1 DEF Kept, Pending, Forwarding
  <2>3. TellsOK'
    BY <1>0, <1>3, <2>2, QuietStep
  <2>4. Placed'
    BY <1>0, <1>3, <2>1 DEF ToldInv, Placed
  <2> QED BY <2>3, <2>4
<1>4. CASE /\ UNCHANGED <<handling, step, stream>>
           /\ answer' = [answer EXCEPT ![r] = "success"]
           /\ ReportOutcomeToSupervisor(r, "success")
  <2>1. /\ answer'[r] = "success"
        /\ \A q \in Requests \ {r} : answer'[q] = answer[q]
    BY <1>0, <1>4
  <2>2. \A q \in Requests \ {r} : Kept(q)
    BY <1>4, <2>1 DEF Kept, Pending, Forwarding
  <2>3. ~Pending(r)'
    BY <1>0, <1>4, <2>1 DEF Pending, Forwarding
  <2>4. TellsOK'
    BY <1>0, <1>1, <1>4, <2>1, <2>2, <2>3, ReportStep DEF Outcomes
  <2>5. Placed'
    BY <1>0, <1>4, <2>1 DEF ToldInv, Placed
  <2> QED BY <2>4, <2>5
<1> QED
  BY <1>2, <1>3, <1>4
     DEF HandleSessionInvoke, HandleSessionInvokeStream,
         HandleSessionInvokeStreamFallback, Respond, Outcomes

\* OnReceive goes on with the request it is working on.
LEMMA OnReceiveTold ==
    ASSUME ToldInv, OnReceive
    PROVE  Placed' /\ TellsOK'
<1>r. PICK r \in Requests \cup {NoRequest} : r = handling
  BY DEF ToldInv, Inv, TypeOK
<1>0. /\ r = handling /\ r \in Requests /\ grain = "active" /\ UNCHANGED <<grain, stream>>
      /\ answer \in [Requests -> Outcomes \cup {"none", "stream"}]
      /\ NoRequest \notin Requests
  <2>1. step # "idle"
    BY DEF OnReceive, ExecuteReturns, TryRecoverExecutor, RecoveryFails,
       RetryReturns, Report, FallbackReturns
  <2>2. UNCHANGED <<grain, stream>>
    BY DEF OnReceive, ExecuteReturns, TryRecoverExecutor, RecoveryFails,
       RetryReturns, Report, FallbackReturns
  <2> QED BY <1>r, <2>1, <2>2, HandlingRequest, GrainAssumption
          DEF ToldInv, Inv, TypeOK
<1>1. Pending(r) /\ stream[r].forwarder = "none"
  BY <1>0 DEF Pending, ToldInv, Placed, Outcomes
<1>2. CASE /\ step # "reporting" /\ UNCHANGED <<handling, told>>
           /\ \/ step' \notin {"idle", "reporting"} /\ answer' = answer
              \/ /\ step' = "reporting"
                 /\ \E o \in Outcomes : answer' = [answer EXCEPT ![r] = o]
  <2>1. \A q \in Requests \ {r} : answer'[q] = answer[q] /\ handling' # q
    BY <1>0, <1>2
  <2>2. \A q \in Requests : Kept(q)
    BY <1>0, <1>1, <1>2, <2>1 DEF Kept, Pending, Forwarding
  <2>3. TellsOK'
    BY <1>0, <1>2, <2>2, QuietStep
  <2>4. Placed'
    BY <1>0, <1>1, <1>2, <2>1 DEF ToldInv, Placed, Outcomes
  <2> QED BY <2>3, <2>4
<1>3. ASSUME NEW o \in Outcomes, ReportOutcomeToSupervisor(r, o),
             handling' = NoRequest, step' = "idle",
             answer'[r] = o,
             \A q \in Requests \ {r} : answer'[q] = answer[q]
      PROVE  Placed' /\ TellsOK'
  <2>1. \A q \in Requests \ {r} : Kept(q)
    BY <1>0, <1>3 DEF Kept, Pending, Forwarding
  <2>2. ~Pending(r)'
    BY <1>0, <1>1, <1>3 DEF Pending, Forwarding, Outcomes
  <2>3. TellsOK'
    BY <1>0, <1>1, <1>3, <2>1, <2>2, ReportStep
  <2>4. Placed'
    BY <1>0, <1>1, <1>3 DEF ToldInv, Placed, Outcomes
  <2> QED BY <2>3, <2>4
<1>4. CASE ExecuteReturns \/ TryRecoverExecutor \/ RecoveryFails
           \/ RetryReturns
  BY <1>0, <1>2, <1>4 DEF ExecuteReturns, TryRecoverExecutor, RecoveryFails,
     RetryReturns, Respond, Outcomes
<1>5. CASE Report
  <2>1. answer[r] \in Outcomes /\ UNCHANGED answer
    BY <1>0, <1>5 DEF Report, ToldInv, Placed
  <2> QED BY <1>0, <1>3, <1>5, <2>1 DEF Report
<1>6. CASE FallbackReturns
  BY <1>0, <1>3, <1>6 DEF FallbackReturns
<1> QED BY <1>4, <1>5, <1>6 DEF OnReceive

LEMMA InitTold == Init => ToldInv
<1> SUFFICES ASSUME Init PROVE ToldInv
  OBVIOUS
<1>1. Inv
  BY InitInv
<1>2. told = <<>> /\ Len(told) = 0
  BY DEF Init
<1>3. \A r \in Requests : Reports(r) = {}
  BY <1>2 DEF Reports
<1>4. Placed
  BY DEF Init, Placed, NoStream
<1>5. Reported
  BY <1>3 DEF Init, Reported, Pending
<1>6. SuccessReportedTruly
  BY <1>3 DEF SuccessReportedTruly
<1>7. InSession /\ Ordered
  BY <1>2 DEF Init, InSession, Ordered
<1> QED BY <1>1, <1>4, <1>5, <1>6, <1>7 DEF ToldInv

LEMMA NextTold == ToldInv /\ [Next]_vars => ToldInv'
<1> SUFFICES ASSUME ToldInv, [Next]_vars PROVE ToldInv'
  OBVIOUS
<1>1. Inv'
  BY NextInv DEF ToldInv
<1>2. CASE Next
  <2>1. Placed' /\ TellsOK'
    BY <1>2, ActivationTold, OnReceiveTold, ReceiveTold, StreamStepTold
       DEF Next, StreamStep
  <2> QED BY <1>1, <2>1 DEF ToldInv, TellsOK
<1>3. CASE UNCHANGED vars
  <2>1. /\ told' = told /\ grain' = grain /\ handling' = handling
        /\ step' = step /\ answer' = answer /\ stream' = stream
    BY <1>3 DEF vars, engine
  <2>2. \A q \in Requests : Kept(q)
    BY <2>1 DEF Kept, Pending, Forwarding
  <2>3. Placed'
    BY <2>1 DEF ToldInv, Placed
  <2> QED BY <1>1, <2>1, <2>2, <2>3, QuietStep DEF ToldInv, TellsOK
<1> QED BY <1>2, <1>3

\* Every invocation that is over was reported exactly once, and no other was,
\* for any number of concurrent streams, retries and activations
\* (session_grain.go, reportOutcomeToSupervisor).
THEOREM ReportedOnce == Spec => []OneReportPerInvocation
<1>1. ToldInv => OneReportPerInvocation
  <2> SUFFICES ASSUME ToldInv, NEW r \in Requests
               PROVE  Cardinality(Reports(r)) = IF Pending(r) THEN 0 ELSE 1
    BY DEF OneReportPerInvocation, Pending
  <2>1. CASE Pending(r)
    BY <2>1, FS_EmptySet DEF ToldInv, Reported
  <2>2. CASE ~Pending(r)
    <3>1. PICK k \in 1..Len(told) : Reports(r) = {k}
      BY <2>2 DEF ToldInv, Reported
    <3> QED BY <2>2, <3>1, FS_Singleton
  <2> QED BY <2>1, <2>2
<1> QED BY <1>1, InitTold, NextTold, PTL DEF Spec

\* A success is reported only of an invocation whose caller was given one
\* (session_grain.go, executeOnce and forwardStream).
THEOREM SuccessTrue == Spec => []SuccessReportedTruly
<1>1. ToldInv => SuccessReportedTruly
  BY DEF ToldInv
<1> QED BY <1>1, InitTold, NextTold, PTL DEF Spec

\* No outcome is reported outside the session it belongs to, and no session
\* is closed twice (session_grain.go, OnDeactivate).
THEOREM WithinSession == Spec => []ReportsWithinSession
<1>1. ToldInv => ReportsWithinSession
  BY DEF ToldInv, Inv, StreamsWithin, Ordered, ReportsWithinSession
<1> QED BY <1>1, InitTold, NextTold, PTL DEF Spec

====
