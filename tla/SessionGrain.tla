---- MODULE SessionGrain ----
(***************************************************************************)
(* One session grain (internal/runtime/actor/session_grain.go): the        *)
(* lifecycle of its backend executor, synchronous invocations with the     *)
(* recovery of a failed executor and one retry, streamed invocations, and  *)
(* deactivation.                                                           *)
(*                                                                         *)
(* The grain engine calls OnActivate, OnReceive and OnDeactivate one at a  *)
(* time.  Beside them run, for every stream, the executor's goroutine (the *)
(* producer, egress/grpc/executor.go), forwardStream's goroutine and the   *)
(* caller that reads the stream (ingress/grpc/handler.go, CallToolStream). *)
(* Their channels are unbuffered, except Final, which holds one result.    *)
(*                                                                         *)
(* Requests are valid: the router rejects an invocation without a tool,    *)
(* and a grain's name contains the tool the requests to it are for.        *)
(***************************************************************************)
EXTENDS Naturals, Sequences, FiniteSets

CONSTANTS
    Requests,      \* invocations sent to the grain
    Executors,     \* executors the factory can create
    NoRequest,     \* OnReceive is not running
    NoExecutor,    \* a nil executor
    EventBound,    \* progress events of one stream
    ToldBound      \* no activation after this many Tells to the supervisor

ASSUME GrainAssumption ==
    /\ NoRequest \notin Requests
    /\ NoExecutor \notin Executors
    /\ EventBound \in Nat
    /\ ToldBound \in Nat

VARIABLES
    setup,     \* rigid: the factory is registered, its executors stream
    grain,     \* whether the grain is active
    executor,  \* g.executor
    handles,   \* the state of every executor
    handling,  \* the request OnReceive is working on
    step,      \* where OnReceive is
    target,    \* the executor OnReceive is dispatching to
    answer,    \* what each request was answered with
    stream,    \* the stream of each request
    told       \* history: the reports and notices for the supervisor, in order

engine == <<setup, grain, executor, handles, handling, step, target>>
vars == <<engine, answer, stream, told>>

Outcomes == {"success", "failure"}

Setups == [factory : BOOLEAN, streams : BOOLEAN]

\* producer   none, producing, sending (blocked in progressCh <-), ended
\* source     the executor that produces the stream
\* sent       events produced so far
\* final      the result in the producer's Final channel
\* forwarder  none, receiving, offering (blocked in dst <-), reporting, done
\* outcome    what the forwarder will report
\* caller     the caller's Final: open, or closed after a result or empty
\* consumer   none, reading, busy (sending to its client), gone, ended
NoStream ==
    [producer |-> "none", source |-> NoExecutor, sent |-> 0, final |-> "none",
     forwarder |-> "none", outcome |-> "none", caller |-> "open",
     consumer |-> "none"]

\* A stream of executor e whose caller is c.
NewStream(e, c) ==
    [producer |-> "producing", source |-> e, sent |-> 0, final |-> "none",
     forwarder |-> "receiving", outcome |-> "none", caller |-> "open",
     consumer |-> c]

Streams ==
    [producer : {"none", "producing", "sending", "ended"},
     source : Executors \cup {NoExecutor},
     sent : 0..EventBound,
     final : Outcomes \cup {"none"},
     forwarder : {"none", "receiving", "offering", "reporting", "done"},
     outcome : Outcomes \cup {"none"},
     caller : Outcomes \cup {"open", "empty"},
     consumer : {"none", "reading", "busy", "gone", "ended"}]

\* A forwardStream goroutine counted by g.streams.
Forwarding(r) == stream[r].forwarder \notin {"none", "done"}

\* The stream's context is alive: forwardStream cancels it when it returns.
Live(r) == stream[r].forwarder # "done" /\ handles[stream[r].source] = "open"

Tell(type, of) == told' = Append(told, [type |-> type, of |-> of])

\* reportOutcomeToSupervisor: one Tell per outcome.  When the supervisor has
\* no PID the call sends nothing: ToolSupervisor has that loss.
ReportOutcomeToSupervisor(r, outcome) ==
    Tell(IF outcome = "success" THEN "ReportSuccess" ELSE "ReportFailure", r)

Init ==
    /\ setup \in Setups
    /\ grain = "inactive"
    /\ executor = NoExecutor
    /\ handles = [e \in Executors |-> "none"]
    /\ handling = NoRequest
    /\ step = "idle"
    /\ target = NoExecutor
    /\ answer = [r \in Requests |-> "none"]
    /\ stream = [r \in Requests |-> NoStream]
    /\ told = <<>>

----------------------------------------------------------------------------
(* Activation and deactivation.                                            *)

\* factory.Create: executors are told apart only by when they were created.
CanCreate == \E e \in Executors : handles[e] = "none"
Created == CHOOSE e \in Executors : handles[e] = "none"

\* OnActivate with createExecutor.  A factory error leaves no trace.
OnActivate ==
    /\ grain = "inactive"
    /\ Len(told) < ToldBound
    /\ grain' = "active"
    /\ IF setup.factory
       THEN /\ CanCreate
            /\ executor' = Created
            /\ handles' = [handles EXCEPT ![Created] = "open"]
       ELSE UNCHANGED <<executor, handles>>
    /\ Tell("SessionActivated", NoRequest)
    /\ UNCHANGED <<setup, handling, step, target, answer, stream>>

\* The idle timeout expires; no more messages are delivered.
BeginDeactivate ==
    /\ grain = "active"
    /\ handling = NoRequest
    /\ grain' = "deactivating"
    /\ UNCHANGED <<setup, executor, handles, handling, step, target, answer,
                   stream, told>>

\* Mutant: deactivation does not wait.
StreamsNotAwaited == TRUE

\* g.streams.Wait()
StreamsDone == \A r \in Requests : ~Forwarding(r)

\* Mutant: Close is not called.
CloseExecutorForgotten(e) == handles

CloseExecutor(e) == IF e = NoExecutor THEN handles
                    ELSE [handles EXCEPT ![e] = "closed"]

OnDeactivate ==
    /\ grain = "deactivating"
    /\ StreamsDone
    /\ grain' = "inactive"
    /\ executor' = NoExecutor
    /\ handles' = CloseExecutor(executor)
    /\ Tell("SessionDeactivated", NoRequest)
    /\ UNCHANGED <<setup, handling, step, target, answer, stream>>

----------------------------------------------------------------------------
(* Synchronous invocations.                                                *)

Receive(r) == grain = "active" /\ handling = NoRequest /\ answer[r] = "none"

\* The response is sent; the report follows while OnReceive still runs.
Respond(r, outcome) ==
    /\ answer' = [answer EXCEPT ![r] = outcome]
    /\ step' = "reporting"

HandleSessionInvoke(r) ==
    /\ Receive(r)
    /\ handling' = r
    /\ IF executor = NoExecutor
       THEN /\ Respond(r, "success")
            /\ UNCHANGED target
       ELSE /\ step' = "executing"
            /\ target' = executor
            /\ UNCHANGED answer
    /\ UNCHANGED <<setup, grain, executor, handles, stream, told>>

\* executeOnce: the first dispatch returns a result, or a transport failure
\* (or a Go error), which starts recovery.
ExecuteReturns ==
    /\ step = "executing"
    /\ \/ \E outcome \in Outcomes : Respond(handling, outcome)
       \/ step' = "recovering" /\ UNCHANGED answer
    /\ UNCHANGED <<setup, grain, executor, handles, handling, target, stream,
                   told>>

\* Mutant: the retry goes to the executor that failed.
TryRecoverExecutorRetriesOld ==
    /\ step = "recovering"
    /\ CanCreate
    /\ handles' = [CloseExecutor(executor) EXCEPT ![Created] = "open"]
    /\ executor' = Created
    /\ step' = "retrying"
    /\ UNCHANGED <<setup, grain, handling, target, answer, stream, told>>

\* tryRecoverExecutor creates the replacement, installs it, then closes the
\* old executor; the retry goes to the replacement.
TryRecoverExecutor ==
    /\ step = "recovering"
    /\ CanCreate
    /\ handles' = [CloseExecutor(executor) EXCEPT ![Created] = "open"]
    /\ executor' = Created
    /\ target' = Created
    /\ step' = "retrying"
    /\ UNCHANGED <<setup, grain, handling, answer, stream, told>>

\* The factory fails: the first failure is the result.
RecoveryFails ==
    /\ step = "recovering"
    /\ Respond(handling, "failure")
    /\ UNCHANGED <<setup, grain, executor, handles, handling, target, stream,
                   told>>

\* The retry's result stands, whatever it is.
RetryReturns ==
    /\ step = "retrying"
    /\ \E outcome \in Outcomes : Respond(handling, outcome)
    /\ UNCHANGED <<setup, grain, executor, handles, handling, target, stream,
                   told>>

Report ==
    /\ step = "reporting"
    /\ ReportOutcomeToSupervisor(handling, answer[handling])
    /\ handling' = NoRequest
    /\ step' = "idle"
    /\ target' = NoExecutor
    /\ UNCHANGED <<setup, grain, executor, handles, answer, stream>>

----------------------------------------------------------------------------
(* Streamed invocations.                                                   *)

\* handleSessionInvokeStream.  ExecuteStream may fail at once; otherwise two
\* goroutines start and OnReceive returns.  The caller may be gone already.
HandleSessionInvokeStream(r) ==
    /\ Receive(r)
    /\ executor # NoExecutor /\ setup.streams
    /\ \/ /\ handling' = r
          /\ Respond(r, "failure")
          /\ UNCHANGED stream
       \/ /\ answer' = [answer EXCEPT ![r] = "stream"]
          /\ \E c \in {"reading", "gone"} :
               stream' = [stream EXCEPT ![r] = NewStream(executor, c)]
          /\ UNCHANGED <<handling, step>>
    /\ UNCHANGED <<setup, grain, executor, handles, target, told>>

\* handleSessionInvokeStreamFallback: no recovery, and the report comes first.
HandleSessionInvokeStreamFallback(r) ==
    /\ Receive(r)
    /\ executor = NoExecutor \/ ~setup.streams
    /\ IF executor = NoExecutor
       THEN /\ ReportOutcomeToSupervisor(r, "success")
            /\ answer' = [answer EXCEPT ![r] = "success"]
            /\ UNCHANGED <<handling, step, target>>
       ELSE /\ handling' = r
            /\ step' = "falling_back"
            /\ target' = executor
            /\ UNCHANGED <<answer, told>>
    /\ UNCHANGED <<setup, grain, executor, handles, stream>>

FallbackReturns ==
    /\ step = "falling_back"
    /\ \E outcome \in Outcomes :
        /\ ReportOutcomeToSupervisor(handling, outcome)
        /\ answer' = [answer EXCEPT ![handling] = outcome]
    /\ handling' = NoRequest
    /\ step' = "idle"
    /\ target' = NoExecutor
    /\ UNCHANGED <<setup, grain, executor, handles, stream>>

\* The producer receives a message from the backend and offers it.
ProducerReceives(r) ==
    /\ stream[r].producer = "producing"
    /\ Live(r)
    /\ stream[r].sent < EventBound
    /\ stream' = [stream EXCEPT ![r].producer = "sending", ![r].sent = @ + 1]
    /\ UNCHANGED <<engine, answer, told>>

\* It ends with a result in Final and closes Progress, then Final.  With a
\* dead context or a closed connection it cannot succeed.
ProducerEnds(r) ==
    /\ stream[r].producer = "producing"
    /\ \E outcome \in Outcomes :
        /\ outcome = "success" => Live(r)
        /\ stream' = [stream EXCEPT ![r].producer = "ended",
                                    ![r].final = outcome]
    /\ UNCHANGED <<engine, answer, told>>

\* forwardProgress takes an event from the producer.
ForwarderReceives(r) ==
    /\ stream[r].forwarder = "receiving"
    /\ stream[r].producer = "sending"
    /\ stream' = [stream EXCEPT ![r].forwarder = "offering",
                                ![r].producer = "producing"]
    /\ UNCHANGED <<engine, answer, told>>

\* forwardProgress hands the event to a consumer that is ready.
ForwarderDelivers(r) ==
    /\ stream[r].forwarder = "offering"
    /\ stream[r].consumer = "reading"
    /\ stream' = [stream EXCEPT ![r].forwarder = "receiving",
                                ![r].consumer = "busy"]
    /\ UNCHANGED <<engine, answer, told>>

\* Mutant: the send has no timeout.
SendBlocks(r) == FALSE

\* Mutant: the abandoned stream is not reported.
SendTimeoutUnreported(r) ==
    /\ stream[r].forwarder = "offering"
    /\ stream[r].consumer # "reading"
    /\ stream' = [stream EXCEPT ![r].forwarder = "done",
                                ![r].caller = "empty"]
    /\ UNCHANGED <<engine, answer, told>>

\* Mutant: an abandoned stream counts as a success.
SendTimeoutSucceeds(r) ==
    /\ stream[r].forwarder = "offering"
    /\ stream[r].consumer # "reading"
    /\ stream' = [stream EXCEPT ![r].forwarder = "reporting",
                                ![r].outcome = "success",
                                ![r].caller = "empty"]
    /\ UNCHANGED <<engine, answer, told>>

\* Mutant: Final gets whatever the producer's Final holds, a nil included.
SendTimeoutDeliversNil(r) ==
    /\ stream[r].forwarder = "offering"
    /\ stream[r].consumer # "reading"
    /\ stream' = [stream EXCEPT ![r].forwarder = "reporting",
                                ![r].outcome = "failure",
                                ![r].caller = stream[r].final]
    /\ UNCHANGED <<engine, answer, told>>

\* streamForwardSendTimeout passes while the consumer is not ready: Progress
\* is closed, Final gets what the producer has left there, if anything, and a
\* nil outcome is reported, which counts as a failure.
SendTimeout(r) ==
    /\ stream[r].forwarder = "offering"
    /\ stream[r].consumer # "reading"
    /\ stream' = [stream EXCEPT
          ![r].forwarder = "reporting",
          ![r].outcome = "failure",
          ![r].caller = IF stream[r].producer = "ended" THEN stream[r].final
                        ELSE "empty"]
    /\ UNCHANGED <<engine, answer, told>>

\* The producer has closed Progress: its result goes to the caller.
ForwarderDrained(r) ==
    /\ stream[r].forwarder = "receiving"
    /\ stream[r].producer = "ended"
    /\ stream' = [stream EXCEPT ![r].forwarder = "reporting",
                                ![r].outcome = stream[r].final,
                                ![r].caller = stream[r].final]
    /\ UNCHANGED <<engine, answer, told>>

\* The report, then the deferred cancel and Done.
ForwarderReports(r) ==
    /\ stream[r].forwarder = "reporting"
    /\ ReportOutcomeToSupervisor(r, stream[r].outcome)
    /\ stream' = [stream EXCEPT ![r].forwarder = "done"]
    /\ UNCHANGED <<engine, answer>>

\* CallToolStream sends the event to its client, which may be gone.
ConsumerSends(r) ==
    /\ stream[r].consumer = "busy"
    /\ \E c \in {"reading", "gone"} :
           stream' = [stream EXCEPT ![r].consumer = c]
    /\ UNCHANGED <<engine, answer, told>>

\* Progress is closed: CallToolStream takes what Final holds.
ConsumerEnds(r) ==
    /\ stream[r].consumer = "reading"
    /\ stream[r].caller # "open"
    /\ stream' = [stream EXCEPT ![r].consumer = "ended"]
    /\ UNCHANGED <<engine, answer, told>>

----------------------------------------------------------------------------

Producer(r) == ProducerReceives(r) \/ ProducerEnds(r)

Forwarder(r) ==
    \/ ForwarderReceives(r)
    \/ ForwarderDelivers(r)
    \/ SendTimeout(r)
    \/ ForwarderDrained(r)
    \/ ForwarderReports(r)

\* The rest of an OnReceive that is under way.
OnReceive ==
    \/ ExecuteReturns
    \/ TryRecoverExecutor
    \/ RecoveryFails
    \/ RetryReturns
    \/ Report
    \/ FallbackReturns

Next ==
    \/ OnActivate
    \/ BeginDeactivate
    \/ OnDeactivate
    \/ OnReceive
    \/ \E r \in Requests :
        \/ HandleSessionInvoke(r)
        \/ HandleSessionInvokeStream(r)
        \/ HandleSessionInvokeStreamFallback(r)
        \/ Producer(r)
        \/ Forwarder(r)
        \/ ConsumerSends(r)
        \/ ConsumerEnds(r)

Spec == Init /\ [][Next]_vars

\* Goroutines run; an execution ends by its request timeout, a stream by the
\* timeout of its context, an offer by streamForwardSendTimeout; the engine
\* calls OnDeactivate once it has decided to.  Callers need not read.
Fairness ==
    /\ WF_vars(OnReceive)
    /\ WF_vars(OnDeactivate)
    /\ \A r \in Requests : WF_vars(Producer(r)) /\ WF_vars(Forwarder(r))

FairSpec == Spec /\ Fairness

----------------------------------------------------------------------------
(* Properties.                                                             *)

\* Every variable has its type, in every interleaving of the grain with its
\* streams (session_grain.go).
TypeOK ==
    /\ setup \in Setups
    /\ grain \in {"inactive", "active", "deactivating"}
    /\ executor \in Executors \cup {NoExecutor}
    /\ handles \in [Executors -> {"none", "open", "closed"}]
    /\ handling \in Requests \cup {NoRequest}
    /\ step \in {"idle", "executing", "recovering", "retrying",
                 "falling_back", "reporting"}
    /\ target \in Executors \cup {NoExecutor}
    /\ answer \in [Requests -> Outcomes \cup {"none", "stream"}]
    /\ stream \in [Requests -> Streams]
    /\ told \in Seq([type : {"SessionActivated", "SessionDeactivated",
                             "ReportSuccess", "ReportFailure"},
                     of : Requests \cup {NoRequest}])

\* No backend connection leaks (session_grain.go, tryRecoverExecutor and
\* OnDeactivate): an executor that is not g.executor has been closed, over any
\* number of recoveries and activations.
NoExecutorLeaked ==
    \A e \in Executors : handles[e] = "open" <=> e = executor

\* A synchronous dispatch, the retry included, never runs on an executor that
\* recovery or deactivation has closed (session_grain.go, executeOnce).
DispatchOnOpenExecutor ==
    step \in {"executing", "retrying", "falling_back"} =>
        /\ grain = "active"
        /\ handles[target] = "open"

\* The reports made for request r.
Reports(r) ==
    {k \in 1..Len(told) :
        /\ told[k].type \in {"ReportSuccess", "ReportFailure"}
        /\ told[k].of = r}

\* Every invocation that was received and is over was reported to the
\* supervisor exactly once, and one that goes on was not (session_grain.go,
\* reportOutcomeToSupervisor): a half-open slot is released once, whichever of
\* the stub, retry, fallback, stream and abandoned-stream paths was taken.
OneReportPerInvocation ==
    \A r \in Requests :
        Cardinality(Reports(r)) =
            IF answer[r] = "none" \/ handling = r \/ Forwarding(r)
            THEN 0 ELSE 1

\* The backend is only credited with a success the caller was given
\* (session_grain.go, executeOnce and forwardStream).
SuccessReportedTruly ==
    \A r \in Requests : \A k \in Reports(r) :
        told[k].type = "ReportSuccess" =>
            "success" \in {answer[r], stream[r].caller}

\* The supervisor hears of an outcome only between the activation and the
\* deactivation of the session (session_grain.go, OnDeactivate): no stream
\* outlives the session it is counted in.
ReportsWithinSession ==
    /\ \A r \in Requests : Forwarding(r) => grain # "inactive"
    /\ \A k \in 1..Len(told) :
        told[k].type \in {"SessionDeactivated", "ReportSuccess",
                          "ReportFailure"}
            => k > 1 /\ told[k - 1].type # "SessionDeactivated"

\* Every invocation is reported in the end, even when its caller stops
\* reading (session_grain.go, forwardProgress).
EveryInvocationReported ==
    \A r \in Requests :
        (handling = r \/ Forwarding(r)) ~> (Reports(r) # {})

\* Deactivation completes: the wait for streams ends
\* (session_grain.go, OnDeactivate).
DeactivationCompletes == grain = "deactivating" ~> grain = "inactive"

====
