---- MODULE WSConn ----
(***************************************************************************)
(* One MCP connection over a WebSocket (internal/ingress/ws): the handler  *)
(* that upgrades the request and waits, the SDK's goroutine that calls     *)
(* Read, the goroutines that call Write, the ping loop, and Close.         *)
(*                                                                         *)
(* Not in this repository, and modelled from how it is used:               *)
(*  - gorilla/websocket, whose read errors stick ("once ReadMessage        *)
(*    returns an error all further calls do", and it panics when they go   *)
(*    on), whose write buffer is shared by the callers of WriteMessage,    *)
(*    and which writes nothing after a close frame;                        *)
(*  - the MCP SDK, which calls Read in a loop until it fails, and closes   *)
(*    the connection when it did or when the session is closed.            *)
(***************************************************************************)
EXTENDS Naturals, Sequences

CONSTANTS
    Writers,         \* calls of Write, each with a message of its own
    NoOne,
    MaxFrames,       \* bound on the frames of the peer
    MaxFailedReads   \* reads of a failed connection before gorilla panics

ASSUME WSAssumption ==
    /\ MaxFrames \in Nat /\ MaxFailedReads \in Nat \ {0}
    /\ NoOne \notin Writers /\ "close" \notin Writers

VARIABLES
    \* the request, the handler, and the SDK's connection
    ctxDone,     \* the request's context has ended
    propagates,  \* the SDK hands that context on to Read
    handler,     \* ServeHTTP
    reader,      \* the SDK's reading goroutine
    pinger,      \* pingLoop
    \* wsConn
    done,        \* the channel has been closed
    closing,     \* how far the body of closeOnce is
    writeMu,     \* who holds the mutex
    writer,      \* per call of Write: where it is
    cancelled,   \* calls whose context has ended
    result,      \* per call: what it returned
    \* gorilla's connection and the peer
    inbox,       \* frames the peer has sent
    frames,      \* how many it did
    peer,        \* "up", "closing" after its close frame, or "gone"
    socket,      \* this side of the connection
    readErr,     \* the error every read returns from now on
    failedReads,
    writeBuf,    \* whose message is in the write buffer
    writeErr,    \* every write fails from now on
    wire         \* the frames written

handlerVars == <<ctxDone, propagates, handler, pinger>>
closeVars == <<done, closing>>
writeVars == <<writeMu, writer, cancelled, result, writeBuf>>
readVars == <<reader, inbox, readErr, failedReads>>
peerVars == <<frames, peer>>
wireVars == <<socket, writeErr, wire>>
wsVars == <<handlerVars, closeVars, writeVars, readVars, peerVars, wireVars>>

\* The state newWSConn returns, behind an upgraded request.
WSInit ==
    /\ ctxDone = FALSE /\ propagates \in BOOLEAN
    /\ handler = "connect" /\ reader = "off" /\ pinger = "off"
    /\ done = FALSE /\ closing = "no"
    /\ writeMu = NoOne
    /\ writer = [w \in Writers |-> "idle"]
    /\ cancelled = {}
    /\ result = [w \in Writers |-> "none"]
    /\ inbox = <<>> /\ frames = 0 /\ peer = "up" /\ socket = "open"
    /\ readErr = "none" /\ failedReads = 0
    /\ writeBuf = NoOne /\ writeErr = FALSE /\ wire = <<>>

\* A panic ends the process.
Alive == reader # "panicked"

----------------------------------------------------------------------------
(* ServeHTTP and pingLoop.                                                 *)

\* srv.Connect starts the reading goroutine, and pingLoop starts after it.
Connect ==
    /\ handler = "connect"
    /\ handler' = "serving" /\ reader' = "check" /\ pinger' = "waiting"
    /\ UNCHANGED <<ctxDone, propagates, inbox, readErr, failedReads>>
    /\ UNCHANGED <<closeVars, writeVars, peerVars, wireVars>>

\* srv.Connect fails: the handler closes the connection itself.
ConnectFails ==
    /\ handler = "connect" /\ handler' = "closing"
    /\ UNCHANGED <<ctxDone, propagates, pinger>>
    /\ UNCHANGED <<closeVars, writeVars, readVars, peerVars, wireVars>>

\* The select of ServeHTTP, and the deferred ss.Close.
StopServing ==
    /\ handler = "serving" /\ (ctxDone \/ done)
    /\ handler' = "closing"
    /\ UNCHANGED <<ctxDone, propagates, pinger>>
    /\ UNCHANGED <<closeVars, writeVars, readVars, peerVars, wireVars>>

\* ss.Close, or wc.Close, has returned: the connection is closed and the SDK
\* has seen its reading goroutine end.
HandlerReturns ==
    /\ handler = "closing" /\ closing = "closed" /\ reader \in {"off", "ended"}
    /\ handler' = "returned"
    /\ UNCHANGED <<ctxDone, propagates, pinger>>
    /\ UNCHANGED <<closeVars, writeVars, readVars, peerVars, wireVars>>

\* A tick whose WriteControl fails, and then nothing is written any more.  A
\* ping that is sent changes nothing here.
Ping ==
    /\ pinger = "waiting"
    /\ socket = "closed" \/ peer = "gone"
    /\ writeErr' = TRUE
    /\ UNCHANGED <<socket, wire>>
    /\ UNCHANGED <<handlerVars, closeVars, writeVars, readVars, peerVars>>

PingLoopEnds ==
    /\ pinger = "waiting" /\ done
    /\ pinger' = "ended"
    /\ UNCHANGED <<ctxDone, propagates, handler>>
    /\ UNCHANGED <<closeVars, writeVars, readVars, peerVars, wireVars>>

----------------------------------------------------------------------------
(* Read, called again and again until it fails.                            *)

\* The select at the head of the loop, and SetReadDeadline.
ReadCheck ==
    /\ reader = "check"
    /\ reader' = IF done \/ (ctxDone /\ propagates) THEN "ended" ELSE "read"
    /\ UNCHANGED <<inbox, readErr, failedReads>>
    /\ UNCHANGED <<handlerVars, closeVars, writeVars, peerVars, wireVars>>

\* ReadMessage returns a frame: a message for the SDK, which reads on, or
\* what DecodeMessage refuses.
ReadFrame ==
    /\ reader = "read" /\ readErr = "none" /\ inbox # <<>> /\ socket = "open"
    /\ inbox' = Tail(inbox)
    /\ reader' = IF Head(inbox) = "message" THEN "check" ELSE "ended"
    /\ UNCHANGED <<readErr, failedReads>>
    /\ UNCHANGED <<handlerVars, closeVars, writeVars, peerVars, wireVars>>

\* What a read without a frame fails with: the connection is closed, by this
\* side or the other, or the deadline has passed.
ReadError ==
    IF readErr # "none" THEN readErr
    ELSE IF socket = "closed" \/ peer = "gone" THEN "broken"
    ELSE IF peer = "closing" THEN "close"
    ELSE "timeout"

\* Read after an error: a timeout only means another turn of the loop,
\* everything else ends it.
AfterError(err) == IF err = "timeout" THEN "check" ELSE "ended"

\* ReadMessage fails.
ReadFails ==
    /\ reader = "read"
    /\ readErr # "none" \/ inbox = <<>> \/ socket = "closed"
    /\ readErr' = ReadError
    /\ failedReads' = failedReads + 1
    /\ reader' = IF failedReads' = MaxFailedReads THEN "panicked"
                 ELSE AfterError(ReadError)
    /\ UNCHANGED inbox
    /\ UNCHANGED <<handlerVars, closeVars, writeVars, peerVars, wireVars>>

----------------------------------------------------------------------------
(* Write.                                                                  *)

WriterAt(w, l) == writer' = [writer EXCEPT ![w] = l]

WriteReturns(w, r) == WriterAt(w, "done") /\ result' = [result EXCEPT ![w] = r]

\* Once the session is there, the check of the context, and EncodeMessage.
Write(w) ==
    /\ writer[w] = "idle" /\ reader # "off"
    /\ \/ w \notin cancelled /\ WriterAt(w, "encoded") /\ UNCHANGED result
       \/ WriteReturns(w, "error")
    /\ UNCHANGED <<writeMu, cancelled, writeBuf>>
    /\ UNCHANGED <<handlerVars, closeVars, readVars, peerVars, wireVars>>

\* A Write that relies on gorilla to serialize its callers (a mutant of
\* WriteLock).
WriteLockUnserialized(w) ==
    /\ writer[w] = "encoded"
    /\ IF w \in cancelled \/ done
       THEN WriteReturns(w, "error") /\ UNCHANGED <<writeMu, writeBuf>>
       ELSE /\ writeMu' = w /\ writeBuf' = w /\ WriterAt(w, "writing")
            /\ UNCHANGED result
    /\ UNCHANGED cancelled
    /\ UNCHANGED <<handlerVars, closeVars, readVars, peerVars, wireVars>>

\* writeMu.Lock, the checks again, and WriteMessage as far as its buffer.
WriteLock(w) ==
    /\ writer[w] = "encoded" /\ writeMu = NoOne
    /\ IF w \in cancelled \/ done
       THEN WriteReturns(w, "error") /\ UNCHANGED <<writeMu, writeBuf>>
       ELSE /\ writeMu' = w /\ writeBuf' = w /\ WriterAt(w, "writing")
            /\ UNCHANGED result
    /\ UNCHANGED cancelled
    /\ UNCHANGED <<handlerVars, closeVars, readVars, peerVars, wireVars>>

\* WriteMessage writes the buffer out, unless writing has failed before or
\* fails now, and the deferred Unlock.
WriteMessage(w) ==
    /\ writer[w] = "writing"
    /\ \/ /\ ~writeErr /\ socket = "open"
          /\ wire' = Append(wire, writeBuf) /\ WriteReturns(w, "nil")
          /\ UNCHANGED writeErr
       \/ /\ writeErr \/ socket = "closed" \/ peer = "gone"
          /\ writeErr' = TRUE /\ WriteReturns(w, "error")
          /\ UNCHANGED wire
    /\ writeMu' = NoOne
    /\ UNCHANGED <<cancelled, writeBuf, socket>>
    /\ UNCHANGED <<handlerVars, closeVars, readVars, peerVars>>

\* The context of a call ends.
CancelWrite(w) ==
    /\ w \notin cancelled /\ writer[w] # "done"
    /\ cancelled' = cancelled \cup {w}
    /\ UNCHANGED <<writeMu, writer, result, writeBuf>>
    /\ UNCHANGED <<handlerVars, closeVars, readVars, peerVars, wireVars>>

----------------------------------------------------------------------------
(* Close, in the three steps of the body of closeOnce.                     *)

\* A Close that does not signal (a mutant of Close).
CloseUnsignalled ==
    /\ closing = "no" /\ (reader = "ended" \/ handler = "closing")
    /\ closing' = "signalled"
    /\ UNCHANGED done
    /\ UNCHANGED <<handlerVars, writeVars, readVars, peerVars, wireVars>>

\* Called by the SDK when Read has failed and when the session is closed, or
\* by the handler; the first call runs the body: close(done).
Close ==
    /\ closing = "no" /\ (reader = "ended" \/ handler = "closing")
    /\ closing' = "signalled" /\ done' = TRUE
    /\ UNCHANGED <<handlerVars, writeVars, readVars, peerVars, wireVars>>

\* WriteControl of the close frame, after which gorilla writes nothing.
CloseFrame ==
    /\ closing = "signalled" /\ closing' = "sent"
    /\ wire' = IF writeErr THEN wire ELSE Append(wire, "close")
    /\ writeErr' = TRUE
    /\ UNCHANGED <<done, socket>>
    /\ UNCHANGED <<handlerVars, writeVars, readVars, peerVars>>

\* conn.Close.
CloseSocket ==
    /\ closing = "sent" /\ closing' = "closed" /\ socket' = "closed"
    /\ UNCHANGED <<done, writeErr, wire>>
    /\ UNCHANGED <<handlerVars, writeVars, readVars, peerVars>>

----------------------------------------------------------------------------
(* The request's context ends; the peer sends, closes, or is gone.         *)

ContextEnds ==
    /\ ~ctxDone /\ ctxDone' = TRUE
    /\ UNCHANGED <<propagates, handler, pinger>>
    /\ UNCHANGED <<closeVars, writeVars, readVars, peerVars, wireVars>>

PeerSends ==
    /\ peer = "up" /\ frames < MaxFrames
    /\ \E frame \in {"message", "junk"} : inbox' = Append(inbox, frame)
    /\ frames' = frames + 1
    /\ UNCHANGED <<reader, readErr, failedReads, peer>>
    /\ UNCHANGED <<handlerVars, closeVars, writeVars, wireVars>>

PeerLeaves ==
    /\ \/ peer = "up" /\ peer' = "closing"
       \/ peer # "gone" /\ peer' = "gone"
    /\ UNCHANGED frames
    /\ UNCHANGED <<handlerVars, closeVars, writeVars, readVars, wireVars>>

----------------------------------------------------------------------------

Serve == Connect \/ ConnectFails \/ StopServing \/ HandlerReturns
Read == ReadCheck \/ ReadFrame \/ ReadFails
Closes == Close \/ CloseFrame \/ CloseSocket
Writes(w) == Write(w) \/ WriteLock(w) \/ WriteMessage(w)

WSNext ==
    /\ Alive
    /\ \/ Serve \/ Ping \/ PingLoopEnds \/ Read \/ Closes
       \/ \E w \in Writers : Writes(w) \/ CancelWrite(w)
       \/ ContextEnds \/ PeerSends \/ PeerLeaves

\* The goroutines run: a read returns by its deadline, a write and a control
\* frame by the kernel's, and the SDK closes what it has stopped reading.
Fairness ==
    /\ WF_wsVars(Alive /\ Serve) /\ WF_wsVars(Alive /\ Read)
    /\ WF_wsVars(Alive /\ Closes) /\ WF_wsVars(Alive /\ PingLoopEnds)
    /\ \A w \in Writers : WF_wsVars(Alive /\ (WriteLock(w) \/ WriteMessage(w)))

WSSpec == WSInit /\ [][WSNext]_wsVars /\ Fairness

----------------------------------------------------------------------------
(* Properties.                                                             *)

\* writeMu and the checks under it: a call of Write returns nil exactly when
\* its own message, whole, was sent once, and nothing follows a close frame,
\* whoever closes or pings in between.
WritesTruthful ==
    /\ \A w \in Writers :
         LET sent == {i \in DOMAIN wire : wire[i] = w}
         IN  IF result[w] = "nil" THEN \E i \in sent : sent = {i}
             ELSE sent = {}
    /\ \A i \in DOMAIN wire : wire[i] = "close" => i = Len(wire)

\* Close, Read's checks and pingLoop: once the peer has left, the request's
\* context has ended or Close has begun, the reading goroutine, the ping loop
\* and the handler all end and the socket is closed (unless a read has
\* panicked, which an idle peer makes it do).
Over ==
    /\ handler = "returned" /\ socket = "closed"
    /\ reader \in {"off", "ended"} /\ pinger \in {"off", "ended"}
ConnectionEnds ==
    (peer # "up" \/ ctxDone \/ closing # "no") ~> (Over \/ ~Alive)

====
