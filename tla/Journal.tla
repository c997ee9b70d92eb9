---- MODULE Journal ----
(***************************************************************************)
(* The audit journal and its sinks (internal/runtime/actor/journal.go,     *)
(* internal/runtime/audit): a sink as a value and the operations on it.    *)
(*                                                                         *)
(* Events are counted, not kept: buffer holds the events encoded into the  *)
(* file sink's writer, stored those in the file (or in the memory sink's   *)
(* slice).  The sink's mutex makes every operation atomic.                 *)
(***************************************************************************)
EXTENDS Naturals

SinkKinds == {"memory", "file"}

Sinks == [kind : SinkKinds, open : BOOLEAN, broken : BOOLEAN,
          buffer : Nat, stored : Nat]

NewSink(kind, stored) ==
    [kind |-> kind, open |-> TRUE, broken |-> FALSE,
     buffer |-> 0, stored |-> stored]

\* NewMemorySink, and NewFileSink, which appends to what the file holds.
NewMemorySink == NewSink("memory", 0)
NewFileSink(stored) == NewSink("file", stored)

\* createAuditSink: the configured sink, or a new memory sink.
CreateAuditSink(configured, current) ==
    IF configured THEN current ELSE NewMemorySink

\* MemorySink.Write: dropped, with no error, once the sink is closed.
MemorySinkWrite(s) ==
    IF s.open THEN [s EXCEPT !.stored = s.stored + 1] ELSE s

\* FileSink.Write.  The encoder writes into the buffer, and a full buffer is
\* written to the file: any number of the buffered events may leave it.  A
\* failed write breaks the buffered writer for good.
FileSinkWrites(s) ==
    IF ~s.open \/ s.broken THEN {s}
    ELSE {[s EXCEPT !.buffer = s.buffer + 1 - k, !.stored = s.stored + k] :
              k \in 0..(s.buffer + 1)}
         \cup {[s EXCEPT !.broken = TRUE]}

SinkWrites(s) ==
    IF s.kind = "memory" THEN {MemorySinkWrite(s)} ELSE FileSinkWrites(s)

\* Mutant: the file is closed and what is in the buffer is not written.
SinkCloseUnflushed(s) ==
    [s EXCEPT !.open = FALSE, !.buffer = 0]

\* MemorySink.Close and FileSink.Close, which flushes first; a second Close
\* does nothing.  The journal ignores the error of a flush that fails.
SinkClose(s) ==
    IF s.broken THEN [s EXCEPT !.open = FALSE, !.buffer = 0]
    ELSE [s EXCEPT !.open = FALSE, !.buffer = 0,
                   !.stored = s.stored + s.buffer]
====
