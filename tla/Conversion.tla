---- MODULE Conversion ----
(***************************************************************************)
(* What a call and its answer become on the way through the gateway: the   *)
(* executors (internal/egress), the egress conversions                     *)
(* (internal/egress/mcpconv), and the conversions of the two ingresses     *)
(* (internal/ingress/pkg/dispatch.go, internal/ingress/grpc/convert.go).   *)
(*                                                                         *)
(* A content item is its type, the set of its fields that are not empty,   *)
(* and a number for what they hold, 0 for what the gateway puts together   *)
(* itself; an output map is the sequence of its items and whether it has   *)
(* structured content.  JSON encoding of an output cannot fail: everything *)
(* in it was decoded from JSON or is text.                                 *)
(*                                                                         *)
(* A tool is its identifier and transport, whether its backend could be    *)
(* reached when it was registered, what the backend has (methods,          *)
(* resources), and, for a gRPC tool, the method configured and whether its *)
(* descriptors are complete: the service is in them, and every import.     *)
(***************************************************************************)
EXTENDS Naturals, Sequences, FiniteSets

KnownTypes == {"text", "image", "audio", "resource", "resource_link"}
Fields == {"text", "data", "mimeType", "uri", "name", "blob"}

NoOutput == [content |-> <<>>, structured |-> FALSE, nil |-> TRUE]

\* mcp.ExecutionStatus, mcp.ExecutionResult.
Status == {"success", "failure", "timeout", "denied", "throttled"}

Result(status, output) == [status |-> status, output |-> output]
NoResult == Result("none", NoOutput)

----------------------------------------------------------------------------
(* Egress: the backend's answer becomes the output of the invocation.      *)

\* contentToSlice, for one item: what each kind keeps of its fields.
Kept ==
    [text |-> {"text"}, image |-> {"data", "mimeType"},
     audio |-> {"data", "mimeType"}, resource |-> {"uri", "mimeType", "text"},
     resource_link |-> {"uri", "name", "mimeType"}]

ContentToMap(c) ==
    IF c.type \in KnownTypes
    THEN [type |-> c.type, fields |-> c.fields \cap Kept[c.type],
          value |-> c.value]
    ELSE [type |-> "unknown", fields |-> {}, value |-> 0]

ContentToSlice(content) ==
    [i \in DOMAIN content |-> ContentToMap(content[i])]

CallResultToOutput(res) ==
    [content |-> ContentToSlice(res.content),
     structured |-> res.structured, nil |-> FALSE]

\* The name a backend is called with: the name parameter, or the tool's ID.
ParamsFromInvocation(tool, name) == IF name = "" THEN tool.id ELSE name

\* HTTPExecutor.Execute.  open: the session is there; the call answers, fails
\* ("error", also when the backend has no tool of that name), or fails with
\* its context done ("deadline").
ExecuteHTTP(open, tool, name, answer) ==
    IF \/ ~open \/ answer.kind = "error"
       \/ answer.kind = "ok" /\ name \notin tool.methods
    THEN Result("failure", NoOutput)
    ELSE IF answer.kind = "deadline" THEN Result("timeout", NoOutput)
    ELSE Result(IF answer.isError THEN "failure" ELSE "success",
                CallResultToOutput(answer))

\* StdioExecutor.Execute: the same over the pipes of a child process.
ExecuteStdio(open, tool, name, answer) ==
    ExecuteHTTP(open, tool, name, answer)

\* HTTPExecutor.ExecuteStream: no progress, and the result of Execute last.
ExecuteStreamHTTP(open, tool, name, answer) ==
    [progress |-> <<>>, final |-> ExecuteHTTP(open, tool, name, answer)]

\* LoadDescriptorSet and FetchDescriptorSetViaReflection: the file as it is,
\* or what the backend's reflection serves, the imports asked for until none
\* is missing; nothing when the backend lacks one of them.
LoadDescriptors(tool) == tool.complete

\* ResolveService: the descriptors are complete and the service is there.
ResolveService(tool) == LoadDescriptors(tool)

ResolveMethod(tool, method) ==
    ResolveService(tool) /\ method \in tool.methods

\* NewGRPCExecutor: an executor needs its descriptors, the configured method's
\* if there is one.
NewGRPCExecutor(tool) ==
    IF tool.method # "" THEN ResolveMethod(tool, tool.method)
    ELSE ResolveService(tool)

\* Whether the tool can have an executor; its backend may be out of reach
\* all the same.
Creatable(tool) == tool.transport = "grpc" => NewGRPCExecutor(tool)

\* A text the gateway composes: a response, an output or an error as JSON.
AsText == [type |-> "text", fields |-> {"text"}, value |-> 0]

\* textContentOutput, the output of a gRPC backend: one text item, which
\* holds the response as JSON and is therefore never empty.
TextContentOutput ==
    [content |-> <<AsText>>, structured |-> FALSE, nil |-> FALSE]

\* GRPCExecutor.resolveDescriptors: a configured method has its descriptors,
\* whatever the name; otherwise the service must have a method of that name.
ResolveDescriptors(tool, name) ==
    tool.method # "" \/ name \in tool.methods

\* GRPCExecutor.Execute.  The RPC that is called is the one of the name, also
\* when a method is configured; the backend answers only those it has.
ExecuteGRPC(open, tool, name, answer) ==
    IF \/ ~open \/ ~ResolveDescriptors(tool, name) \/ answer.kind = "error"
       \/ answer.kind = "ok" /\ name \notin tool.methods
    THEN Result("failure", NoOutput)
    ELSE IF answer.kind = "deadline" THEN Result("timeout", NoOutput)
    ELSE Result("success", TextContentOutput)

\* GRPCExecutor.ExecuteStream: the result holds the last message of the
\* stream, and an empty text when there was none.
ExecuteStreamGRPC(open, tool, name, answer) ==
    LET res == ExecuteGRPC(open, tool, name, answer)
    IN  IF res.status # "success" \/ answer.content # <<>> THEN res
        ELSE Result("success",
                    [TextContentOutput EXCEPT
                        !.content = <<[AsText EXCEPT !.fields = {}]>>])

\* executeStream of the grain, to its last result: an executor without streams
\* executes.
ExecuteStream(open, tool, name, answer) ==
    LET called == ParamsFromInvocation(tool, name)
    IN  CASE tool.transport = "stdio" ->
                ExecuteStdio(open, tool, called, answer)
          [] tool.transport = "http" ->
                ExecuteStreamHTTP(open, tool, called, answer).final
          [] tool.transport = "grpc" ->
                ExecuteStreamGRPC(open, tool, called, answer)

\* The executor CompositeExecutorFactory creates for the tool is called.
Execute(open, tool, name, answer) ==
    LET called == ParamsFromInvocation(tool, name)
    IN  CASE tool.transport = "stdio" ->
                ExecuteStdio(open, tool, called, answer)
          [] tool.transport = "http" -> ExecuteHTTP(open, tool, called, answer)
          [] tool.transport = "grpc" -> ExecuteGRPC(open, tool, called, answer)

\* FetchSchemas of a gRPC backend: the methods of the service, or the one
\* configured if it is there.
FetchGRPCSchemas(tool) ==
    IF ~ResolveService(tool) THEN {}
    ELSE IF tool.method = "" THEN tool.methods
    ELSE {tool.method} \cap tool.methods

\* FetchSchemas of an MCP backend, which lists its tools.
FetchHTTPSchemas(tool) == tool.methods
FetchStdioSchemas(tool) == tool.methods

\* CompositeSchemaFetcher: the names a tool exports, none when its backend
\* could not be reached as it was registered.
FetchSchemas(tool) ==
    CASE ~tool.reachable -> {}
      [] tool.reachable /\ tool.transport = "stdio" -> FetchStdioSchemas(tool)
      [] tool.reachable /\ tool.transport = "http" -> FetchHTTPSchemas(tool)
      [] tool.reachable /\ tool.transport = "grpc" -> FetchGRPCSchemas(tool)

\* FetchResources: resources and templates; a gRPC backend has neither.
FetchHTTPResources(tool) == tool.resources
FetchStdioResources(tool) == tool.resources
FetchGRPCResources(tool) == {}

FetchResources(tool) ==
    CASE ~tool.reachable -> {}
      [] tool.reachable /\ tool.transport = "stdio" -> FetchStdioResources(tool)
      [] tool.reachable /\ tool.transport = "http" -> FetchHTTPResources(tool)
      [] tool.reachable /\ tool.transport = "grpc" -> FetchGRPCResources(tool)

----------------------------------------------------------------------------
(* Ingress: the output becomes what the client is answered.                *)

IsText(item) == item.type = "text" /\ "text" \in item.fields

\* The items that are texts, gathered in a loop over all of them.
Texts(content) ==
    LET upTo[n \in 0 .. Len(content)] ==
            IF n = 0 THEN <<>>
            ELSE IF IsText(content[n]) THEN Append(upTo[n - 1], content[n])
            ELSE upTo[n - 1]
    IN  upTo[Len(content)]

ErrorAnswer == [isError |-> TRUE, content |-> <<AsText>>, raw |-> NoOutput]

\* The loop returns with the first text (a mutant of OutputToCallToolResult).
FirstTextOnly(output) ==
    [isError |-> FALSE, raw |-> output,
     content |-> IF output.nil THEN <<>>
                 ELSE IF Texts(output.content) # <<>>
                 THEN <<Texts(output.content)[1]>> ELSE <<AsText>>]

\* OutputToCallToolResult: the texts, or the output as JSON when it has none.
OutputToCallToolResult(output) ==
    [isError |-> FALSE, raw |-> output,
     content |-> IF output.nil THEN <<>>
                 ELSE IF Texts(output.content) # <<>>
                 THEN Texts(output.content) ELSE <<AsText>>]

\* ExecutionResultToCallToolResult, and DispatchToolCall's last step: the
\* result wins over the error that may come with it.
ExecutionResultToCallToolResult(res) ==
    IF res.status = "success" THEN OutputToCallToolResult(res.output)
    ELSE ErrorAnswer

\* outputToContentItems: type, text, data and the field "mime_type", which no
\* executor writes.
OutputToContentItems(output) ==
    [i \in DOMAIN output.content |->
        [type |-> output.content[i].type,
         fields |-> output.content[i].fields
                        \cap {"text", "data", "mime_type"},
         value |-> output.content[i].value]]

ExecutionResultToCallToolResponse(res) ==
    IF res.status = "success"
    THEN [isError |-> FALSE, raw |-> res.output,
          content |-> OutputToContentItems(res.output)]
    ELSE ErrorAnswer

----------------------------------------------------------------------------
(* Resources.                                                              *)

\* The contents of a resource; an output without any has no such key.
ReadResourceResultToOutput(res) ==
    [content |-> [i \in DOMAIN res.content |->
                    [res.content[i] EXCEPT !.fields =
                        @ \cap {"uri", "mimeType", "text", "blob"}]],
     structured |-> FALSE, nil |-> FALSE]

\* ReadResource of the MCP executors.  A resource URI is never empty here: the
\* session serves those it lists.
ReadResourceHTTP(open, answer) ==
    IF ~open \/ answer.kind = "error" THEN Result("failure", NoOutput)
    ELSE IF answer.kind = "deadline" THEN Result("timeout", NoOutput)
    ELSE Result("success", ReadResourceResultToOutput(answer))
ReadResourceStdio(open, answer) == ReadResourceHTTP(open, answer)

\* executeResourceRead of the grain: a gRPC executor does not read resources.
ReadResource(open, tool, answer) ==
    CASE tool.transport = "stdio" -> ReadResourceStdio(open, answer)
      [] tool.transport = "http" -> ReadResourceHTTP(open, answer)
      [] tool.transport = "grpc" -> Result("failure", NoOutput)

\* OutputToReadResourceResult, for an output that has not left the process,
\* where a blob is still bytes.  One without contents becomes a text.
OutputToReadResourceResult(output) ==
    [isError |-> FALSE, raw |-> output,
     content |-> IF output.content = <<>> THEN <<AsText>> ELSE output.content]

\* Here too the result wins over the error that may come with it.
ExecutionResultToReadResourceResult(res) ==
    IF res.status = "success" THEN OutputToReadResourceResult(res.output)
    ELSE ErrorAnswer

====
