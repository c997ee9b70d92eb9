---- MODULE MCIngress ----
EXTENDS Ingress

CONSTANTS c1

Files == [id |-> "files", transport |-> "http", reachable |-> TRUE,
          methods |-> {"read"}, resources |-> {"r"},
          method |-> "", complete |-> FALSE]
Store == [id |-> "store", transport |-> "grpc", reachable |-> TRUE,
          methods |-> {"read"}, resources |-> {},
          method |-> "read", complete |-> TRUE]

\* A tool that was registered before its backend was up, and a gRPC tool
\* whose descriptor set lacks a file.
Notes == [id |-> "notes", transport |-> "stdio", reachable |-> FALSE,
          methods |-> {"read", "notes"}, resources |-> {"r"},
          method |-> "", complete |-> FALSE]
Partial == [Store EXCEPT !.id = "notes", !.method = "", !.complete = FALSE]

\* A tool alone, with one that has a name in common with it, and replaced.
MCRegistries == {{Files}, {Files, Store}, {Notes}, {Partial}}

Plain == [enterprise |-> FALSE, verifier |-> FALSE, metadata |-> FALSE,
          interceptors |-> FALSE, resolver |-> "custom"]
Enterprise ==
    [enterprise |-> TRUE, verifier |-> TRUE, metadata |-> TRUE,
     interceptors |-> TRUE, resolver |-> "none"]

\* A resolver of the application; enterprise authorization, with a resolver or
\* without, on a gRPC server with or without the interceptors; one that is
\* refused.
MCConfigs ==
    {Plain, [Enterprise EXCEPT !.verifier = FALSE]} \cup
    {[Enterprise EXCEPT !.interceptors = i, !.resolver = r] :
        i \in BOOLEAN, r \in {"none", "custom"}}

MCHeaders ==
    {[scheme |-> "bearer", verdict |-> "ok", user |-> "u", scopes |-> {"call"}],
     [scheme |-> "bearer", verdict |-> "ok", user |-> "", scopes |-> {}],
     [scheme |-> "bearer", verdict |-> "nil", user |-> "", scopes |-> {}],
     [scheme |-> "none", verdict |-> "rejected", user |-> "", scopes |-> {}]}

Text(n) == [type |-> "text", fields |-> {"text"}, value |-> n]
Image == [type |-> "image", fields |-> {"data", "mimeType"}, value |-> 3]
Resource == [type |-> "resource", fields |-> {"uri", "blob"}, value |-> 4]

MCAnswers ==
    {[kind |-> "ok", isError |-> FALSE, content |-> <<Text(1), Image, Text(2)>>,
      structured |-> FALSE],
     [kind |-> "ok", isError |-> TRUE, content |-> <<Text(1)>>,
      structured |-> FALSE],
     [kind |-> "ok", isError |-> FALSE, content |-> <<Resource>>,
      structured |-> TRUE],
     [kind |-> "ok", isError |-> FALSE, content |-> <<>>,
      structured |-> FALSE],
     [kind |-> "error", isError |-> TRUE, content |-> <<>>,
      structured |-> FALSE],
     [kind |-> "deadline", isError |-> TRUE, content |-> <<>>,
      structured |-> FALSE]}
====
