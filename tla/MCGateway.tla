---- MODULE MCGateway ----
EXTENDS Gateway

CONSTANTS t1, t2, u1

Local == [cluster |-> FALSE, provider |-> FALSE, useTLS |-> FALSE,
          tls |-> {}, metrics |-> FALSE, sink |-> "default", mailbox |-> 0,
          tenants |-> <<1, 2>>]

\* A local gateway with a file sink and metrics, a cluster node with TLS,
\* one whose cluster settings Start refuses, and one New refuses.
MCConfigs ==
    {[Local EXCEPT !.metrics = TRUE, !.sink = "file", !.mailbox = 1],
     [Local EXCEPT !.cluster = TRUE, !.provider = TRUE, !.useTLS = TRUE,
                   !.tls = {"CertFile", "KeyFile", "CACertFile"}],
     [Local EXCEPT !.cluster = TRUE],
     [Local EXCEPT !.tenants = <<1, 1>>]}

MCToolArguments ==
    {[transport |-> "stdio", has |-> {"ID", "Stdio", "Command"}],
     [transport |-> "grpc",
      has |-> {"ID", "GRPC", "Target", "Service", "DescriptorSet",
               "Reflection"}]}
====
