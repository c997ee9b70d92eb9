---- MODULE Settings ----
(***************************************************************************)
(* How the gateway treats its settings: defaults, validation of tenants    *)
(* and tools, TLS files and cluster options (internal/runtime/config,      *)
(* mcp/tool_validation.go, internal/security/tls.go,                       *)
(* internal/runtime/cluster).                                              *)
(*                                                                         *)
(* A settings struct is the set of the names of its fields that are set;   *)
(* a tenant ID, a port or a size is a number, and 0 is the empty one.      *)
(***************************************************************************)
EXTENDS Integers, Sequences

\* The TLS and tool structs, and the files a TLS struct may name.
TLSFields == {"CertFile", "KeyFile", "ClientCAFile", "CACertFile",
              "ClientCertFile", "ClientKeyFile", "InsecureSkipVerify"}
TLSFiles == TLSFields \ {"InsecureSkipVerify"}
ToolFields == {"ID", "Stdio", "Command", "HTTP", "URL", "GRPC", "Target",
               "Service", "DescriptorSet", "Reflection"}
Transports == {"stdio", "http", "grpc", "other"}

----------------------------------------------------------------------------
(* Defaults and validation.                                                *)

\* A duration, size or count that is zero or negative takes the default.
OrDefault(n, default) == IF n <= 0 THEN default ELSE n

\* ApplyDefaults.  Of the sizes and timeouts it fills in, the size of the
\* journal's mailbox is the one the gateway's behaviour depends on.
ApplyDefaults(cfg, default) ==
    [cfg EXCEPT !.mailbox = OrDefault(cfg.mailbox, default)]

\* validateTenants of New: no empty ID, and no ID twice.
ValidateTenants(tenants) ==
    /\ \A i \in DOMAIN tenants : tenants[i] # 0
    /\ \A i, j \in DOMAIN tenants : tenants[i] = tenants[j] => i = j

ValidateGRPCTool(has) ==
    /\ {"GRPC", "Target", "Service"} \subseteq has
    /\ ("DescriptorSet" \in has) # ("Reflection" \in has)

ValidateTool(tool) ==
    /\ "ID" \in tool.has
    /\ \/ tool.transport = "stdio" /\ {"Stdio", "Command"} \subseteq tool.has
       \/ tool.transport = "http" /\ {"HTTP", "URL"} \subseteq tool.has
       \/ tool.transport = "grpc" /\ ValidateGRPCTool(tool.has)

----------------------------------------------------------------------------
(* TLS.  loads is the set of the files that can be read and parsed; a      *)
(* certificate needs its key.  The result of a builder is the set of       *)
(* capabilities of the configuration, or an error.                         *)

TLSError == {"error"}

BuildServerTLSConfig(has, loads) ==
    IF ~({"CertFile", "KeyFile"} \subseteq loads) THEN TLSError
    ELSE IF "ClientCAFile" \notin has THEN {"serve"}
    ELSE IF "ClientCAFile" \in loads THEN {"serve", "requireClientCert"}
    ELSE TLSError

BuildClientTLSConfig(has, loads) ==
    IF \/ {"InsecureSkipVerify", "CACertFile"} \subseteq has
       \/ ("ClientCertFile" \in has) # ("ClientKeyFile" \in has)
       \/ (has \cap {"CACertFile", "ClientCertFile", "ClientKeyFile"})
              \ loads # {}
    THEN TLSError
    ELSE {IF "InsecureSkipVerify" \in has THEN "acceptAny" ELSE "verify"}
         \cup (IF "ClientCertFile" \in has THEN {"present"} ELSE {})

BuildRemotingTLSInfo(has, loads) ==
    LET server == BuildServerTLSConfig(has, loads)
        client == BuildClientTLSConfig(has, loads)
    IN  IF \/ ~({"CertFile", "KeyFile"} \subseteq has)
           \/ server = TLSError \/ client = TLSError
        THEN TLSError
        ELSE server \cup client

----------------------------------------------------------------------------
(* Cluster.                                                                *)

\* validateClusterConfig of Start, and validateCluster.
ValidateCluster(cfg) == cfg.cluster => cfg.provider

IsClusterConfigured(cfg) == cfg.cluster /\ cfg.provider

\* BuildOptions: what the actor system of this node can do.
BuildOptions(cfg) ==
    IF ~cfg.cluster THEN {}
    ELSE IF ~cfg.provider THEN {"remote"}
    ELSE {"remote", "discovery", "singleton"}
====
