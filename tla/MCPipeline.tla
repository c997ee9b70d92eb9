---- MODULE MCPipeline ----
EXTENDS Pipeline, TLC

CONSTANTS r1, r2, r3, t1, t2

MCTenantOf == (r1 :> t1) @@ (r2 :> t1) @@ (r3 :> t2)
MCRequestsPerMinute == t1 :> 1
MCConcurrentSessions == t1 :> 1
====
