---- MODULE MCToolSupervisor ----
EXTENDS ToolSupervisor, TLC

CONSTANTS i1, i2, i3, s1, s2, s3, r1, r2

\* Two invocations of one router for different sessions, the third from
\* another node, for a session of its own.
MCSessionOf == [i \in Invocations |->
    CASE i = i1 -> s1 [] i = i2 -> s2 [] OTHER -> s3]
MCRouterOf == [i \in Invocations |-> IF i = i3 THEN r2 ELSE r1]

\* Nodes may change places, with the invocations and sessions they have.
MCNodes ==
    {p \in Permutations(Invocations \cup Sessions \cup Routers) :
        \A i \in Invocations : /\ p[i] \in Invocations
                               /\ p[SessionOf[i]] = SessionOf[p[i]]
                               /\ p[RouterOf[i]] = RouterOf[p[i]]}
====
