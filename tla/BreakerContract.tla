---- MODULE BreakerContract ----
(***************************************************************************)
(* What a tool's circuit promises to the backend it protects, without      *)
(* failure counters, slots, mailboxes or actors: a gate that is closed,    *)
(* open or half-open, and the set of invocations that were let through.    *)
(* ToolSupervisor is shown to implement it.                                *)
(*                                                                         *)
(* The states and their names are CircuitState of mcp/circuit.go, the      *)
(* transitions the state diagram of the README, section Circuit Breakers,  *)
(* with the manual reset of the admin interface.                           *)
(***************************************************************************)
EXTENDS Naturals, FiniteSets

CONSTANTS Calls, Limit

VARIABLES
    gate,     \* "closed", "open" or "half_open"
    cooled,   \* an open gate has been open for the whole open duration
    working,  \* calls let through that have not finished
    trial     \* calls let through since the gate became half-open

cvars == <<gate, cooled, working, trial>>

Init ==
    /\ gate = "closed"
    /\ cooled = FALSE
    /\ working = {}
    /\ trial = {}

\* A call passes a closed gate, and at most Limit calls pass a half-open one.
\* A gate that has cooled down becomes half-open for the first caller.
Admit(c) ==
    /\ working' = working \cup {c}
    /\ \/ /\ gate = "closed"
          /\ UNCHANGED <<gate, cooled, trial>>
       \/ /\ gate = "half_open"
          /\ Cardinality(trial) < Limit
          /\ trial' = trial \cup {c}
          /\ UNCHANGED <<gate, cooled>>
       \/ /\ gate = "open"
          /\ cooled
          /\ gate' = "half_open"
          /\ cooled' = FALSE
          /\ trial' = {c}

\* Calls end, or are given up.
Finish ==
    /\ working' \subseteq working
    /\ UNCHANGED <<gate, cooled, trial>>

\* A closed gate trips; a half-open one goes back to open.
Open ==
    /\ gate # "open"
    /\ gate' = "open"
    /\ cooled' = FALSE
    /\ trial' = {}
    /\ UNCHANGED working

Cool ==
    /\ gate = "open"
    /\ cooled' = TRUE
    /\ UNCHANGED <<gate, working, trial>>

HalfOpen ==
    /\ gate = "open"
    /\ cooled
    /\ gate' = "half_open"
    /\ cooled' = FALSE
    /\ UNCHANGED <<working, trial>>

\* A half-open gate is closed by an outcome, any gate by an operator.
Close ==
    /\ gate' = "closed"
    /\ cooled' = FALSE
    /\ trial' = {}
    /\ UNCHANGED working

Next ==
    \/ \E c \in Calls : Admit(c)
    \/ Finish
    \/ Open
    \/ Cool
    \/ HalfOpen
    \/ Close

Spec == Init /\ [][Next]_cvars

====
