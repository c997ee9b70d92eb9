---- MODULE Gateway_proofs ----
(***************************************************************************)
(* Proofs about the life of the gateway handle, for every set of           *)
(* goroutines, subscribers and configurations and any number of starts, as *)
(* long as Start and Stop are not called concurrently.                     *)
(*                                                                         *)
(* What is let in and what is left behind depend on where the goroutine    *)
(* that starts or stops the gateway is, and there is one at most: LInv     *)
(* says what it holds at each label, and what holds when there is none.    *)
(* AInv adds who owns the journal, and so who closes the audit sink.       *)
(***************************************************************************)
EXTENDS Gateway, TLAPS

----------------------------------------------------------------------------
(* The inductive invariant.                                                *)

CallLabels == {"idle", "resolveRouter", "resolveRegistrar", "status", "tools",
               "ask", "attach"}
Actors == Foundation \cup {"manager", "router"}
NodeStates == {"none", "created", "running", "failed", "stopped"}

Types ==
    /\ system \in Systems \cup {None}
    /\ draining \in BOOLEAN /\ started \in BOOLEAN
    /\ auditStream \in Systems \cup {None}
    /\ consumer \in Systems \cup {None}
    /\ pc \in [Threads -> CallLabels \cup StartLabels \cup StopLabels]
    /\ own \in [Threads -> Systems \cup {None}]
    /\ node \in [Systems -> [state : NodeStates, actors : SUBSET Actors,
                             booted : BOOLEAN, mailbox : Nat]]
    /\ poller \in [Systems -> {"none", "polling", "signalled", "ended"}]
    /\ stream \in [Systems -> {"none", "open", "closed"}]

\* One goroutine at most starts or stops the gateway.
Exclusive ==
    \A t, u \in Threads : InLifecycle(t) /\ InLifecycle(u) => t = u

\* What a goroutine in Start or Stop holds at each label.
Phase(t) ==
    /\ InLifecycle(t) => started
    /\ pc[t] = "options" => system = None
    /\ pc[t] \in {"boot", "spawn", "publish"} =>
         /\ system = None
         /\ own[t] # None
         /\ auditStream = own[t]
         /\ node[own[t]].state = IF pc[t] = "boot" THEN "created" ELSE "running"
    /\ pc[t] = "subscribe" => system = own[t] /\ system # None
    /\ pc[t] \in StopLabels => draining /\ system = own[t] /\ system # None
    /\ pc[t] \in {"subscribe", "quiesce", "halt"} =>
         node[own[t]].state = "running"
    /\ pc[t] \in {"halt", "clear"} => consumer = None
    /\ pc[t] = "clear" => /\ node[own[t]].state = "stopped"
                          /\ node[own[t]].actors = {}

Phases == \A t \in Threads : Phase(t)

\* What the fields of the gateway say of each other.
Fields ==
    /\ system # None => started /\ auditStream = system
    /\ draining => \E t \in Threads : pc[t] \in StopLabels
    /\ consumer # None => consumer = system
    /\ \A s \in Systems : poller[s] = "polling" => consumer = s

\* The stream of a system that was started and stopped is closed, or about to
\* be.
StreamsClosed ==
    \A s \in Systems :
        node[s].state = "stopped" /\ s \notin failed =>
            \/ stream[s] = "closed"
            \/ \E t \in Threads : pc[t] = "clear" /\ own[t] = s

\* A system that runs is the gateway's, or is being started, or its Start
\* failed.
SystemsOwned ==
    \A s \in Systems :
        node[s].state = "running" =>
            \/ s = system
            \/ s \in failed
            \/ \E t \in Threads : own[t] = s /\ pc[t] \in {"spawn", "publish"}

LInv ==
    /\ Types /\ Exclusive /\ Phases /\ Fields /\ StreamsClosed
    /\ ServingIsRunning /\ SystemsOwned

\* Only the gateway's system, or the one about to be, has actors.
ActorsOwned ==
    \A s \in Systems :
        node[s].actors # {} =>
            s = system \/ \E t \in Threads : pc[t] = "publish" /\ own[t] = s

\* A journal has an open sink, unless it was given a closed one.
JournalOpen ==
    \A s \in Systems :
        "journal" \in node[s].actors /\ ConfiguredSink =>
            sink.open \/ reopened

\* Nobody has to do with the system of a failed Start any more: it is neither
\* the gateway's nor held by a goroutine in Start or Stop, and will not be
\* chosen again.
Busy(t) == pc[t] \in {"boot", "spawn", "publish", "subscribe"} \cup StopLabels
Held(s) == s \in Systems /\ s \notin failed /\ stream[s] # "none"
FailedForgotten ==
    /\ failed \subseteq Systems /\ \A s \in failed : stream[s] # "none"
    /\ system # None => Held(system)
    /\ \A t \in Threads : Busy(t) => Held(own[t])

AInv ==
    /\ sink \in Sinks /\ written \in Nat /\ reopened \in BOOLEAN
    /\ ActorsOwned /\ JournalOpen /\ AuditComplete

----------------------------------------------------------------------------
(* Steps that do not concern Start and Stop.                               *)

LEMMA SystemsNotNone == \A s \in Systems : s # None
BY GatewayAssumption DEF Systems, None

\* A goroutine that goes from one label of a call to another.
CallStep(t, l, x) ==
    /\ pc[t] \in CallLabels
    /\ pc' = [pc EXCEPT ![t] = l]
    /\ own' = [own EXCEPT ![t] = x]
    /\ UNCHANGED <<config, gatewayVars, node, poller, stream, auditVars,
                   started, failed>>

LEMMA CallStepInv ==
    ASSUME LInv, AInv, NEW t \in Threads, NEW l \in CallLabels,
           NEW x \in Systems \cup {None}, CallStep(t, l, x)
    PROVE  LInv' /\ AInv'
<1> USE DEF CallStep, gatewayVars, auditVars
<1>1. Types'
  BY DEF LInv, Types
<1>2. \A u \in Threads :
        /\ pc'[u] \in StartLabels \cup StopLabels => u # t
        /\ u # t => pc'[u] = pc[u] /\ own'[u] = own[u]
        /\ pc[u] \in StartLabels \cup StopLabels => u # t
  BY DEF LInv, Types, CallLabels, StartLabels, StopLabels
<1>3. Exclusive'
  BY <1>2 DEF LInv, Exclusive, InLifecycle
<1>4. Phases'
  <2>1. Phase(t)'
    BY <1>2 DEF Phase, InLifecycle, StartLabels, StopLabels
  <2>2. ASSUME NEW u \in Threads, u # t PROVE Phase(u)'
    BY <1>2, <2>2 DEF LInv, Phases, Phase, InLifecycle
  <2> QED BY <2>1, <2>2 DEF Phases
<1>5. Fields'
  BY <1>2 DEF LInv, Fields
<1>6. StreamsClosed'
  BY <1>2 DEF LInv, StreamsClosed, StopLabels
<1>7. ServingIsRunning'
  BY DEF LInv, ServingIsRunning
<1>8. SystemsOwned'
  BY <1>2 DEF LInv, SystemsOwned, StartLabels
<1>9. AInv'
  BY <1>2 DEF AInv, ActorsOwned, JournalOpen, AuditComplete, ConfiguredSink,
     StartLabels
<1> QED BY <1>1, <1>3, <1>4, <1>5, <1>6, <1>7, <1>8, <1>9 DEF LInv

----------------------------------------------------------------------------
(* The steps of Start and Stop.                                            *)

\* The only goroutine in Start or Stop goes to label l, holding system x.
LifecycleStep(t, l, x) ==
    /\ \A u \in Threads \ {t} : ~InLifecycle(u)
    /\ pc' = [pc EXCEPT ![t] = l]
    /\ own' = [own EXCEPT ![t] = x]

LEMMA LifecycleStepInv ==
    ASSUME LInv, NEW t \in Threads, NEW x \in Systems \cup {None},
           NEW l \in CallLabels \cup StartLabels \cup StopLabels,
           LifecycleStep(t, l, x)
    PROVE  /\ pc' \in [Threads -> CallLabels \cup StartLabels \cup StopLabels]
           /\ own' \in [Threads -> Systems \cup {None}]
           /\ pc'[t] = l /\ own'[t] = x
           /\ \A u \in Threads \ {t} : /\ ~InLifecycle(u) /\ ~InLifecycle(u)'
                                       /\ pc'[u] = pc[u] /\ own'[u] = own[u]
           /\ Exclusive'
           /\ Phase(t)' => Phases'
<1> USE DEF LifecycleStep, LInv, Types
<1>1. /\ pc' \in [Threads -> CallLabels \cup StartLabels \cup StopLabels]
      /\ own' \in [Threads -> Systems \cup {None}]
      /\ pc'[t] = l /\ own'[t] = x
  OBVIOUS
<1>2. \A u \in Threads \ {t} : /\ ~InLifecycle(u) /\ ~InLifecycle(u)'
                               /\ pc'[u] = pc[u] /\ own'[u] = own[u]
  BY DEF InLifecycle
<1>3. Exclusive'
  BY <1>2 DEF Exclusive
<1>4. ASSUME NEW u \in Threads \ {t} PROVE Phase(u)'
  BY <1>2 DEF Phase, InLifecycle, StartLabels, StopLabels
<1> QED BY <1>1, <1>2, <1>3, <1>4 DEF Phases

\* A goroutine in Start or Stop is the only one.
LEMMA Alone ==
    ASSUME LInv, NEW t \in Threads, InLifecycle(t)
    PROVE  \A u \in Threads \ {t} : ~InLifecycle(u)
BY DEF LInv, Exclusive

\* A gateway that drains is being stopped.
LEMMA NotDraining ==
    ASSUME LInv, NEW t \in Threads,
           \A u \in Threads \ {t} : ~InLifecycle(u), pc[t] \notin StopLabels
    PROVE  draining = FALSE
BY DEF LInv, Types, Fields, InLifecycle

LEMMA StartInv ==
    ASSUME Serialized, LInv, NEW t \in Threads, Start(t)
    PROVE  LInv'
<1> USE DEF gatewayVars, auditVars
<1>1. /\ pc[t] = "idle" /\ ~started /\ started' = TRUE
      /\ \A u \in Threads \ {t} : ~InLifecycle(u)
      /\ system = None
      /\ UNCHANGED <<system, draining, auditStream, consumer, own, node,
                     poller, stream, sub, failed>>
      /\ pc' = [pc EXCEPT ![t] = "options"] \/ pc' = pc
  BY DEF Start, MayCall, Goto, LInv, Fields
<1>2. PICK l \in {"options", "idle"} : pc' = [pc EXCEPT ![t] = l]
  BY <1>1 DEF LInv, Types
<1>3. LifecycleStep(t, l, own[t])
  BY <1>1, <1>2 DEF LifecycleStep, LInv, Types
<1>4. l \in CallLabels \cup StartLabels \cup StopLabels
      /\ own[t] \in Systems \cup {None}
  BY DEF CallLabels, StartLabels, LInv, Types
<1>5. Types' /\ Exclusive' /\ pc'[t] = l
      /\ \A u \in Threads \ {t} : pc'[u] = pc[u] /\ own'[u] = own[u]
  BY <1>1, <1>3, <1>4, LifecycleStepInv DEF LInv, Types
<1>6. Phases'
  <2>1. Phase(t)'
    BY <1>1, <1>5 DEF Phase, StopLabels
  <2> QED BY <2>1, <1>3, <1>4, LifecycleStepInv
<1>7. Fields'
  BY <1>1, <1>5 DEF LInv, Fields, StopLabels
<1>8. StreamsClosed' /\ ServingIsRunning' /\ SystemsOwned'
  BY <1>1, <1>5 DEF LInv, StreamsClosed, ServingIsRunning, SystemsOwned
<1> QED BY <1>5, <1>6, <1>7, <1>8 DEF LInv

LEMMA ActorSystemOptionsInv ==
    ASSUME LInv, NEW t \in Threads, ActorSystemOptions(t)
    PROVE  LInv'
<1> USE DEF gatewayVars, auditVars
<1>1. PICK s \in Systems :
        /\ pc[t] = "options" /\ Unused(s)
        /\ stream' = [stream EXCEPT ![s] = "open"]
        /\ auditStream' = s
        /\ \/ /\ node' = [node EXCEPT ![s].state = "created"]
              /\ pc' = [pc EXCEPT ![t] = "boot"]
              /\ own' = [own EXCEPT ![t] = s]
           \/ Return(t) /\ UNCHANGED node
        /\ failed \subseteq failed'
        /\ UNCHANGED <<system, draining, consumer, poller, started>>
  BY DEF ActorSystemOptions
<1>2. PICK l \in {"boot", "idle"}, x \in {s, None} :
        /\ pc' = [pc EXCEPT ![t] = l] /\ own' = [own EXCEPT ![t] = x]
        /\ l = "boot" =>
             x = s /\ node' = [node EXCEPT ![s].state = "created"]
        /\ l = "idle" => node' = node
  BY <1>1 DEF Return
<1>3. InLifecycle(t)
  BY <1>1 DEF InLifecycle, StartLabels
<1>4. LifecycleStep(t, l, x)
  BY <1>2, <1>3, Alone DEF LifecycleStep
<1>5. l \in CallLabels \cup StartLabels \cup StopLabels
      /\ x \in Systems \cup {None}
  BY DEF CallLabels, StartLabels
<1>6. Exclusive' /\ pc'[t] = l /\ own'[t] = x
      /\ \A u \in Threads \ {t} : /\ pc'[u] = pc[u] /\ own'[u] = own[u]
                                  /\ ~InLifecycle(u)
  BY <1>4, <1>5, LifecycleStepInv
<1>7. Types'
  <2>1. node' \in [Systems -> [state : NodeStates, actors : SUBSET Actors,
                               booted : BOOLEAN, mailbox : Nat]]
    BY <1>2 DEF LInv, Types, NodeStates
  <2> QED BY <1>1, <1>4, <1>5, <2>1, LifecycleStepInv DEF LInv, Types
<1>8. /\ system = None /\ draining = FALSE /\ started
      /\ node[s].state = "none"
      /\ \A r \in Systems : /\ r # s => node'[r] = node[r]
                            /\ r # s => stream'[r] = stream[r]
      /\ node'[s].state \in {"created", "none"}
  <2>1. system = None /\ started /\ node[s].state = "none"
    BY <1>1, <1>3 DEF LInv, Phases, Phase, Unused
  <2>2. draining = FALSE
    BY <1>1, <1>6, NotDraining DEF StopLabels
  <2>3. /\ \A r \in Systems : r # s => node'[r] = node[r]
        /\ \A r \in Systems : r # s => stream'[r] = stream[r]
        /\ node'[s].state \in {"created", "none"}
    BY <1>1, <1>2, <2>1 DEF LInv, Types
  <2> QED BY <2>1, <2>2, <2>3
<1>9. Phases'
  <2>1. Phase(t)'
    BY <1>1, <1>2, <1>6, <1>8, SystemsNotNone
       DEF Phase, StopLabels, InLifecycle, StartLabels, LInv, Types
  <2> QED BY <2>1, <1>4, <1>5, LifecycleStepInv
<1>10. Fields'
  BY <1>1, <1>8 DEF LInv, Fields
<1>11. StreamsClosed'
  BY <1>1, <1>2, <1>6, <1>8 DEF LInv, Types, StreamsClosed
<1>12. ServingIsRunning' /\ SystemsOwned'
  BY <1>1, <1>2, <1>6, <1>8 DEF LInv, Types, ServingIsRunning, SystemsOwned
<1> QED BY <1>6, <1>7, <1>9, <1>10, <1>11, <1>12 DEF LInv

LEMMA StartSystemInv ==
    ASSUME LInv, NEW t \in Threads, StartSystem(t)
    PROVE  LInv'
<1> USE DEF gatewayVars, auditVars
<1> DEFINE s == own[t]
<1>1. /\ pc[t] = "boot"
      /\ failed \subseteq failed'
      /\ UNCHANGED <<system, draining, auditStream, consumer, poller, stream,
                     started>>
  BY DEF StartSystem
<1>2. PICK l \in {"spawn", "idle"}, x \in {s, None}, state \in NodeStates :
        /\ pc' = [pc EXCEPT ![t] = l] /\ own' = [own EXCEPT ![t] = x]
        /\ node' = [node EXCEPT ![s].state = state]
        /\ l = "spawn" => x = s /\ state = "running"
        /\ l = "idle" => state = "failed"
  <2>1. own = [own EXCEPT ![t] = s]
    BY DEF LInv, Types
  <2> QED BY <2>1 DEF StartSystem, Goto, Return, NodeStates
<1>3. InLifecycle(t)
  BY <1>1 DEF InLifecycle, StartLabels
<1>4. /\ system = None /\ started /\ s \in Systems /\ s # None
      /\ node[s].state = "created" /\ auditStream = s
  BY <1>1, <1>3 DEF LInv, Types, Phases, Phase
<1>5. l \in CallLabels \cup StartLabels \cup StopLabels
      /\ x \in Systems \cup {None}
  BY <1>4 DEF CallLabels, StartLabels
<1>6. LifecycleStep(t, l, x)
  BY <1>2, <1>3, Alone DEF LifecycleStep
<1>7. Exclusive' /\ pc'[t] = l /\ own'[t] = x
      /\ \A u \in Threads \ {t} : /\ pc'[u] = pc[u] /\ own'[u] = own[u]
                                  /\ ~InLifecycle(u)
  BY <1>5, <1>6, LifecycleStepInv
<1>8. Types' /\ draining = FALSE
  <2>1. node' \in [Systems -> [state : NodeStates, actors : SUBSET Actors,
                               booted : BOOLEAN, mailbox : Nat]]
    BY <1>2 DEF LInv, Types
  <2>2. draining = FALSE
    BY <1>1, <1>7, NotDraining DEF StopLabels
  <2> QED BY <1>1, <1>5, <1>6, <2>1, <2>2, LifecycleStepInv DEF LInv, Types
<1>9. /\ node'[s].state = state
      /\ \A r \in Systems \ {s} : node'[r] = node[r]
  BY <1>2, <1>4 DEF LInv, Types
<1> HIDE DEF s
<1>10. Phases'
  <2>1. Phase(t)'
    BY <1>1, <1>2, <1>3, <1>4, <1>7, <1>9
       DEF Phase, StopLabels, InLifecycle, StartLabels
  <2> QED BY <2>1, <1>5, <1>6, LifecycleStepInv
<1>11. Fields'
  BY <1>1, <1>4, <1>8 DEF LInv, Fields
<1>12. StreamsClosed'
  BY <1>1, <1>2, <1>7, <1>9 DEF LInv, StreamsClosed
<1>13. ServingIsRunning' /\ SystemsOwned'
  BY <1>1, <1>2, <1>4, <1>7, <1>9 DEF LInv, ServingIsRunning, SystemsOwned, s
<1> QED BY <1>7, <1>8, <1>10, <1>11, <1>12, <1>13 DEF LInv

LEMMA SpawnManagerInv ==
    ASSUME LInv, NEW t \in Threads, SpawnManager(t)
    PROVE  LInv'
<1> USE DEF gatewayVars, auditVars
<1> DEFINE s == own[t]
<1>1. /\ pc[t] = "spawn"
      /\ UNCHANGED <<system, draining, auditStream, consumer, poller, stream,
                     started>>
  BY DEF SpawnManager
<1>2. PICK l \in {"publish", "idle"}, x \in {s, None},
           state \in {"running", "stopped"} :
        /\ pc' = [pc EXCEPT ![t] = l] /\ own' = [own EXCEPT ![t] = x]
        /\ \/ node' = [node EXCEPT ![s].actors = {"manager"}]
           \/ node' = [node EXCEPT ![s].state = "stopped"]
           \/ node' = node
        /\ node'[s].state = state
        /\ l = "publish" => x = s /\ state = "running"
        /\ l = "idle" => s \in failed'
        /\ state = "stopped" => s \in failed'
        /\ failed \subseteq failed'
  <2>1. own = [own EXCEPT ![t] = s] /\ s \in Systems
        /\ node[s].state = "running"
    BY <1>1 DEF LInv, Types, Phases, Phase
  <2> QED BY <2>1 DEF SpawnManager, Goto, Return, NodeStates, LInv, Types
<1>3. InLifecycle(t)
  BY <1>1 DEF InLifecycle, StartLabels
<1>4. /\ system = None /\ started /\ s \in Systems /\ s # None
      /\ node[s].state = "running" /\ auditStream = s
  BY <1>1, <1>3 DEF LInv, Types, Phases, Phase
<1>5. l \in CallLabels \cup StartLabels \cup StopLabels
      /\ x \in Systems \cup {None}
  BY <1>4 DEF CallLabels, StartLabels
<1>6. LifecycleStep(t, l, x)
  BY <1>2, <1>3, Alone DEF LifecycleStep
<1>7. Exclusive' /\ pc'[t] = l /\ own'[t] = x
      /\ \A u \in Threads \ {t} : /\ pc'[u] = pc[u] /\ own'[u] = own[u]
                                  /\ ~InLifecycle(u)
  BY <1>5, <1>6, LifecycleStepInv
<1>8. Types' /\ draining = FALSE
  <2>1. node' \in [Systems -> [state : NodeStates, actors : SUBSET Actors,
                               booted : BOOLEAN, mailbox : Nat]]
    <3>1. {"manager"} \subseteq Actors /\ "stopped" \in NodeStates
      BY DEF Actors, NodeStates
    <3>2. CASE node' = [node EXCEPT ![s].actors = {"manager"}]
      BY <3>1, <3>2 DEF LInv, Types
    <3>3. CASE node' = [node EXCEPT ![s].state = "stopped"]
      BY <3>1, <3>3 DEF LInv, Types
    <3> QED BY <1>2, <3>2, <3>3 DEF LInv, Types
  <2>2. draining = FALSE
    BY <1>1, <1>7, NotDraining DEF StopLabels
  <2> QED BY <1>1, <1>5, <1>6, <2>1, <2>2, LifecycleStepInv DEF LInv, Types
<1>9. \A r \in Systems \ {s} : node'[r] = node[r]
  BY <1>2, <1>4 DEF LInv, Types
<1> HIDE DEF s
<1>10. Phases'
  <2>1. Phase(t)'
    BY <1>1, <1>2, <1>3, <1>4, <1>7
       DEF Phase, StopLabels, InLifecycle, StartLabels
  <2> QED BY <2>1, <1>5, <1>6, LifecycleStepInv
<1>11. Fields'
  BY <1>1, <1>4, <1>8 DEF LInv, Fields
<1>12. StreamsClosed'
  BY <1>1, <1>2, <1>7, <1>9 DEF LInv, StreamsClosed
<1>13. ServingIsRunning' /\ SystemsOwned'
  BY <1>1, <1>2, <1>4, <1>7, <1>9 DEF LInv, ServingIsRunning, SystemsOwned, s
<1> QED BY <1>7, <1>8, <1>10, <1>11, <1>12, <1>13 DEF LInv

LEMMA PublishSystemInv ==
    ASSUME LInv, NEW t \in Threads, PublishSystem(t)
    PROVE  LInv'
<1> USE DEF gatewayVars, auditVars
<1> DEFINE s == own[t]
<1>1. /\ pc[t] = "publish" /\ system' = s
      /\ UNCHANGED <<draining, auditStream, consumer, node, poller, stream,
                     started, failed>>
  BY DEF PublishSystem
<1>2. PICK l \in {"subscribe", "idle"}, x \in {s, None} :
        /\ pc' = [pc EXCEPT ![t] = l] /\ own' = [own EXCEPT ![t] = x]
        /\ l = "subscribe" => x = s
  <2>1. own = [own EXCEPT ![t] = s]
    BY DEF LInv, Types
  <2> QED BY <2>1 DEF PublishSystem, Goto, Return
<1>3. InLifecycle(t)
  BY <1>1 DEF InLifecycle, StartLabels
<1>4. /\ system = None /\ started /\ s \in Systems /\ s # None
      /\ node[s].state = "running" /\ auditStream = s
  BY <1>1, <1>3 DEF LInv, Types, Phases, Phase
<1>5. l \in CallLabels \cup StartLabels \cup StopLabels
      /\ x \in Systems \cup {None}
  BY <1>4 DEF CallLabels, StartLabels
<1>6. LifecycleStep(t, l, x)
  BY <1>2, <1>3, Alone DEF LifecycleStep
<1>7. Exclusive' /\ pc'[t] = l /\ own'[t] = x
      /\ \A u \in Threads \ {t} : /\ pc'[u] = pc[u] /\ own'[u] = own[u]
                                  /\ ~InLifecycle(u)
  BY <1>5, <1>6, LifecycleStepInv
<1>8. Types' /\ draining = FALSE
  <2>1. draining = FALSE
    BY <1>1, <1>7, NotDraining DEF StopLabels
  <2> QED BY <1>1, <1>4, <1>5, <1>6, <2>1, LifecycleStepInv DEF LInv, Types
<1> HIDE DEF s
<1>9. Phases'
  <2>1. Phase(t)'
    BY <1>1, <1>2, <1>3, <1>4, <1>7
       DEF Phase, StopLabels, InLifecycle, StartLabels
  <2> QED BY <2>1, <1>5, <1>6, LifecycleStepInv
<1>10. Fields'
  BY <1>1, <1>4, <1>8 DEF LInv, Fields
<1>11. StreamsClosed'
  BY <1>1, <1>2, <1>7 DEF LInv, StreamsClosed
<1>12. ServingIsRunning'
  BY <1>1, <1>4 DEF ServingIsRunning
<1>13. SystemsOwned'
  <2> SUFFICES ASSUME NEW r \in Systems, node[r].state = "running", r # s
               PROVE  r \in failed
    BY <1>1 DEF SystemsOwned
  <2> QED
    BY <1>4, <1>7, SystemsNotNone
       DEF LInv, SystemsOwned, InLifecycle, StartLabels, s
<1> QED BY <1>7, <1>8, <1>9, <1>10, <1>11, <1>12, <1>13 DEF LInv

LEMMA StartEventConsumerInv ==
    ASSUME LInv, NEW t \in Threads, StartEventConsumer(t)
    PROVE  LInv'
<1> USE DEF gatewayVars, auditVars
<1> DEFINE s == own[t]
<1>1. /\ pc[t] = "subscribe"
      /\ \/ consumer' = s /\ poller' = [poller EXCEPT ![s] = "polling"]
         \/ UNCHANGED <<consumer, poller>>
      /\ pc' = [pc EXCEPT ![t] = "idle"] /\ own' = [own EXCEPT ![t] = None]
      /\ UNCHANGED <<system, draining, auditStream, node, stream, started,
                     failed>>
  BY DEF StartEventConsumer, Return
<1>2. InLifecycle(t)
  BY <1>1 DEF InLifecycle, StartLabels
<1>3. system = s /\ s \in Systems /\ s # None /\ node[s].state = "running"
      /\ started
  BY <1>1, <1>2 DEF LInv, Types, Phases, Phase
<1>4. "idle" \in CallLabels \cup StartLabels \cup StopLabels
      /\ LifecycleStep(t, "idle", None)
  BY <1>1, <1>2, Alone DEF LifecycleStep, CallLabels
<1>5. Exclusive' /\ pc'[t] = "idle" /\ own'[t] = None
      /\ \A u \in Threads \ {t} : /\ pc'[u] = pc[u] /\ own'[u] = own[u]
                                  /\ ~InLifecycle(u)
  BY <1>4, LifecycleStepInv
<1>6. Types' /\ draining = FALSE
  <2>1. draining = FALSE
    BY <1>1, <1>5, NotDraining DEF StopLabels
  <2> QED BY <1>1, <1>3, <1>4, <2>1, LifecycleStepInv DEF LInv, Types
<1> HIDE DEF s
<1>7. Phases'
  <2>1. Phase(t)'
    BY <1>5 DEF Phase, StopLabels, InLifecycle, StartLabels
  <2> QED BY <2>1, <1>4, LifecycleStepInv
<1>8. Fields'
  <2>1. \A r \in Systems : poller'[r] = "polling" => consumer' = r
    <3>1. \A r \in Systems : poller[r] = "polling" => r = s
      BY <1>3, SystemsNotNone DEF LInv, Fields
    <3>2. \A r \in Systems : r # s => poller'[r] = poller[r]
      BY <1>1, <1>3 DEF LInv, Types
    <3>3. \A r \in Systems : poller[r] = "polling" => consumer = r
      BY DEF LInv, Fields
    <3> QED BY <1>1, <3>1, <3>2, <3>3
  <2>2. consumer' # None => consumer' = system'
    BY <1>1, <1>3 DEF LInv, Fields
  <2>3. system' # None => started' /\ auditStream' = system'
    BY <1>1 DEF LInv, Fields
  <2> QED BY <1>1, <1>6, <2>1, <2>2, <2>3 DEF Fields
<1>9. StreamsClosed'
  BY <1>1, <1>5 DEF LInv, StreamsClosed
<1>10. ServingIsRunning' /\ SystemsOwned'
  BY <1>1, <1>3, <1>5 DEF LInv, ServingIsRunning, SystemsOwned
<1> QED BY <1>5, <1>6, <1>7, <1>8, <1>9, <1>10 DEF LInv

LEMMA StopInv ==
    ASSUME Serialized, LInv, NEW t \in Threads, Stop(t)
    PROVE  LInv'
<1> USE DEF gatewayVars, auditVars
<1>1. /\ pc[t] = "idle" /\ \A u \in Threads : ~InLifecycle(u)
      /\ UNCHANGED <<system, auditStream, consumer, node, poller, stream,
                     failed>>
  BY DEF Stop, MayCall
<1>2. CASE system = None
  <2>1. started' = FALSE /\ UNCHANGED <<draining, pc, own>>
    BY <1>2 DEF Stop
  <2>2. Phases'
    BY <1>1, <1>2, <2>1
       DEF LInv, Phases, Phase, InLifecycle, StartLabels, StopLabels
  <2>3. Types'
    BY <1>1, <2>1 DEF LInv, Types
  <2>4. Exclusive'
    BY <2>1 DEF LInv, Exclusive, InLifecycle
  <2>5. Fields'
    BY <1>1, <1>2, <2>1 DEF LInv, Fields
  <2>6. StreamsClosed' /\ ServingIsRunning' /\ SystemsOwned'
    BY <1>1, <2>1 DEF LInv, StreamsClosed, ServingIsRunning, SystemsOwned
  <2> QED BY <2>2, <2>3, <2>4, <2>5, <2>6 DEF LInv
<1>3. CASE system # None
  <2>1. /\ draining' = TRUE /\ started' = started
        /\ LifecycleStep(t, "quiesce", system)
    BY <1>1, <1>3 DEF Stop, Goto, LifecycleStep
  <2>2. "quiesce" \in CallLabels \cup StartLabels \cup StopLabels
        /\ system \in Systems \cup {None}
    BY DEF StopLabels, LInv, Types
  <2>3. Exclusive' /\ pc'[t] = "quiesce" /\ own'[t] = system
        /\ \A u \in Threads \ {t} : pc'[u] = pc[u] /\ own'[u] = own[u]
    BY <2>1, <2>2, LifecycleStepInv
  <2>4. Types'
    BY <1>1, <2>1, <2>2, LifecycleStepInv DEF LInv, Types
  <2>5. node[system].state = "running" /\ started
    BY <1>1, <1>3 DEF LInv, Types, Fields, InLifecycle, ServingIsRunning
  <2>6. Phases'
    <3>1. Phase(t)'
      BY <1>1, <1>3, <2>1, <2>3, <2>5 DEF Phase
    <3> QED BY <3>1, <2>1, <2>2, LifecycleStepInv
  <2>7. Fields'
    BY <1>1, <2>1, <2>3, <2>5 DEF LInv, Fields, StopLabels
  <2>8. StreamsClosed' /\ ServingIsRunning' /\ SystemsOwned'
    BY <1>1, <2>1, <2>3
       DEF LInv, StreamsClosed, ServingIsRunning, SystemsOwned
  <2> QED BY <2>3, <2>4, <2>6, <2>7, <2>8 DEF LInv
<1> QED BY <1>2, <1>3

LEMMA StopEventConsumerInv ==
    ASSUME LInv, NEW t \in Threads, StopEventConsumer(t)
    PROVE  LInv'
<1> USE DEF gatewayVars, auditVars
<1> DEFINE s == own[t]
<1>1. /\ pc[t] = "quiesce" /\ consumer' = None
      /\ poller' = IF consumer = None THEN poller
                   ELSE [poller EXCEPT ![consumer] = "signalled"]
      /\ pc' = [pc EXCEPT ![t] = "halt"] /\ own' = own
      /\ UNCHANGED <<system, draining, auditStream, node, stream, started,
                     failed>>
  BY DEF StopEventConsumer, Goto
<1>2. InLifecycle(t)
  BY <1>1 DEF InLifecycle, StopLabels
<1>3. /\ system = s /\ s \in Systems /\ s # None /\ node[s].state = "running"
      /\ started /\ draining
  BY <1>1, <1>2 DEF LInv, Types, Phases, Phase, StopLabels
<1>4. "halt" \in CallLabels \cup StartLabels \cup StopLabels
      /\ s \in Systems \cup {None} /\ LifecycleStep(t, "halt", s)
  BY <1>1, <1>2, <1>3, Alone DEF LifecycleStep, StopLabels, LInv, Types
<1>5. Exclusive' /\ pc'[t] = "halt" /\ own'[t] = s
      /\ \A u \in Threads \ {t} : /\ pc'[u] = pc[u] /\ own'[u] = own[u]
                                  /\ ~InLifecycle(u)
  BY <1>4, LifecycleStepInv
<1>6. Types'
  <2>1. poller' \in [Systems -> {"none", "polling", "signalled", "ended"}]
    BY <1>1 DEF LInv, Types
  <2> QED BY <1>1, <1>4, <2>1, LifecycleStepInv DEF LInv, Types
<1> HIDE DEF s
<1>7. Phases'
  <2>1. Phase(t)'
    BY <1>1, <1>3, <1>5 DEF Phase, StopLabels, InLifecycle, StartLabels
  <2> QED BY <2>1, <1>4, LifecycleStepInv
<1>8. Fields'
  <2>1. \A r \in Systems : poller'[r] # "polling"
    <3>1. \A r \in Systems : poller[r] = "polling" => consumer = r
      BY DEF LInv, Fields
    <3> QED BY <1>1, <3>1, SystemsNotNone DEF LInv, Types
  <2> QED BY <1>1, <1>5, <2>1 DEF LInv, Fields, StopLabels
<1>9. StreamsClosed' /\ ServingIsRunning' /\ SystemsOwned'
  BY <1>1, <1>5 DEF LInv, StreamsClosed, ServingIsRunning, SystemsOwned
<1> QED BY <1>5, <1>6, <1>7, <1>8, <1>9 DEF LInv

LEMMA StopSystemInv ==
    ASSUME LInv, NEW t \in Threads, StopSystem(t)
    PROVE  LInv'
<1> USE DEF gatewayVars, auditVars
<1> DEFINE s == own[t]
<1>1. /\ pc[t] = "halt"
      /\ UNCHANGED <<system, auditStream, consumer, poller, stream, started,
                     failed>>
  BY DEF StopSystem
<1>2. InLifecycle(t)
  BY <1>1 DEF InLifecycle, StopLabels
<1>3. /\ system = s /\ s \in Systems /\ s # None /\ node[s].state = "running"
      /\ started /\ draining /\ consumer = None /\ auditStream = s
  BY <1>1, <1>2 DEF LInv, Types, Phases, Phase, StopLabels, Fields
<1>4. PICK l \in {"clear", "idle"}, x \in {s, None},
           state \in {"stopped", "running"} :
        /\ pc' = [pc EXCEPT ![t] = l] /\ own' = [own EXCEPT ![t] = x]
        /\ node'[s].state = state
        /\ \/ node' = [node EXCEPT ![s] = [state |-> "stopped", actors |-> {},
                                           booted |-> TRUE, mailbox |-> 0]]
           \/ node' = node
           \/ node' = [node EXCEPT ![s].actors = {}, ![s].mailbox = 0,
                                   ![s].booted = TRUE]
        /\ l = "clear" => /\ x = s /\ state = "stopped"
                          /\ node'[s].actors = {} /\ draining' = draining
        /\ l = "idle" => state = "running" /\ draining' = FALSE
  <2>1. own = [own EXCEPT ![t] = s]
    BY DEF LInv, Types
  <2>2. CASE /\ SystemStopped(s) /\ Goto(t, "clear")
             /\ UNCHANGED <<draining, own>>
    BY <1>3, <2>1, <2>2 DEF SystemStopped, Goto, LInv, Types
  <2>3. CASE SystemStopFailed(s) /\ draining' = FALSE /\ Return(t)
    <3>1. /\ pc' = [pc EXCEPT ![t] = "idle"] /\ own' = [own EXCEPT ![t] = None]
          /\ \/ node' = node
             \/ node' = [node EXCEPT ![s].actors = {}, ![s].mailbox = 0,
                                     ![s].booted = TRUE]
      BY <2>3 DEF SystemStopFailed, Return
    <3>2. node'[s].state = "running"
      BY <1>3, <3>1 DEF LInv, Types
    <3> QED BY <2>3, <3>1, <3>2
  <2> QED BY <2>2, <2>3 DEF StopSystem
<1>5. l \in CallLabels \cup StartLabels \cup StopLabels
      /\ x \in Systems \cup {None} /\ LifecycleStep(t, l, x)
  BY <1>2, <1>3, <1>4, Alone DEF LifecycleStep, CallLabels, StopLabels
<1>6. Exclusive' /\ pc'[t] = l /\ own'[t] = x
      /\ \A u \in Threads \ {t} : /\ pc'[u] = pc[u] /\ own'[u] = own[u]
                                  /\ ~InLifecycle(u)
  BY <1>5, LifecycleStepInv
<1>7. Types'
  <2>1. node' \in [Systems -> [state : NodeStates, actors : SUBSET Actors,
                               booted : BOOLEAN, mailbox : Nat]]
    <3>1. CASE node' = [node EXCEPT ![s].actors = {}, ![s].mailbox = 0,
                                    ![s].booted = TRUE]
      <4> DEFINE R == [state : NodeStates, actors : SUBSET Actors,
                       booted : BOOLEAN, mailbox : Nat]
                 a == [node[s] EXCEPT !.actors = {}]
                 b == [a EXCEPT !.mailbox = 0]
                 c == [b EXCEPT !.booted = TRUE]
      <4>1. a \in R
        BY <1>3 DEF LInv, Types
      <4>2. b \in R
        BY <4>1
      <4>3. c \in R
        BY <4>2
      <4>4. node' = [node EXCEPT ![s] = c]
        BY <1>3, <3>1 DEF LInv, Types
      <4> HIDE DEF c, R
      <4>5. node \in [Systems -> R]
        BY DEF LInv, Types, R
      <4> QED BY <4>3, <4>4, <4>5 DEF R
    <3>2. CASE node' = node
      BY <3>2 DEF LInv, Types
    <3>3. CASE node' = [node EXCEPT ![s] = [state |-> "stopped",
                            actors |-> {}, booted |-> TRUE, mailbox |-> 0]]
      BY <1>3, <3>3 DEF LInv, Types, NodeStates
    <3> QED BY <1>4, <3>1, <3>2, <3>3
  <2>2. draining' \in BOOLEAN
    BY <1>3, <1>4
  <2> QED BY <1>1, <1>5, <2>1, <2>2, LifecycleStepInv DEF LInv, Types
<1>8. \A r \in Systems \ {s} : node'[r] = node[r]
  BY <1>4 DEF LInv, Types
<1> HIDE DEF s
<1>9. Phases'
  <2>1. Phase(t)'
    BY <1>1, <1>3, <1>4, <1>6 DEF Phase, StopLabels, InLifecycle, StartLabels
  <2> QED BY <2>1, <1>5, LifecycleStepInv
<1>10. Fields'
  BY <1>1, <1>3, <1>4, <1>6 DEF LInv, Fields, StopLabels
<1>11. StreamsClosed'
  BY <1>1, <1>4, <1>6, <1>8 DEF LInv, StreamsClosed
<1>12. ServingIsRunning'
  BY <1>1, <1>3, <1>4 DEF ServingIsRunning
<1>13. SystemsOwned'
  BY <1>1, <1>3, <1>6, <1>8 DEF LInv, SystemsOwned
<1> QED BY <1>6, <1>7, <1>9, <1>10, <1>11, <1>12, <1>13 DEF LInv

LEMMA ClearStoppedInv ==
    ASSUME LInv, NEW t \in Threads, ClearStopped(t)
    PROVE  LInv'
<1> USE DEF gatewayVars, auditVars
<1> DEFINE s == own[t]
<1>1. /\ pc[t] = "clear"
      /\ stream' = IF auditStream = None THEN stream
                   ELSE [stream EXCEPT ![auditStream] = "closed"]
      /\ auditStream' = None /\ system' = None /\ draining' = FALSE
      /\ started' = FALSE
      /\ pc' = [pc EXCEPT ![t] = "idle"] /\ own' = [own EXCEPT ![t] = None]
      /\ UNCHANGED <<consumer, node, poller, failed>>
  BY DEF ClearStopped, Return
<1>2. InLifecycle(t)
  BY <1>1 DEF InLifecycle, StopLabels
<1>3. /\ system = s /\ s \in Systems /\ s # None /\ node[s].state = "stopped"
      /\ consumer = None /\ auditStream = s
  BY <1>1, <1>2 DEF LInv, Types, Phases, Phase, StopLabels, Fields
<1>4. "idle" \in CallLabels \cup StartLabels \cup StopLabels
      /\ LifecycleStep(t, "idle", None)
  BY <1>1, <1>2, Alone DEF LifecycleStep, CallLabels
<1>5. Exclusive' /\ pc'[t] = "idle" /\ own'[t] = None
      /\ \A u \in Threads \ {t} : /\ pc'[u] = pc[u] /\ own'[u] = own[u]
                                  /\ ~InLifecycle(u)
  BY <1>4, LifecycleStepInv
<1>6. Types'
  BY <1>1, <1>4, LifecycleStepInv DEF LInv, Types
<1>7. stream'[s] = "closed" /\ \A r \in Systems \ {s} : stream'[r] = stream[r]
  BY <1>1, <1>3 DEF LInv, Types
<1>8. Phases'
  <2>1. Phase(t)'
    BY <1>5 DEF Phase, StopLabels, InLifecycle, StartLabels
  <2> QED BY <2>1, <1>4, LifecycleStepInv
<1>9. Fields'
  BY <1>1, <1>3 DEF LInv, Fields
<1>10. StreamsClosed'
  BY <1>1, <1>5, <1>7 DEF LInv, StreamsClosed
<1>11. ServingIsRunning'
  BY <1>1 DEF ServingIsRunning
<1>12. SystemsOwned'
  <2> SUFFICES ASSUME NEW r \in Systems, node[r].state = "running"
               PROVE  r \in failed
    BY <1>1 DEF SystemsOwned
  <2> QED BY <1>1, <1>3, <1>5
          DEF LInv, SystemsOwned, InLifecycle, StartLabels
<1> QED BY <1>5, <1>6, <1>8, <1>9, <1>10, <1>11, <1>12 DEF LInv

----------------------------------------------------------------------------
(* The audit sink.                                                         *)

\* One more event is kept, unless the sink is closed or the disk fails.
Accepts(old, new) ==
    /\ new.open = old.open
    /\ old.broken => new.broken
    /\ \/ new.broken \/ ~old.open
       \/ new.stored + new.buffer = old.stored + old.buffer + 1

\* Write keeps the event, in the buffer or in the file.
LEMMA SinkWritesAccept ==
    ASSUME NEW old \in Sinks, NEW new \in SinkWrites(old)
    PROVE  new \in Sinks /\ Accepts(old, new)
<1>1. CASE old.kind = "memory"
  BY <1>1 DEF SinkWrites, MemorySinkWrite, Sinks, Accepts
<1>2. CASE old.kind # "memory"
  <2>1. CASE ~old.open \/ old.broken
    BY <1>2, <2>1 DEF SinkWrites, FileSinkWrites, Sinks, Accepts
  <2>2. CASE ~(~old.open \/ old.broken)
    <3>1. CASE new = [old EXCEPT !.broken = TRUE]
      BY <3>1 DEF Sinks, Accepts
    <3>2. ASSUME NEW k \in 0..(old.buffer + 1),
                 new = [old EXCEPT !.buffer = old.buffer + 1 - k,
                                   !.stored = old.stored + k]
          PROVE  new \in Sinks /\ Accepts(old, new)
      <4>1. /\ old.buffer \in Nat /\ old.stored \in Nat
            /\ old.buffer + 1 - k \in Nat /\ old.stored + k \in Nat
            /\ (old.stored + k) + (old.buffer + 1 - k)
                   = old.stored + old.buffer + 1
        BY DEF Sinks
      <4>2. new \in Sinks
        BY <3>2, <4>1 DEF Sinks
      <4>3. /\ new.buffer = old.buffer + 1 - k /\ new.stored = old.stored + k
            /\ new.open = old.open /\ new.broken = old.broken
        BY <3>2 DEF Sinks
      <4> QED BY <4>1, <4>2, <4>3 DEF Accepts
    <3> QED BY <1>2, <2>2, <3>1, <3>2 DEF SinkWrites, FileSinkWrites
  <2> QED BY <2>1, <2>2
<1> QED BY <1>1, <1>2

\* Close flushes: nothing that was accepted is lost.
LEMMA SinkCloseKeeps ==
    ASSUME NEW s \in Sinks
    PROVE  /\ SinkClose(s) \in Sinks
           /\ SinkClose(s).broken = s.broken
           /\ ~s.broken => SinkClose(s).stored + SinkClose(s).buffer
                               = s.stored + s.buffer
<1>1. s.buffer \in Nat /\ s.stored \in Nat /\ s.stored + s.buffer \in Nat
  BY DEF Sinks
<1>2. CASE s.broken
  <2>1. SinkClose(s) = [s EXCEPT !.open = FALSE, !.buffer = 0]
    BY <1>2 DEF SinkClose
  <2> DEFINE n == [s EXCEPT !.open = FALSE, !.buffer = 0]
  <2>2. n \in Sinks
    BY DEF Sinks
  <2>3. n.broken = s.broken
    BY DEF Sinks
  <2> QED BY <1>2, <2>1, <2>2, <2>3
<1>3. CASE ~s.broken
  <2>1. SinkClose(s) = [s EXCEPT !.open = FALSE, !.buffer = 0,
                                 !.stored = s.stored + s.buffer]
    BY <1>3 DEF SinkClose
  <2> DEFINE n == [s EXCEPT !.open = FALSE, !.buffer = 0,
                            !.stored = s.stored + s.buffer]
  <2>2. n \in Sinks
    BY <1>1 DEF Sinks
  <2>3. n.broken = s.broken /\ n.stored = s.stored + s.buffer /\ n.buffer = 0
    BY DEF Sinks
  <2>4. n.stored + n.buffer = s.stored + s.buffer
    BY <1>1, <2>3
  <2> QED BY <2>1, <2>2, <2>3, <2>4
<1> QED BY <1>2, <1>3

----------------------------------------------------------------------------
(* The manager, the journal and the event poller of a system.              *)

\* The actors of running systems change, and nothing that Start and Stop see.
LEMMA NodeStepInv ==
    ASSUME LInv, Types',
           UNCHANGED <<gatewayVars, threadVars, poller, stream, started,
                       failed>>,
           \A s \in Systems :
               /\ node'[s].state = node[s].state
               /\ node[s].state # "running" => node'[s].actors = node[s].actors
    PROVE  LInv'
<1> USE DEF gatewayVars, threadVars
<1>1. ASSUME NEW t \in Threads PROVE Phase(t)'
  <2>1. own[t] \in Systems \cup {None}
    BY DEF LInv, Types
  <2> QED BY <2>1 DEF LInv, Phases, Phase, InLifecycle, StopLabels
<1>2. Exclusive' /\ Fields'
  BY DEF LInv, Exclusive, InLifecycle, Fields
<1>3. StreamsClosed' /\ SystemsOwned'
  BY DEF LInv, StreamsClosed, SystemsOwned
<1>4. ServingIsRunning'
  BY DEF LInv, Types, ServingIsRunning
<1> QED BY <1>1, <1>2, <1>3, <1>4 DEF LInv, Phases

LEMMA PollerEndsInv ==
    ASSUME LInv, AInv, NEW s \in Systems, PollerEnds(s)
    PROVE  LInv' /\ AInv'
<1> USE DEF gatewayVars, threadVars, auditVars
<1>1. /\ UNCHANGED <<config, system, draining, auditStream, consumer, pc, own,
                     node, stream, started, failed, sink, written, reopened>>
      /\ poller' = [poller EXCEPT ![s] = "ended"]
  BY DEF PollerEnds
<1>2. Types'
  BY <1>1 DEF LInv, Types
<1>3. Exclusive' /\ Phases'
  BY <1>1 DEF LInv, Exclusive, InLifecycle, Phases, Phase
<1>4. Fields'
  BY <1>1 DEF LInv, Types, Fields
<1>5. StreamsClosed' /\ ServingIsRunning' /\ SystemsOwned'
  BY <1>1 DEF LInv, StreamsClosed, ServingIsRunning, SystemsOwned
<1>6. AInv'
  BY <1>1 DEF AInv, ActorsOwned, JournalOpen, AuditComplete, ConfiguredSink
<1> QED BY <1>2, <1>3, <1>4, <1>5, <1>6 DEF LInv

LEMMA SpawnFoundationalActorsInv ==
    ASSUME LInv, AInv, NEW s \in Systems, SpawnFoundationalActors(s)
    PROVE  LInv' /\ AInv'
<1> USE DEF gatewayVars, threadVars
<1>1. PICK up \in SUBSET Foundation, more \in {{"router"}, {}} :
        /\ node' = [node EXCEPT ![s].booted = TRUE,
                                ![s].actors = @ \cup up \cup more]
        /\ IF "journal" \in up
           THEN /\ sink' = CreateAuditSink(ConfiguredSink, sink)
                /\ reopened' = (reopened \/ (ConfiguredSink /\ ~sink.open))
           ELSE UNCHANGED <<sink, reopened>>
  BY DEF SpawnFoundationalActors
<1>2. /\ node[s].state = "running" /\ "manager" \in node[s].actors
      /\ UNCHANGED <<config, system, draining, auditStream, consumer, pc, own,
                     poller, stream, started, failed, written>>
  BY DEF SpawnFoundationalActors
<1>3. node' \in [Systems -> [state : NodeStates, actors : SUBSET Actors,
                             booted : BOOLEAN, mailbox : Nat]]
  <2> DEFINE R == [state : NodeStates, actors : SUBSET Actors,
                   booted : BOOLEAN, mailbox : Nat]
             a == [node[s] EXCEPT !.booted = TRUE]
             b == [a EXCEPT !.actors = @ \cup up \cup more]
  <2>1. a \in R /\ a.actors \in SUBSET Actors
    BY DEF LInv, Types
  <2>2. up \cup more \subseteq Actors
    BY DEF Actors
  <2>3. a.actors \cup up \cup more \in SUBSET Actors
    BY <2>1, <2>2
  <2>4. b \in R
    BY <2>1, <2>3
  <2>5. node' = [node EXCEPT ![s] = b]
    BY <1>1 DEF LInv, Types
  <2> HIDE DEF b, R
  <2>6. node \in [Systems -> R]
    BY DEF LInv, Types, R
  <2> QED BY <2>4, <2>5, <2>6 DEF R
<1>4. /\ \A r \in Systems \ {s} : node'[r] = node[r]
      /\ node'[s].state = node[s].state
      /\ node'[s].actors = node[s].actors \cup up \cup more
  BY <1>1 DEF LInv, Types
<1>5. LInv'
  <2>1. Types'
    BY <1>2, <1>3 DEF LInv, Types
  <2> QED BY <1>2, <1>4, <2>1, NodeStepInv
<1>6. sink' \in Sinks /\ written' \in Nat /\ reopened' \in BOOLEAN
  <2>1. NewMemorySink \in Sinks
    BY DEF NewMemorySink, NewSink, Sinks, SinkKinds
  <2>2. sink' \in {sink, NewMemorySink}
    BY <1>1 DEF CreateAuditSink
  <2>3. reopened' \in BOOLEAN
    BY <1>1, Zenon DEF AInv
  <2> QED BY <1>2, <2>1, <2>2, <2>3 DEF AInv
<1>7. ActorsOwned'
  BY <1>2, <1>4 DEF AInv, ActorsOwned
<1>8. JournalOpen'
  <2> SUFFICES ASSUME NEW r \in Systems, "journal" \in node'[r].actors,
                      ConfiguredSink
               PROVE  sink'.open \/ reopened'
    BY <1>2 DEF JournalOpen, ConfiguredSink
  <2>1. "journal" \in up \/ "journal" \in node[r].actors
    BY <1>4
  <2>2. "journal" \in up => sink' = sink /\ reopened' = (reopened \/ ~sink.open)
    BY <1>1 DEF CreateAuditSink
  <2>3. "journal" \in node[r].actors => sink.open \/ reopened
    BY DEF AInv, JournalOpen
  <2>4. sink.open \in BOOLEAN /\ reopened \in BOOLEAN
    BY DEF AInv, Sinks
  <2> QED BY <1>1, <2>1, <2>2, <2>3, <2>4
<1>9. AuditComplete'
  <2>1. ConfiguredSink => sink' = sink /\ (reopened => reopened')
    BY <1>1 DEF CreateAuditSink
  <2> QED BY <1>2, <2>1 DEF AInv, AuditComplete, ConfiguredSink
<1> QED BY <1>5, <1>6, <1>7, <1>8, <1>9 DEF AInv

LEMMA RecordAuditEventInv ==
    ASSUME LInv, AInv, NEW s \in Systems, RecordAuditEvent(s)
    PROVE  LInv' /\ AInv'
<1> USE DEF gatewayVars, threadVars, auditVars
<1>1. /\ UNCHANGED <<config, system, draining, auditStream, consumer, pc, own,
                     poller, stream, started, failed, sink, written,
                     reopened>>
      /\ node' = [node EXCEPT ![s].mailbox = @ + 1]
  BY DEF RecordAuditEvent
<1>2. Types' /\ \A r \in Systems : /\ node'[r].state = node[r].state
                                   /\ node'[r].actors = node[r].actors
  BY <1>1 DEF LInv, Types
<1>3. LInv'
  BY <1>1, <1>2, NodeStepInv
<1>4. AInv'
  BY <1>1, <1>2 DEF AInv, ActorsOwned, JournalOpen, AuditComplete,
     ConfiguredSink
<1> QED BY <1>3, <1>4

LEMMA HandleRecordAuditEventInv ==
    ASSUME LInv, AInv, NEW s \in Systems, HandleRecordAuditEvent(s)
    PROVE  LInv' /\ AInv'
<1> USE DEF gatewayVars, threadVars
<1>1. /\ UNCHANGED <<config, system, draining, auditStream, consumer, pc, own,
                     poller, stream, started, failed, reopened>>
      /\ node' = [node EXCEPT ![s].mailbox = @ - 1]
      /\ "journal" \in node[s].actors /\ node[s].mailbox > 0
      /\ sink' \in SinkWrites(sink)
      /\ written' = IF sink.open /\ sink'.broken THEN written ELSE written + 1
  BY DEF HandleRecordAuditEvent
<1>2. Types' /\ \A r \in Systems : /\ node'[r].state = node[r].state
                                   /\ node'[r].actors = node[r].actors
  BY <1>1 DEF LInv, Types
<1>3. LInv'
  BY <1>1, <1>2, NodeStepInv
<1>4. sink' \in Sinks /\ Accepts(sink, sink')
  BY <1>1, SinkWritesAccept DEF AInv
<1>5. ActorsOwned' /\ JournalOpen'
  BY <1>1, <1>2, <1>4 DEF AInv, ActorsOwned, JournalOpen, ConfiguredSink,
     Accepts
<1>6. AuditComplete'
  <2> SUFFICES ASSUME ConfiguredSink, ~sink'.broken, ~reopened
               PROVE  written' = sink'.stored + sink'.buffer
    BY <1>1 DEF AuditComplete, ConfiguredSink
  <2>1. sink.open /\ ~sink.broken
    BY <1>1, <1>4 DEF AInv, JournalOpen, Accepts
  <2>2. written = sink.stored + sink.buffer
    BY <2>1 DEF AInv, AuditComplete
  <2> QED BY <1>1, <1>4, <2>1, <2>2 DEF AInv, Sinks, Accepts
<1>7. written' \in Nat /\ reopened' \in BOOLEAN
  BY <1>1 DEF AInv
<1> QED BY <1>3, <1>4, <1>5, <1>6, <1>7 DEF AInv

----------------------------------------------------------------------------
(* The audit sink during Start and Stop.                                   *)

\* A step that leaves the sink alone and adds no journal.
LEMMA SinkUntouched ==
    ASSUME AInv, UNCHANGED <<config, auditVars>>, ActorsOwned',
           \A s \in Systems :
               "journal" \in node'[s].actors => "journal" \in node[s].actors
    PROVE  AInv'
BY DEF AInv, auditVars, JournalOpen, AuditComplete, ConfiguredSink

LEMMA StartStepsAudit ==
    ASSUME LInv, AInv, NEW t \in Threads, Start(t) \/ StartSteps(t)
    PROVE  AInv'
<1> USE DEF gatewayVars
<1>1. UNCHANGED <<config, auditVars>>
  BY DEF Start, StartSteps, ActorSystemOptions, StartSystem, SpawnManager,
     PublishSystem, StartEventConsumer
<1>2. \A s \in Systems :
          node'[s].actors = node[s].actors \/ node'[s].actors = {"manager"}
  BY DEF LInv, Types, Start, StartSteps, ActorSystemOptions, StartSystem,
     SpawnManager, PublishSystem, StartEventConsumer
<1>3. ActorsOwned'
  <2>1. CASE Start(t)
    BY <2>1 DEF Start, MayCall, Goto, LInv, Types, AInv, ActorsOwned
  <2>2. CASE ActorSystemOptions(t)
    <3>1. \A s \in Systems : node'[s].actors = node[s].actors
      BY <2>2 DEF ActorSystemOptions, LInv, Types
    <3>2. \A u \in Threads : pc[u] = "publish" =>
                                 pc'[u] = "publish" /\ own'[u] = own[u]
      BY <2>2 DEF ActorSystemOptions, Return, LInv, Types
    <3> QED BY <2>2, <3>1, <3>2 DEF ActorSystemOptions, AInv, ActorsOwned
  <2>3. CASE StartSystem(t)
    <3>1. \A s \in Systems : node'[s].actors = node[s].actors
      <4>1. PICK state : node' = [node EXCEPT ![own[t]].state = state]
        BY <2>3 DEF StartSystem
      <4> QED BY <4>1 DEF LInv, Types
    <3>2. \A u \in Threads : pc[u] = "publish" =>
                                 pc'[u] = "publish" /\ own'[u] = own[u]
      BY <2>3 DEF StartSystem, Goto, Return, LInv, Types
    <3> QED BY <2>3, <3>1, <3>2 DEF StartSystem, AInv, ActorsOwned
  <2>4. CASE SpawnManager(t)
    <3>1. /\ \A u \in Threads : pc[u] = "publish" =>
                                    pc'[u] = "publish" /\ own'[u] = own[u]
          /\ system' = system
      BY <2>4 DEF SpawnManager, Goto, Return, LInv, Types
    <3>2. CASE /\ node' = [node EXCEPT ![own[t]].actors = {"manager"}]
               /\ Goto(t, "publish") /\ own' = own
      <4>1. /\ pc'[t] = "publish" /\ own'[t] = own[t]
            /\ \A s \in Systems \ {own[t]} : node'[s] = node[s]
        BY <3>2 DEF Goto, LInv, Types
      <4> QED BY <3>1, <4>1 DEF AInv, ActorsOwned
    <3>3. CASE \A s \in Systems : node'[s].actors = node[s].actors
      BY <3>1, <3>3 DEF AInv, ActorsOwned
    <3>4. \/ /\ node' = [node EXCEPT ![own[t]].actors = {"manager"}]
             /\ Goto(t, "publish") /\ own' = own
          \/ \A s \in Systems : node'[s].actors = node[s].actors
      <4>1. \/ /\ node' = [node EXCEPT ![own[t]].actors = {"manager"}]
               /\ Goto(t, "publish") /\ own' = own
            \/ node' = [node EXCEPT ![own[t]].state = "stopped"]
            \/ node' = node
        BY <2>4 DEF SpawnManager
      <4>2. CASE node' = [node EXCEPT ![own[t]].state = "stopped"]
        BY <4>2 DEF LInv, Types
      <4> QED BY <4>1, <4>2
    <3> QED BY <3>2, <3>3, <3>4
  <2>5. CASE PublishSystem(t)
    <3>1. pc[t] = "publish" /\ system = None /\ system' = own[t] /\ node' = node
          /\ InLifecycle(t)
      BY <2>5 DEF PublishSystem, InLifecycle, StartLabels, LInv, Phases, Phase
    <3>2. \A u \in Threads : pc[u] = "publish" => u = t
      BY <3>1 DEF LInv, Exclusive, InLifecycle, StartLabels
    <3> QED BY <3>1, <3>2, SystemsNotNone DEF AInv, ActorsOwned
  <2>6. CASE StartEventConsumer(t)
    <3>1. /\ node' = node /\ system' = system
          /\ \A u \in Threads : pc[u] = "publish" =>
                                    pc'[u] = "publish" /\ own'[u] = own[u]
      BY <2>6 DEF StartEventConsumer, Return, LInv, Types
    <3> QED BY <3>1 DEF AInv, ActorsOwned
  <2> QED BY <2>1, <2>2, <2>3, <2>4, <2>5, <2>6 DEF StartSteps
<1> QED BY <1>1, <1>2, <1>3, SinkUntouched

LEMMA StopStepsAudit ==
    ASSUME LInv, AInv, NEW t \in Threads, Stop(t) \/ StopSteps(t)
    PROVE  AInv'
<1> USE DEF gatewayVars
<1>1. CASE Stop(t) \/ StopEventConsumer(t)
  <2>1. /\ UNCHANGED <<config, auditVars, node, system>>
        /\ \A u \in Threads : pc[u] = "publish" =>
                                  pc'[u] = "publish" /\ own'[u] = own[u]
    BY <1>1 DEF Stop, MayCall, StopEventConsumer, Goto, LInv, Types
  <2>2. ActorsOwned'
    BY <2>1 DEF AInv, ActorsOwned
  <2> QED BY <2>1, <2>2, SinkUntouched
<1>2. CASE ClearStopped(t)
  <2>1. /\ UNCHANGED <<config, auditVars, node>>
        /\ system' = None /\ pc[t] = "clear"
        /\ \A u \in Threads : pc[u] = "publish" =>
                                  pc'[u] = "publish" /\ own'[u] = own[u]
    BY <1>2 DEF ClearStopped, Return, LInv, Types
  <2>2. node[system].actors = {}
    BY <2>1 DEF LInv, Phases, Phase, StopLabels
  <2>3. ActorsOwned'
    BY <2>1, <2>2 DEF AInv, ActorsOwned
  <2> QED BY <2>1, <2>3, SinkUntouched
<1>3. CASE StopSystem(t)
  <2> DEFINE s == own[t]
  <2>1. /\ pc[t] = "halt" /\ system' = system
        /\ UNCHANGED <<config, written, reopened>>
    BY <1>3 DEF StopSystem
  <2>2. /\ InLifecycle(t) /\ system = s /\ s \in Systems
        /\ \A u \in Threads : pc[u] # "publish"
    BY <2>1 DEF LInv, Types, Phases, Phase, Exclusive, InLifecycle, StartLabels,
       StopLabels
  <2>3. \A r \in Systems \ {s} : node[r].actors = {} /\ node'[r] = node[r]
    BY <1>3, <2>2 DEF AInv, ActorsOwned, StopSystem, SystemStopped,
       SystemStopFailed, LInv, Types
  <2>4. ActorsOwned'
    BY <2>1, <2>2, <2>3 DEF ActorsOwned
  <2>5. CASE node' = node /\ sink' = sink
    BY <2>1, <2>4, <2>5, SinkUntouched DEF auditVars
  <2>6. CASE node'[s].actors = {} /\ JournalPostStop(s)
    <3>1. sink' \in {sink, SinkClose(sink)}
      BY <2>6 DEF JournalPostStop
    <3>2. /\ sink' \in Sinks /\ sink'.broken = sink.broken
          /\ ~sink.broken => sink'.stored + sink'.buffer
                                 = sink.stored + sink.buffer
      BY <3>1, SinkCloseKeeps DEF AInv
    <3>3. JournalOpen'
      BY <2>3, <2>6 DEF JournalOpen
    <3>4. AuditComplete'
      BY <2>1, <3>2 DEF AInv, AuditComplete, ConfiguredSink
    <3> QED BY <2>1, <2>4, <3>2, <3>3, <3>4 DEF AInv
  <2>7. \/ node' = node /\ sink' = sink
        \/ node'[s].actors = {} /\ JournalPostStop(s)
    <3>1. CASE SystemStopped(s)
      BY <2>2, <3>1 DEF SystemStopped, LInv, Types
    <3>2. CASE SystemStopFailed(s)
      BY <2>2, <3>2 DEF SystemStopFailed, LInv, Types
    <3> QED BY <1>3, <3>1, <3>2 DEF StopSystem
  <2> QED BY <2>5, <2>6, <2>7
<1> QED BY <1>1, <1>2, <1>3 DEF StopSteps

----------------------------------------------------------------------------
(* The calls.                                                              *)

LEMMA RequireRunningInv ==
    ASSUME LInv, AInv, NEW t \in Threads, NEW l \in CallLabels,
           RequireRunning(t, l)
    PROVE  LInv' /\ AInv'
<1>1. CallStep(t, l, system) /\ system \in Systems \cup {None}
  BY DEF RequireRunning, CallStep, CallLabels, Goto, LInv, Types
<1> QED BY <1>1, CallStepInv

LEMMA CallsInv ==
    ASSUME Serialized, LInv, AInv, NEW t \in Threads, Calls(t)
    PROVE  LInv' /\ AInv'
<1>1. CASE Start(t)
  BY <1>1, StartInv, StartStepsAudit
<1>2. CASE Stop(t)
  BY <1>2, StopInv, StopStepsAudit
<1>3. CASE SubscribeAudit(t)
  <2>1. CallStep(t, "attach", auditStream) /\ "attach" \in CallLabels
        /\ auditStream \in Systems \cup {None}
    BY <1>3 DEF SubscribeAudit, CallStep, CallLabels, Goto, LInv, Types
  <2> QED BY <2>1, CallStepInv
<1>4. ASSUME NEW l \in {"resolveRouter", "resolveRegistrar", "status"},
             RequireRunning(t, l)
      PROVE  LInv' /\ AInv'
  <2>1. l \in CallLabels
    BY DEF CallLabels
  <2> QED BY <1>4, <2>1, RequireRunningInv
<1> QED
  BY <1>1, <1>2, <1>3, <1>4
     DEF Calls, Invoke, InvokeStream, ListTools, ListSessions, RegisterTool,
         UpdateTool, ChangeTool, DisableTool, EnableTool, RemoveTool,
         DrainTool, ResetCircuit, GetToolStatus, GetToolSchema,
         GetGatewayStatus

LEMMA CallStepsInv ==
    ASSUME LInv, AInv, NEW t \in Threads, CallSteps(t)
    PROVE  LInv' /\ AInv'
<1>1. CASE StatusRequiresRunning(t)
  <2>1. \/ CallStep(t, "idle", None)
        \/ CallStep(t, "tools", system)
    BY <1>1 DEF StatusRequiresRunning, Return, CallStep, CallLabels
  <2>2. system \in Systems \cup {None} /\ {"idle", "tools"} \subseteq CallLabels
    BY DEF LInv, Types, CallLabels
  <2> QED BY <2>1, <2>2, CallStepInv
<1>2. ASSUME NEW l \in CallLabels, NEW actor, Resolve(t, l, actor, "ask")
      PROVE  LInv' /\ AInv'
  <2>1. \/ CallStep(t, "idle", None)
        \/ CallStep(t, "ask", own[t])
    BY <1>2 DEF Resolve, Goto, Return, CallStep, LInv, Types
  <2>2. own[t] \in Systems \cup {None} /\ {"idle", "ask"} \subseteq CallLabels
    BY DEF LInv, Types, CallLabels
  <2> QED BY <2>1, <2>2, CallStepInv
<1>3. CASE AskReturns(t) \/ Attach(t)
  <2>1. CallStep(t, "idle", None) /\ "idle" \in CallLabels
    BY <1>3 DEF AskReturns, Attach, Return, CallStep, CallLabels
  <2> QED BY <2>1, CallStepInv
<1>4. {"resolveRouter", "resolveRegistrar", "tools"} \subseteq CallLabels
  BY DEF CallLabels
<1> QED
  BY <1>1, <1>2, <1>3, <1>4
     DEF CallSteps, ResolveRouter, ResolveRegistrar, StatusTools

----------------------------------------------------------------------------
(* The theorems.                                                           *)

LEMMA InitInv == Init => LInv /\ AInv
<1> SUFFICES ASSUME Init PROVE LInv /\ AInv
  OBVIOUS
<1> USE DEF Init
<1>1. Types
  BY DEF Types, CallLabels, NodeStates
<1>2. Exclusive /\ Phases /\ Fields /\ StreamsClosed
  BY DEF Exclusive, Phases, Phase, InLifecycle, StartLabels, StopLabels,
     Fields, StreamsClosed
<1>3. ServingIsRunning /\ SystemsOwned
  BY DEF ServingIsRunning, SystemsOwned
<1>4. /\ sink \in Sinks /\ written \in Nat /\ reopened \in BOOLEAN
      /\ sink.stored = 0 /\ sink.buffer = 0
  BY DEF NewFileSink, NewMemorySink, NewSink, Sinks, SinkKinds
<1>5. ActorsOwned /\ JournalOpen
  BY DEF ActorsOwned, JournalOpen
<1>6. AuditComplete
  BY <1>4 DEF AuditComplete
<1> QED BY <1>1, <1>2, <1>3, <1>4, <1>5, <1>6 DEF LInv, AInv

LEMMA NextInv ==
    ASSUME Serialized, LInv, AInv, [Next]_vars
    PROVE  LInv' /\ AInv'
<1>1. ASSUME NEW t \in Threads, Calls(t) PROVE LInv' /\ AInv'
  BY <1>1, CallsInv
<1>2. ASSUME NEW t \in Threads, StartSteps(t) PROVE LInv' /\ AInv'
  BY <1>2, ActorSystemOptionsInv, StartSystemInv, SpawnManagerInv,
     PublishSystemInv, StartEventConsumerInv, StartStepsAudit DEF StartSteps
<1>3. ASSUME NEW t \in Threads, StopSteps(t) PROVE LInv' /\ AInv'
  BY <1>3, StopEventConsumerInv, StopSystemInv, ClearStoppedInv,
     StopStepsAudit DEF StopSteps
<1>4. ASSUME NEW t \in Threads, CallSteps(t) PROVE LInv' /\ AInv'
  BY <1>4, CallStepsInv
<1>5. CASE UNCHANGED <<config, gatewayVars, threadVars, node, poller, stream,
                       auditVars, started, failed>>
  <2> USE <1>5 DEF gatewayVars, threadVars, auditVars
  <2>1. Types' /\ Exclusive' /\ Phases' /\ Fields'
    BY DEF LInv, Types, Exclusive, InLifecycle, Phases, Phase, Fields
  <2>2. StreamsClosed' /\ ServingIsRunning' /\ SystemsOwned'
    BY DEF LInv, StreamsClosed, ServingIsRunning, SystemsOwned
  <2>3. AInv'
    BY DEF AInv, ActorsOwned, JournalOpen, AuditComplete, ConfiguredSink
  <2> QED BY <2>1, <2>2, <2>3 DEF LInv
<1>6. ASSUME NEW u \in Subscribers, UnsubscribeAudit(u) PROVE LInv' /\ AInv'
  BY <1>5, <1>6 DEF UnsubscribeAudit
<1>7. ASSUME NEW s \in Systems,
             \/ PollerEnds(s) \/ SpawnFoundationalActors(s)
             \/ RecordAuditEvent(s) \/ HandleRecordAuditEvent(s)
      PROVE  LInv' /\ AInv'
  BY <1>7, PollerEndsInv, SpawnFoundationalActorsInv, RecordAuditEventInv,
     HandleRecordAuditEventInv
<1>8. CASE UNCHANGED vars
  BY <1>5, <1>8 DEF vars
<1> QED BY <1>1, <1>2, <1>3, <1>4, <1>6, <1>7, <1>8 DEF Next

\* A step after which no Start has failed that had not before.
LEMMA ForgottenKept ==
    ASSUME LInv, FailedForgotten, failed' = failed,
           \A s \in Systems : stream[s] # "none" => stream'[s] # "none",
           system' # None => system' = system \/
                             \E t \in Threads : Busy(t) /\ system' = own[t],
           \A t \in Threads : Busy(t)' =>
               \/ Busy(t) /\ own'[t] = own[t]
               \/ system # None /\ own'[t] = system
    PROVE  FailedForgotten'
<1>1. \A s \in Systems : Held(s) => Held(s)'
  BY DEF Held
<1>2. \A x : Held(x) => x \in Systems
  BY DEF Held
<1>3. system' # None => Held(system)'
  BY <1>1, <1>2 DEF FailedForgotten, Held
<1>4. ASSUME NEW t \in Threads, Busy(t)' PROVE Held(own[t])'
  BY <1>1, <1>2, <1>4 DEF FailedForgotten, Held
<1> QED BY <1>3, <1>4 DEF FailedForgotten, Held

\* A new Start takes a system whose stream was never put in place, so a failed
\* one stays forgotten.
LEMMA ForgottenNext ==
    ASSUME Serialized, LInv, FailedForgotten, [Next]_vars
    PROVE  FailedForgotten'
<1> USE DEF gatewayVars, threadVars, auditVars
<1>0. /\ own \in [Threads -> Systems \cup {None}]
      /\ stream \in [Systems -> {"none", "open", "closed"}]
      /\ pc \in [Threads -> CallLabels \cup StartLabels \cup StopLabels]
      /\ auditStream \in Systems \cup {None}
  BY DEF LInv, Types
<1>1. ASSUME NEW t \in Threads, ActorSystemOptions(t) PROVE FailedForgotten'
  <2>1. PICK s \in Systems :
          /\ pc[t] = "options" /\ stream[s] = "none"
          /\ stream' = [stream EXCEPT ![s] = "open"] /\ system' = system
          /\ \/ /\ pc' = [pc EXCEPT ![t] = "boot"]
                /\ own' = [own EXCEPT ![t] = s] /\ failed' = failed
             \/ /\ pc' = [pc EXCEPT ![t] = "idle"]
                /\ own' = [own EXCEPT ![t] = None]
                /\ failed' = failed \cup {s}
    BY <1>1 DEF ActorSystemOptions, Unused, Return
  <2>2. system = None /\ s \notin failed
    BY <2>1 DEF LInv, Phases, Phase, FailedForgotten
  <2>3. \A u \in Threads \ {t} : ~Busy(u)' /\ ~Busy(u)
    BY <1>0, <2>1 DEF LInv, Exclusive, InLifecycle, Busy, StartLabels, StopLabels
  <2>4. Busy(t)' => own'[t] = s /\ failed' = failed
    BY <1>0, <2>1 DEF Busy, StopLabels
  <2> QED BY <1>0, <2>1, <2>2, <2>3, <2>4 DEF FailedForgotten, Held
<1>2. ASSUME NEW t \in Threads, StartSystem(t) \/ SpawnManager(t)
      PROVE  FailedForgotten'
  <2>1. /\ pc[t] \in {"boot", "spawn"} /\ system' = system /\ stream' = stream
        /\ \/ \E l \in {"spawn", "publish"} :
                 pc' = [pc EXCEPT ![t] = l] /\ own' = own /\ failed' = failed
           \/ /\ pc' = [pc EXCEPT ![t] = "idle"]
              /\ own' = [own EXCEPT ![t] = None]
              /\ failed' = failed \cup {own[t]}
    BY <1>2 DEF StartSystem, SpawnManager, Goto, Return
  <2>2. system = None /\ Busy(t) /\ Held(own[t])
    BY <2>1 DEF LInv, Phases, Phase, FailedForgotten, Busy
  <2>3. \A u \in Threads \ {t} : ~Busy(u)' /\ ~Busy(u)
    BY <1>0, <2>1 DEF LInv, Exclusive, InLifecycle, Busy, StartLabels, StopLabels
  <2>4. Busy(t)' => own' = own /\ failed' = failed
    BY <1>0, <2>1 DEF Busy, StopLabels
  <2> QED BY <1>0, <2>1, <2>2, <2>3, <2>4 DEF FailedForgotten, Held
<1>3. ASSUME NEW t \in Threads,
             \/ Calls(t) \/ CallSteps(t) \/ StopSteps(t)
             \/ PublishSystem(t) \/ StartEventConsumer(t)
      PROVE  FailedForgotten'
  <2>1. CASE Stop(t)
    <3>1. /\ UNCHANGED <<failed, stream, system>>
          /\ \A u \in Threads : Busy(u)' =>
               \/ Busy(u) /\ own'[u] = own[u]
               \/ system # None /\ own'[u] = system
      BY <1>0, <2>1 DEF Stop, Goto, Busy, StopLabels
    <3> QED BY <3>1, ForgottenKept
  <2>2. CASE Start(t)
    <3>1. /\ UNCHANGED <<failed, stream, system, own>>
          /\ \A u \in Threads : Busy(u)' => Busy(u)
      BY <1>0, <2>2 DEF Start, Goto, Busy, StopLabels
    <3> QED BY <3>1, ForgottenKept
  <2>3. CASE ClearStopped(t) \/ PublishSystem(t)
    <3>1. /\ failed' = failed
          /\ \A s \in Systems : stream[s] # "none" => stream'[s] # "none"
          /\ system' # None => Busy(t) /\ system' = own[t]
          /\ \A u \in Threads : Busy(u)' => Busy(u) /\ own'[u] = own[u]
      BY <1>0, <2>3 DEF ClearStopped, PublishSystem, Goto, Return, Busy,
         StopLabels
    <3> QED BY <3>1, ForgottenKept
  <2>4. CASE StopEventConsumer(t) \/ StopSystem(t) \/ StartEventConsumer(t)
    <3>1. /\ UNCHANGED <<failed, stream, system>>
          /\ \A u \in Threads : Busy(u)' => Busy(u) /\ own'[u] = own[u]
      BY <1>0, <2>4 DEF StopEventConsumer, StopSystem, StartEventConsumer,
         Goto, Return, Busy, StopLabels
    <3> QED BY <3>1, ForgottenKept
  <2>5. ASSUME NEW l \in CallLabels, NEW x, pc[t] \in CallLabels,
               pc' = [pc EXCEPT ![t] = l], own' = [own EXCEPT ![t] = x],
               UNCHANGED <<failed, stream, system>>
        PROVE  FailedForgotten'
    <3>1. \A u \in Threads : Busy(u)' => Busy(u) /\ own'[u] = own[u]
      BY <1>0, <2>5 DEF Busy, StopLabels, CallLabels
    <3> QED BY <2>5, <3>1, ForgottenKept
  <2>6. ASSUME NEW l \in CallLabels, RequireRunning(t, l)
        PROVE  FailedForgotten'
    <3>1. /\ pc[t] = "idle" /\ pc' = [pc EXCEPT ![t] = l]
          /\ own' = [own EXCEPT ![t] = system]
          /\ UNCHANGED <<failed, stream, system>>
      BY <2>6 DEF RequireRunning, Goto
    <3>2. "idle" \in CallLabels
      BY DEF CallLabels
    <3> QED BY <2>5, <3>1, <3>2
  <2>7. CASE SubscribeAudit(t)
    <3>1. /\ pc[t] = "idle" /\ pc' = [pc EXCEPT ![t] = "attach"]
          /\ own' = [own EXCEPT ![t] = auditStream]
          /\ UNCHANGED <<failed, stream, system>>
      BY <2>7 DEF SubscribeAudit, Goto
    <3>2. {"idle", "attach"} \subseteq CallLabels
      BY DEF CallLabels
    <3> QED BY <2>5, <3>1, <3>2
  <2>8. CASE CallSteps(t)
    <3>1. PICK l, x :
            /\ l \in {"idle", "tools", "ask"} /\ pc[t] \in CallLabels
            /\ pc' = [pc EXCEPT ![t] = l] /\ own' = [own EXCEPT ![t] = x]
            /\ UNCHANGED <<failed, stream, system>>
      <4>1. own = [own EXCEPT ![t] = own[t]]
        BY <1>0
      <4>2. CASE StatusRequiresRunning(t) \/ AskReturns(t) \/ Attach(t)
        BY <4>2 DEF StatusRequiresRunning, AskReturns, Attach, Return,
           CallLabels
      <4>3. CASE ResolveRouter(t) \/ ResolveRegistrar(t) \/ StatusTools(t)
        BY <4>1, <4>3 DEF ResolveRouter, ResolveRegistrar, StatusTools, Resolve,
           Goto, Return, CallLabels
      <4> QED BY <2>8, <4>2, <4>3 DEF CallSteps
    <3>2. {"idle", "tools", "ask"} \subseteq CallLabels
      BY DEF CallLabels
    <3> QED BY <2>5, <3>1, <3>2
  <2>9. {"resolveRouter", "resolveRegistrar", "status"} \subseteq CallLabels
    BY DEF CallLabels
  <2> QED
    BY <1>3, <2>1, <2>2, <2>3, <2>4, <2>6, <2>7, <2>8, <2>9
       DEF StopSteps, Calls, Invoke, InvokeStream, ListTools, ListSessions,
           RegisterTool, UpdateTool, ChangeTool, DisableTool, EnableTool,
           RemoveTool, DrainTool, ResetCircuit, GetToolStatus, GetToolSchema,
           GetGatewayStatus
<1>4. CASE UNCHANGED <<system, pc, own, stream, failed>>
  BY <1>4 DEF FailedForgotten, Held, Busy
<1>5. ASSUME \/ \E u \in Subscribers : UnsubscribeAudit(u)
             \/ \E s \in Systems :
                  \/ PollerEnds(s) \/ SpawnFoundationalActors(s)
                  \/ RecordAuditEvent(s) \/ HandleRecordAuditEvent(s)
             \/ UNCHANGED vars
      PROVE  UNCHANGED <<system, pc, own, stream, failed>>
  BY <1>5 DEF UnsubscribeAudit, PollerEnds, SpawnFoundationalActors,
     RecordAuditEvent, HandleRecordAuditEvent, vars
<1> QED BY <1>1, <1>2, <1>3, <1>4, <1>5 DEF Next, StartSteps

LEMMA Inductive ==
    ASSUME Serialized PROVE Spec => [](LInv /\ AInv /\ FailedForgotten)
<1>1. LInv /\ AInv /\ FailedForgotten /\ [Next]_vars
        => (LInv /\ AInv /\ FailedForgotten)'
  BY NextInv, ForgottenNext
<1>2. Init => LInv /\ AInv /\ FailedForgotten
  BY InitInv DEF Init, FailedForgotten, Busy, StopLabels
<1> QED BY <1>1, <1>2, PTL DEF Spec

\* A poller of a stopped system would be the consumer of the system that Stop
\* has just halted, and that one has been told to end.
LEMMA PollersStopped == LInv => PollerStopsWithSystem
<1> SUFFICES ASSUME LInv, NEW s \in Systems,
                    node[s].state \in {"stopped", "failed"},
                    poller[s] = "polling"
             PROVE  FALSE
  BY DEF PollerStopsWithSystem
<1>1. consumer = s /\ system = s /\ s # None
  BY SystemsNotNone DEF LInv, Fields
<1>2. draining
  BY <1>1 DEF LInv, ServingIsRunning
<1>3. PICK t \in Threads : pc[t] \in StopLabels
  BY <1>2 DEF LInv, Fields
<1>4. own[t] = s
  BY <1>1, <1>3 DEF LInv, Phases, Phase
<1> QED BY <1>1, <1>3, <1>4 DEF LInv, Phases, Phase, StopLabels

\* The system of a failed Start has no actors and no poller.
LEMMA FailedEmpty ==
    ASSUME LInv, AInv, FailedForgotten, NEW s \in failed, s \in Systems
    PROVE  node[s].actors = {} /\ poller[s] # "polling"
<1>1. s # system /\ \A t \in Threads : pc[t] = "publish" => own[t] # s
  BY SystemsNotNone DEF FailedForgotten, Held, Busy
<1>2. node[s].actors = {}
  BY <1>1 DEF AInv, ActorsOwned
<1>3. poller[s] # "polling"
  BY <1>1, SystemsNotNone DEF LInv, Fields
<1> QED BY <1>2, <1>3

\* requireRunning: whatever fails in Start or Stop and whoever calls meanwhile,
\* a gateway that accepts calls has a running actor system, as long as Start
\* and Stop are not called concurrently.
THEOREM Serving == ASSUME Serialized PROVE Spec => []ServingIsRunning
<1>1. LInv /\ AInv /\ FailedForgotten => ServingIsRunning
  BY DEF LInv
<1> QED BY <1>1, Inductive, PTL

\* Stop: of a gateway that was started no actor system, poller or open audit
\* stream is left; of a failed Start no poller, and a running actor system only
\* without actors.  Start and Stop are not called concurrently.
THEOREM LeavesNothing == ASSUME Serialized PROVE Spec => []StopLeavesNothing
<1>1. LInv => SubscriberInert
  BY DEF LInv, StreamsClosed, SubscriberInert
<1>2. LInv /\ AInv /\ FailedForgotten => NoSystemLeaked
  BY FailedEmpty DEF LInv, SystemsOwned, NoSystemLeaked
<1>3. LInv /\ AInv /\ FailedForgotten => StopLeavesNothing
  BY <1>1, <1>2, PollersStopped DEF StopLeavesNothing
<1> QED BY <1>3, Inductive, PTL

\* Write, Close and the journal's PostStop: the sink keeps what it accepted,
\* while the disk works and no journal is given a closed sink.
THEOREM AuditKept == ASSUME Serialized PROVE Spec => []AuditComplete
<1>1. LInv /\ AInv /\ FailedForgotten => AuditComplete
  BY DEF AInv
<1> QED BY <1>1, Inductive, PTL
====
