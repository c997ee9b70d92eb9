---- MODULE Registrar_proofs ----
(***************************************************************************)
(* Proofs about the registrar and the three copies of a tool definition,   *)
(* for any set of tools and endpoints and an unbounded number of           *)
(* registrations, updates, failed spawns, removals and health updates.     *)
(***************************************************************************)
EXTENDS Registrar, TLAPS

\* The inductive invariant.
Inv == TypeOK /\ RecordsAgree /\ SupervisorUpToDate

----------------------------------------------------------------------------
(* Definitions of tools.                                                   *)

\* What the fields of a definition are, and what the handlers make of it.
LEMMA ConfigFields ==
    ASSUME NEW tool \in ToolConfigs
    PROVE  /\ tool # NoTool
           /\ tool.state \in ToolStates
           /\ tool.kind \in Kinds
           /\ tool.endpoint \in Endpoints
BY NoToolAssumption DEF ToolConfigs

\* A definition whose state is replaced keeps its transport.
LEMMA WithState ==
    ASSUME NEW tool \in ToolConfigs, NEW st \in ToolStates
    PROVE  /\ [tool EXCEPT !.state = st] \in ToolConfigs
           /\ [tool EXCEPT !.state = st].kind = tool.kind
           /\ [tool EXCEPT !.state = st].endpoint = tool.endpoint
BY DEF ToolConfigs

\* An updated definition is a definition.
LEMMA UpdatedOK ==
    ASSUME NEW old \in ToolConfigs, NEW new \in ToolConfigs
    PROVE  Updated(old, new) \in ToolConfigs
BY DEF Updated, ToolConfigs

\* So is the one a registration installs.
LEMMA RegisteredOK ==
    ASSUME NEW t \in Tools, NEW tool \in ToolConfigs
    PROVE  Registered(t, tool) \in ToolConfigs
BY WithState DEF Registered, ToolStates

----------------------------------------------------------------------------
(* Supervisors and their mailboxes.                                        *)

SupRecords ==
    [up : BOOLEAN, tool : ToolConfigs \cup {NoTool}, draining : BOOLEAN,
     mailbox : Seq(SupMessages)]

\* A new supervisor, and a missing one, are supervisor records.
LEMMA NewSupOK == NewSup \in SupRecords /\ NoSup \in SupRecords
<1>1. <<>> \in Seq(SupMessages)
  OBVIOUS
<1>2. <<"PostStart">> \in Seq(SupMessages)
  BY DEF SupMessages
<1> QED BY <1>1, <1>2 DEF NewSup, NoSup, SupRecords

\* A supervisor with one more message.
LEMMA SupAppend ==
    ASSUME NEW r \in SupRecords, NEW m \in SupMessages
    PROVE  /\ [r EXCEPT !.mailbox = Append(@, m)] \in SupRecords
           /\ [r EXCEPT !.mailbox = Append(@, m)].up = r.up
           /\ [r EXCEPT !.mailbox = Append(@, m)].tool = r.tool
           /\ [r EXCEPT !.mailbox = Append(@, m)].mailbox =
                  Append(r.mailbox, m)
<1>1. Append(r.mailbox, m) \in Seq(SupMessages)
  BY DEF SupRecords
<1> QED BY <1>1 DEF SupRecords

OnlyDrains(q) == \A k \in 1..Len(q) : q[k] = "DrainTool"

\* A mailbox of drains alone stays one without its last message.
LEMMA OnlyDrainsAppend ==
    ASSUME NEW q \in Seq(SupMessages), NEW m \in SupMessages,
           OnlyDrains(Append(q, m))
    PROVE  m = "DrainTool" /\ OnlyDrains(q)
<1>1. /\ Len(Append(q, m)) = Len(q) + 1
      /\ Append(q, m)[Len(q) + 1] = m
      /\ \A k \in 1..Len(q) : Append(q, m)[k] = q[k]
  OBVIOUS
<1> QED BY <1>1 DEF OnlyDrains

\* It was one before a drain was taken from it.
LEMMA OnlyDrainsTail ==
    ASSUME NEW q \in Seq(SupMessages), q # <<>>
    PROVE  /\ Tail(q) \in Seq(SupMessages)
           /\ Head(q) = "DrainTool" /\ OnlyDrains(Tail(q)) => OnlyDrains(q)
<1>1. /\ Tail(q) \in Seq(SupMessages)
      /\ Len(Tail(q)) = Len(q) - 1
      /\ Len(q) > 0
      /\ Head(q) = q[1]
      /\ \A k \in 1..Len(Tail(q)) : Tail(q)[k] = q[k + 1]
  OBVIOUS
<1>2. ASSUME Head(q) = "DrainTool", OnlyDrains(Tail(q)), NEW k \in 1..Len(q)
      PROVE  q[k] = "DrainTool"
  <2>1. CASE k = 1
    BY <1>1, <1>2, <2>1
  <2>2. CASE k # 1
    <3>1. k - 1 \in 1..Len(Tail(q)) /\ (k - 1) + 1 = k
      BY <1>1, <2>2
    <3> QED BY <1>1, <1>2, <3>1 DEF OnlyDrains
  <2> QED BY <2>1, <2>2
<1> QED BY <1>1, <1>2 DEF OnlyDrains

----------------------------------------------------------------------------
(* One tool at a time: the invariant is about each tool by itself.         *)

\* What the invariant says of one tool.
ToolInv(t) ==
    /\ catalog[t] \in ToolConfigs \cup {NoTool}
    /\ schemas[t] \in Endpoints \cup {NoTool}
    /\ extension[t] \in ToolConfigs \cup {NoTool}
    /\ sup[t] \in SupRecords
    /\ Has(t) <=> extension[t] # NoTool
    /\ Has(t) => /\ extension[t].kind = catalog[t].kind
                 /\ extension[t].endpoint = catalog[t].endpoint
    /\ sup[t].up => Has(t)
    /\ sup[t].up /\ OnlyDrains(sup[t].mailbox) => sup[t].tool = extension[t]

\* The types of the variables the invariant does not relate.
RestOK ==
    /\ snapshot \in [Tools -> ToolConfigs \cup {NoTool}]
    /\ updates \in [Tools -> ToolStates \cup {NoTool}]
    /\ asked \in [Tools -> BOOLEAN]

Domains ==
    /\ catalog = [t \in Tools |-> catalog[t]]
    /\ schemas = [t \in Tools |-> schemas[t]]
    /\ extension = [t \in Tools |-> extension[t]]
    /\ sup = [t \in Tools |-> sup[t]]

\* The invariant is a conjunction over the tools.
LEMMA InvByTool == Inv <=> RestOK /\ Domains /\ \A t \in Tools : ToolInv(t)
BY DEF Inv, TypeOK, RecordsAgree, SupervisorUpToDate, RestOK, Domains,
       ToolInv, SupRecords, OnlyDrains

\* A step that touches the records of tool t alone, and keeps its part.
TouchesOnly(t) ==
    /\ \E c \in ToolConfigs \cup {NoTool} : catalog' = [catalog EXCEPT ![t] = c]
    /\ \E e \in Endpoints \cup {NoTool} : schemas' = [schemas EXCEPT ![t] = e]
    /\ \E c \in ToolConfigs \cup {NoTool} :
           extension' = [extension EXCEPT ![t] = c]
    /\ \E r \in SupRecords : sup' = [sup EXCEPT ![t] = r]

\* Such a step keeps the invariant.
LEMMA OneToolStep ==
    ASSUME Inv, NEW t \in Tools, TouchesOnly(t), ToolInv(t)', RestOK'
    PROVE  Inv'
<1>1. Domains /\ \A u \in Tools : ToolInv(u)
  BY InvByTool
<1>2. Domains'
  BY <1>1 DEF Domains, TouchesOnly
<1>3. ASSUME NEW u \in Tools, u # t
      PROVE  ToolInv(u)'
  <2>1. /\ catalog'[u] = catalog[u]
        /\ schemas'[u] = schemas[u]
        /\ extension'[u] = extension[u]
        /\ sup'[u] = sup[u]
    BY <1>1, <1>3 DEF TouchesOnly, Domains
  <2> QED BY <1>1, <2>1 DEF ToolInv, Has
<1>4. \A u \in Tools : ToolInv(u)'
  BY <1>3
<1>5. TypeOK'
  BY <1>2, <1>4 DEF TypeOK, RestOK, Domains, ToolInv, SupRecords
<1>6. RecordsAgree'
  BY <1>4 DEF RecordsAgree, ToolInv, Has
<1>7. SupervisorUpToDate'
  BY <1>4 DEF SupervisorUpToDate, ToolInv, OnlyDrains
<1> QED BY <1>5, <1>6, <1>7 DEF Inv

----------------------------------------------------------------------------
(* The steps.                                                              *)

\* The initial state: nothing is registered.
LEMMA InitInv == Init => Inv
<1> SUFFICES ASSUME Init PROVE Inv
  OBVIOUS
<1>1. RestOK /\ Domains
  BY DEF Init, RestOK, Domains
<1>2. ASSUME NEW t \in Tools PROVE ToolInv(t)
  <2>1. /\ catalog[t] = NoTool /\ schemas[t] = NoTool
        /\ extension[t] = NoTool /\ sup[t] = NoSup
    BY DEF Init
  <2> QED BY <2>1, NewSupOK DEF ToolInv, Has, NoSup
<1> QED BY <1>1, <1>2, InvByTool

\* Installing a definition: a new supervisor has everything to learn, and a
\* failed spawn leaves the tool in the catalog and in the extension.
LEMMA InstallInv ==
    ASSUME Inv, NEW t \in Tools, NEW tool \in ToolConfigs, Install(t, tool),
           RestOK'
    PROVE  Inv'
<1>0. Domains
  BY InvByTool
<1>1. PICK new \in {NewSup, NoSup} : sup' = [sup EXCEPT ![t] = new]
  BY DEF Install, Put, FetchAndCache, SetMetadata,
       SpawnSupervisor, RegisterConfig
<1>2. PICK fetched \in {tool.endpoint, NoTool} :
          schemas' = [schemas EXCEPT ![t] = fetched]
  BY DEF Install, Put, FetchAndCache, SetMetadata,
       SpawnSupervisor, RegisterConfig
<1>3. /\ catalog'[t] = tool
      /\ extension'[t] = tool
      /\ schemas'[t] = fetched
      /\ sup'[t] = new
  BY <1>0, <1>1, <1>2 DEF Install, Put, FetchAndCache, SetMetadata,
       SpawnSupervisor, RegisterConfig, Domains
<1>4. TouchesOnly(t)
  BY <1>1, <1>2, NewSupOK, ConfigFields
     DEF TouchesOnly, Install, Put, FetchAndCache, SetMetadata,
         SpawnSupervisor, RegisterConfig
<1>5. ~(new.up /\ OnlyDrains(new.mailbox))
  BY DEF NewSup, NoSup, OnlyDrains
<1>6. ToolInv(t)'
  BY <1>3, <1>5, NewSupOK, ConfigFields DEF ToolInv, Has
<1> QED BY <1>4, <1>6, OneToolStep

\* Publishing a definition: a running supervisor has a refresh to handle.
LEMMA PublishInv ==
    ASSUME Inv, NEW t \in Tools, NEW tool \in ToolConfigs, Publish(t, tool),
           Has(t), RestOK'
    PROVE  Inv'
<1>0. Domains /\ ToolInv(t)
  BY InvByTool
<1> DEFINE told == [sup[t] EXCEPT !.mailbox = Append(@, "RefreshToolConfig")]
           new == IF sup[t].up THEN told ELSE sup[t]
<1>1. /\ told \in SupRecords
      /\ told.up = sup[t].up
      /\ told.mailbox = Append(sup[t].mailbox, "RefreshToolConfig")
  BY <1>0, SupAppend DEF ToolInv, SupMessages
<1>2. sup' = [sup EXCEPT ![t] = new]
  BY <1>0 DEF Publish, UpdateTool,
       RegisterConfig, NotifySupervisor, Domains
<1> HIDE DEF told
<1>3. new \in SupRecords
  BY <1>0, <1>1 DEF ToolInv
<1>4. ~(new.up /\ OnlyDrains(new.mailbox))
  <2>1. CASE sup[t].up
    <3>1. sup[t].mailbox \in Seq(SupMessages)
      BY <1>0 DEF ToolInv, SupRecords
    <3>2. ~OnlyDrains(told.mailbox)
      BY <1>1, <3>1, OnlyDrainsAppend DEF SupMessages
    <3> QED BY <2>1, <3>2
  <2>2. CASE ~sup[t].up
    BY <2>2
  <2> QED BY <2>1, <2>2
<1> HIDE DEF new
<1>5. /\ catalog'[t] = tool
      /\ extension'[t] = tool
      /\ schemas'[t] = schemas[t]
      /\ sup'[t] = new
  BY <1>0, <1>2 DEF Publish, UpdateTool,
       RegisterConfig, NotifySupervisor, Domains
<1>6. TouchesOnly(t)
  <2>1. schemas' = [schemas EXCEPT ![t] = schemas[t]]
    BY <1>0 DEF Publish, UpdateTool,
       RegisterConfig, NotifySupervisor, Domains
  <2> QED BY <1>0, <1>2, <1>3, <2>1 DEF TouchesOnly, Publish, UpdateTool,
       RegisterConfig, NotifySupervisor, ToolInv
<1>7. ToolInv(t)'
  BY <1>0, <1>3, <1>4, <1>5, ConfigFields DEF ToolInv, Has
<1> QED BY <1>6, <1>7, OneToolStep

\* A step of the supervisor of t: its record alone changes.
LEMMA SupStepInv ==
    ASSUME Inv, NEW t \in Tools, NEW r \in SupRecords,
           sup' = [sup EXCEPT ![t] = r],
           UNCHANGED <<catalog, schemas, extension, snapshot, updates, asked>>,
           r.up = sup[t].up,
           r.up /\ OnlyDrains(r.mailbox) => r.tool = extension[t]
    PROVE  Inv'
<1>0. Domains /\ ToolInv(t) /\ RestOK
  BY InvByTool
<1>1. sup'[t] = r
  BY <1>0 DEF Domains
<1>2. RestOK'
  BY <1>0 DEF RestOK
<1>3. TouchesOnly(t)
  <2>1. /\ catalog' = [catalog EXCEPT ![t] = catalog[t]]
        /\ schemas' = [schemas EXCEPT ![t] = schemas[t]]
        /\ extension' = [extension EXCEPT ![t] = extension[t]]
    BY <1>0 DEF Domains
  <2> QED BY <1>0, <2>1 DEF TouchesOnly, ToolInv
<1>4. ToolInv(t)'
  BY <1>0, <1>1 DEF ToolInv, Has
<1> QED BY <1>2, <1>3, <1>4, OneToolStep

\* Every step of the registrar, the supervisors and the health checker keeps
\* the invariant.
LEMMA NextInv ==
    ASSUME Inv, [Next]_vars
    PROVE  Inv'
<1>0. /\ RestOK
      /\ Domains
      /\ \A t \in Tools : ToolInv(t)
  BY InvByTool
<1>1. ASSUME NEW t \in Tools, HandleRegisterTool(t)
      PROVE  Inv'
  <2>1. RestOK'
    BY <1>0, <1>1 DEF HandleRegisterTool, RestOK
  <2>2. PICK tool \in ToolConfigs : Install(t, Registered(t, tool))
    BY <1>1 DEF HandleRegisterTool
  <2>3. Registered(t, tool) \in ToolConfigs
    BY RegisteredOK
  <2> QED BY <2>1, <2>2, <2>3, InstallInv
<1>2. ASSUME NEW t \in Tools, HandleBootstrapTools(t)
      PROVE  Inv'
  <2>1. RestOK'
    BY <1>0, <1>2 DEF HandleBootstrapTools, RestOK
  <2>2. PICK tool \in ToolConfigs : Install(t, tool)
    BY <1>2 DEF HandleBootstrapTools
  <2> QED BY <2>1, <2>2, InstallInv
<1>3. ASSUME NEW t \in Tools, HandleUpdateTool(t)
      PROVE  Inv'
  <2>1. RestOK' /\ Has(t)
    BY <1>0, <1>3 DEF HandleUpdateTool, RestOK
  <2>2. PICK tool \in ToolConfigs : Publish(t, Updated(catalog[t], tool))
    BY <1>3 DEF HandleUpdateTool
  <2>3. Updated(catalog[t], tool) \in ToolConfigs
    BY <1>0, <2>1, UpdatedOK DEF ToolInv, Has
  <2> QED BY <2>1, <2>2, <2>3, PublishInv
<1>4. ASSUME NEW t \in Tools, HandleDisableTool(t)
      PROVE  Inv'
  <2>1. RestOK' /\ Has(t)
    BY <1>0, <1>4 DEF HandleDisableTool, RestOK
  <2>2. [catalog[t] EXCEPT !.state = "disabled"] \in ToolConfigs
    BY <1>0, <2>1, WithState DEF ToolInv, Has, ToolStates
  <2> QED BY <1>4, <2>1, <2>2, PublishInv DEF HandleDisableTool
<1>5. ASSUME NEW t \in Tools, HandleEnableTool(t)
      PROVE  Inv'
  <2>1. RestOK' /\ Has(t)
    BY <1>0, <1>5 DEF HandleEnableTool, RestOK
  <2>2. [catalog[t] EXCEPT !.state = "enabled"] \in ToolConfigs
    BY <1>0, <2>1, WithState DEF ToolInv, Has, ToolStates
  <2> QED BY <1>5, <2>1, <2>2, PublishInv DEF HandleEnableTool
<1>6. ASSUME NEW t \in Tools, HandleRemoveTool(t)
      PROVE  Inv'
  <2>1. RestOK'
    BY <1>0, <1>6 DEF HandleRemoveTool, Remove,
       StopSupervisorIfExists, RemoveConfig, RestOK
  <2>2. TouchesOnly(t)
    BY <1>6, NewSupOK DEF HandleRemoveTool, Remove,
       StopSupervisorIfExists, RemoveConfig, TouchesOnly
  <2>3. /\ catalog'[t] = NoTool /\ schemas'[t] = NoTool
        /\ extension'[t] = NoTool /\ sup'[t] = NoSup
    BY <1>0, <1>6 DEF HandleRemoveTool, Remove,
       StopSupervisorIfExists, RemoveConfig, Domains
  <2>4. ToolInv(t)'
    BY <2>3, NewSupOK DEF ToolInv, Has, NoSup
  <2> QED BY <2>1, <2>2, <2>4, OneToolStep
<1>7. ASSUME NEW t \in Tools, HandleDrainTool(t)
      PROVE  Inv'
  <2> DEFINE r == [sup[t] EXCEPT !.mailbox = Append(@, "DrainTool")]
  <2>1. /\ r \in SupRecords
        /\ r.up = sup[t].up
        /\ r.tool = sup[t].tool
        /\ r.mailbox = Append(sup[t].mailbox, "DrainTool")
    BY <1>0, SupAppend DEF ToolInv, SupMessages
  <2>2. sup' = [sup EXCEPT ![t] = r]
    BY <1>0, <1>7 DEF HandleDrainTool, Domains
  <2> HIDE DEF r
  <2>3. r.up /\ OnlyDrains(r.mailbox) => r.tool = extension[t]
    BY <1>0, <2>1, OnlyDrainsAppend DEF ToolInv, SupRecords, SupMessages
  <2> QED BY <1>7, <2>1, <2>2, <2>3, SupStepInv DEF HandleDrainTool
<1>8. ASSUME NEW t \in Tools, HandleUpdateToolHealth(t)
      PROVE  Inv'
  <2>1. RestOK'
    BY <1>0, <1>8 DEF HandleUpdateToolHealth, RestOK
  <2> DEFINE c == IF Has(t) THEN [catalog[t] EXCEPT !.state = updates[t]]
                  ELSE catalog[t]
  <2>2. catalog' = [catalog EXCEPT ![t] = c]
    BY <1>0, <1>8 DEF HandleUpdateToolHealth, Domains
  <2>3. updates[t] \in ToolStates
    BY <1>0, <1>8 DEF HandleUpdateToolHealth, RestOK
  <2>4. /\ c \in ToolConfigs \cup {NoTool}
        /\ c # NoTool <=> Has(t)
        /\ Has(t) => /\ c.kind = catalog[t].kind
                     /\ c.endpoint = catalog[t].endpoint
    BY <1>0, <2>3, WithState, ConfigFields DEF ToolInv, Has
  <2> HIDE DEF c
  <2>5. catalog'[t] = c
    BY <1>0, <2>2 DEF Domains
  <2>6. /\ schemas' = [schemas EXCEPT ![t] = schemas[t]]
        /\ extension' = [extension EXCEPT ![t] = extension[t]]
        /\ sup' = [sup EXCEPT ![t] = sup[t]]
    BY <1>0, <1>8 DEF HandleUpdateToolHealth, Domains
  <2>7. TouchesOnly(t)
    BY <1>0, <2>2, <2>4, <2>6 DEF TouchesOnly, ToolInv
  <2>8. ToolInv(t)'
    BY <1>0, <1>8, <2>4, <2>5 DEF ToolInv, Has, HandleUpdateToolHealth
  <2> QED BY <2>1, <2>7, <2>8, OneToolStep
<1>9. ASSUME NEW t \in Tools, SupHandle(t)
      PROVE  Inv'
  <2>1. /\ sup[t] \in SupRecords
        /\ sup[t].mailbox \in Seq(SupMessages)
        /\ sup[t].mailbox # <<>>
        /\ Tail(sup[t].mailbox) \in Seq(SupMessages)
    BY <1>0, <1>9, OnlyDrainsTail
       DEF ToolInv, SupRecords, SupHandle, SupPostStart, GetConfig,
           SupRefreshToolConfig, SupDrainTool, Receives
  <2>2. sup[t].up => extension[t] # NoTool
    BY <1>0 DEF ToolInv
  <2>3. CASE SupPostStart(t)
    <3> DEFINE r == [sup[t] EXCEPT !.tool = extension[t],
                                   !.mailbox = Tail(@)]
    <3>1. sup' = [sup EXCEPT ![t] = r]
      BY <1>0, <2>3 DEF SupPostStart, GetConfig, Domains
    <3>2. r \in SupRecords /\ r.up = sup[t].up /\ r.tool = extension[t]
      BY <1>0, <2>1 DEF SupRecords, ToolInv
    <3> HIDE DEF r
    <3> QED BY <2>3, <3>1, <3>2, SupStepInv DEF SupPostStart, GetConfig
  <2>4. CASE SupRefreshToolConfig(t)
    <3> DEFINE known == IF extension[t] = NoTool THEN sup[t].tool
                        ELSE extension[t]
               still == /\ sup[t].draining
                        /\ \/ extension[t] = NoTool
                           \/ extension[t].state # "enabled"
               r == [sup[t] EXCEPT !.mailbox = Tail(@), !.tool = known,
                                   !.draining = still]
    <3>1. sup' = [sup EXCEPT ![t] = r]
      BY <1>0, <2>4 DEF SupRefreshToolConfig, GetConfig, Domains
    <3>2. known \in ToolConfigs \cup {NoTool} /\ still \in BOOLEAN
      BY <1>0, <2>1 DEF SupRecords, ToolInv
    <3>3. sup[t].up => known = extension[t]
      BY <2>2
    <3> HIDE DEF known, still
    <3>4. r \in SupRecords /\ r.up = sup[t].up /\ r.tool = known
      BY <2>1, <3>2 DEF SupRecords
    <3> HIDE DEF r
    <3> QED
      BY <2>4, <3>1, <3>3, <3>4, SupStepInv DEF SupRefreshToolConfig, GetConfig
  <2>5. CASE SupDrainTool(t)
    <3> DEFINE r == [sup[t] EXCEPT !.mailbox = Tail(@), !.draining = TRUE]
    <3>1. sup' = [sup EXCEPT ![t] = r]
      BY <1>0, <2>5 DEF SupDrainTool, Domains
    <3>2. /\ r \in SupRecords
          /\ r.up = sup[t].up
          /\ r.tool = sup[t].tool
          /\ r.mailbox = Tail(sup[t].mailbox)
      BY <2>1 DEF SupRecords
    <3>3. Head(sup[t].mailbox) = "DrainTool"
      BY <2>5 DEF SupDrainTool, Receives
    <3> HIDE DEF r
    <3>4. r.up /\ OnlyDrains(r.mailbox) => r.tool = extension[t]
      BY <1>0, <2>1, <3>2, <3>3, OnlyDrainsTail DEF ToolInv
    <3> QED BY <2>5, <3>1, <3>2, <3>4, SupStepInv DEF SupDrainTool
  <2> QED BY <1>9, <2>3, <2>4, <2>5 DEF SupHandle
<1>10. ASSUME UNCHANGED <<catalog, schemas, extension, sup>>, RestOK'
       PROVE  Inv'
  BY <1>10 DEF Inv, TypeOK, RecordsAgree, SupervisorUpToDate, RestOK, Has
<1>11. CASE HealthList
  <2>1. RestOK'
    BY <1>0, <1>11 DEF HealthList, RoundDue, RestOK, ToolInv
  <2> QED BY <1>10, <1>11, <2>1 DEF HealthList, RoundDue
<1>12. ASSUME NEW t \in Tools, HealthProbe(t)
       PROVE  Inv'
  <2>1. ProbeResults(t) \subseteq ToolStates
    BY <1>0, <1>12, ConfigFields
       DEF ProbeResults, HealthProbe, RestOK, ToolStates
  <2>2. RestOK'
    BY <1>0, <1>12, <2>1 DEF HealthProbe, RestOK
  <2> QED BY <1>10, <1>12, <2>2 DEF HealthProbe
<1>13. CASE UNCHANGED vars
  BY <1>0, <1>10, <1>13 DEF vars, RestOK
<1> QED
  BY <1>1, <1>2, <1>3, <1>4, <1>5, <1>6, <1>7, <1>8, <1>9, <1>11, <1>12,
     <1>13 DEF Next

\* The catalog, the extension and the set of supervisors stay together in
\* every reachable state (registrar.go).
THEOREM RecordsStayTogether == Spec => []RecordsAgree
<1>1. Inv => RecordsAgree
  BY DEF Inv
<1>2. Inv /\ [Next]_vars => Inv'
  BY NextInv
<1> QED BY <1>1, <1>2, InitInv, PTL DEF Spec

\* No refresh is lost, whatever the registrar does while a supervisor is busy
\* (registrar.go, notifySupervisor; tool_supervisor.go,
\* handleRefreshToolConfig).
THEOREM NoRefreshLost == Spec => []SupervisorUpToDate
<1>1. Inv => SupervisorUpToDate
  BY DEF Inv
<1>2. Inv /\ [Next]_vars => Inv'
  BY NextInv
<1> QED BY <1>1, <1>2, InitInv, PTL DEF Spec

\* Every variable keeps its type.
THEOREM TypeCorrect == Spec => []TypeOK
<1>1. Inv => TypeOK
  BY DEF Inv
<1>2. Inv /\ [Next]_vars => Inv'
  BY NextInv
<1> QED BY <1>1, <1>2, InitInv, PTL DEF Spec

----------------------------------------------------------------------------
(* The schemas and resources of the catalog.                               *)

\* What SchemasOfBackend says of one tool.
FetchedHere(t) ==
    schemas[t] # NoTool =>
        /\ Has(t)
        /\ catalog[t].kind # "grpc" => schemas[t] = catalog[t].endpoint

\* A step that changes the entry of one tool, and leaves it with schemas of
\* its own backend or with none.
LEMMA OneEntryStep ==
    ASSUME Inv, SchemasOfBackend, NEW t \in Tools, NEW c, NEW m,
           catalog' = [catalog EXCEPT ![t] = c],
           schemas' = [schemas EXCEPT ![t] = m],
           m # NoTool => c # NoTool /\ (c.kind # "grpc" => m = c.endpoint)
    PROVE  SchemasOfBackend'
<1> SUFFICES ASSUME NEW u \in Tools PROVE FetchedHere(u)'
  BY DEF SchemasOfBackend, FetchedHere, Has
<1>1. CASE u = t
  BY <1>1 DEF Inv, TypeOK, FetchedHere, Has
<1>2. CASE u # t
  BY <1>2 DEF Inv, TypeOK, SchemasOfBackend, FetchedHere, Has
<1> QED BY <1>1, <1>2

\* A new entry has what was fetched for it, or nothing.
LEMMA InstallFetched ==
    ASSUME Inv, SchemasOfBackend, NEW t \in Tools, NEW tool \in ToolConfigs,
           Install(t, tool)
    PROVE  SchemasOfBackend'
<1>1. PICK m \in {tool.endpoint, NoTool} :
          schemas' = [schemas EXCEPT ![t] = m]
  BY DEF Install, FetchAndCache, SetMetadata
<1>2. catalog' = [catalog EXCEPT ![t] = tool] /\ tool # NoTool
  BY ConfigFields DEF Install, Put
<1> QED BY <1>1, <1>2, OneEntryStep

\* An entry that keeps its schemas keeps its transport, and its endpoint
\* unless that is a gRPC backend's.
LEMMA EntryKept ==
    ASSUME Inv, SchemasOfBackend, NEW t \in Tools, NEW tool \in ToolConfigs,
           Has(t), tool.kind = catalog[t].kind,
           tool.kind # "grpc" => tool.endpoint = catalog[t].endpoint,
           catalog' = [catalog EXCEPT ![t] = tool], UNCHANGED schemas
    PROVE  SchemasOfBackend'
<1>1. schemas' = [schemas EXCEPT ![t] = schemas[t]]
  BY DEF Inv, TypeOK
<1>2. tool # NoTool
  BY ConfigFields
<1>3. schemas[t] # NoTool /\ tool.kind # "grpc" => schemas[t] = tool.endpoint
  BY DEF SchemasOfBackend
<1> QED BY <1>1, <1>2, <1>3, OneEntryStep

LEMMA NextFetched ==
    ASSUME Inv, SchemasOfBackend, [Next]_vars
    PROVE  SchemasOfBackend'
<1>0. \A t \in Tools : Has(t) => catalog[t] \in ToolConfigs
  BY DEF Inv, TypeOK, Has
<1>1. ASSUME NEW t \in Tools, HandleRegisterTool(t)
      PROVE  SchemasOfBackend'
  BY <1>1, InstallFetched, RegisteredOK DEF HandleRegisterTool
<1>2. ASSUME NEW t \in Tools, HandleBootstrapTools(t)
      PROVE  SchemasOfBackend'
  BY <1>2, InstallFetched DEF HandleBootstrapTools
<1>3. ASSUME NEW t \in Tools, HandleUpdateTool(t)
      PROVE  SchemasOfBackend'
  <2>1. PICK tool \in ToolConfigs :
            UpdateTool(t, Updated(catalog[t], tool))
    BY <1>3 DEF HandleUpdateTool, Publish
  <2>2. Has(t) /\ Updated(catalog[t], tool) \in ToolConfigs
    BY <1>0, <1>3, UpdatedOK DEF HandleUpdateTool
  <2>3. LET new == Updated(catalog[t], tool) IN
            /\ new.kind = catalog[t].kind
            /\ new.kind # "grpc" => new.endpoint = catalog[t].endpoint
    BY DEF Updated
  <2> QED BY <2>1, <2>2, <2>3, EntryKept DEF UpdateTool
<1>4. ASSUME NEW t \in Tools, NEW st \in ToolStates, Has(t),
             catalog' = [catalog EXCEPT ![t] = [catalog[t] EXCEPT !.state = st]],
             UNCHANGED schemas
      PROVE  SchemasOfBackend'
  BY <1>0, <1>4, WithState, EntryKept
<1>5. ASSUME NEW t \in Tools, HandleDisableTool(t) \/ HandleEnableTool(t)
      PROVE  SchemasOfBackend'
  BY <1>4, <1>5 DEF HandleDisableTool, HandleEnableTool, Publish, UpdateTool,
                    ToolStates
<1>6. ASSUME NEW t \in Tools, HandleRemoveTool(t)
      PROVE  SchemasOfBackend'
  BY <1>6, OneEntryStep DEF HandleRemoveTool, Remove
<1>7. ASSUME NEW t \in Tools, HandleUpdateToolHealth(t)
      PROVE  SchemasOfBackend'
  <2>1. updates[t] \in ToolStates /\ UNCHANGED schemas
    BY <1>7 DEF HandleUpdateToolHealth, Inv, TypeOK
  <2>2. CASE Has(t)
    <3>1. catalog' = [catalog EXCEPT ![t] =
                         [catalog[t] EXCEPT !.state = updates[t]]]
      BY <1>7, <2>2 DEF HandleUpdateToolHealth
    <3> QED BY <1>4, <2>1, <2>2, <3>1
  <2>3. CASE ~Has(t)
    BY <1>7, <2>1, <2>3 DEF HandleUpdateToolHealth, SchemasOfBackend, Has
  <2> QED BY <2>2, <2>3
<1>8. ASSUME UNCHANGED <<catalog, schemas>>
      PROVE  SchemasOfBackend'
  BY <1>8 DEF SchemasOfBackend, Has
<1>9. ASSUME NEW t \in Tools,
             HandleDrainTool(t) \/ SupHandle(t) \/ HealthProbe(t)
      PROVE  SchemasOfBackend'
  BY <1>8, <1>9 DEF HandleDrainTool, SupHandle, SupPostStart,
                    SupRefreshToolConfig, SupDrainTool, HealthProbe
<1>10. CASE HealthList
  BY <1>8, <1>10 DEF HealthList
<1>11. CASE UNCHANGED vars
  BY <1>8, <1>11 DEF vars
<1> QED
  BY <1>1, <1>2, <1>3, <1>5, <1>6, <1>7, <1>9, <1>10, <1>11 DEF Next

\* The schemas and resources served for a tool are of the backend its
\* definition names, for any tools and backends, whichever fetches fail
\* (registrar_catalog.go, Put, UpdateTool and Remove).
THEOREM SchemasCurrent == Spec => []SchemasOfBackend
<1>1. Init => SchemasOfBackend
  BY DEF Init, SchemasOfBackend
<1>2. Inv /\ SchemasOfBackend /\ [Next]_vars => Inv' /\ SchemasOfBackend'
  BY NextInv, NextFetched
<1> QED BY <1>1, <1>2, InitInv, PTL DEF Spec

----------------------------------------------------------------------------
(* Disabled tools, when no health checker runs.                            *)

\* Without health checks, the catalog and the extension hold what the operator
\* asked for.
Quiet ==
    \A t \in Tools :
        /\ snapshot[t] = NoTool
        /\ updates[t] = NoTool
        /\ asked[t] => /\ Has(t)
                       /\ catalog[t].state = "disabled"
                       /\ extension[t].state = "disabled"

\* A step that replaces the definition of t keeps this, if a tool that is to
\* be disabled gets a disabled definition.
LEMMA QuietReplace ==
    ASSUME Inv, Quiet, NEW t \in Tools, NEW tool \in ToolConfigs, NEW a,
           catalog' = [catalog EXCEPT ![t] = tool],
           extension' = [extension EXCEPT ![t] = tool],
           asked' = [asked EXCEPT ![t] = a],
           UNCHANGED <<snapshot, updates>>,
           a => tool.state = "disabled"
    PROVE  Quiet'
<1>0. Domains /\ asked \in [Tools -> BOOLEAN]
  BY InvByTool DEF RestOK
<1>1. ASSUME NEW u \in Tools, asked'[u]
      PROVE  /\ catalog'[u] # NoTool
             /\ catalog'[u].state = "disabled"
             /\ extension'[u].state = "disabled"
  <2>1. CASE u = t
    BY <1>0, <1>1, <2>1, ConfigFields DEF Domains
  <2>2. CASE u # t
    BY <1>0, <1>1, <2>2 DEF Domains, Quiet, Has
  <2> QED BY <2>1, <2>2
<1> QED BY <1>1 DEF Quiet, Has

\* Without health checks every step keeps this.
LEMMA NextQuiet ==
    ASSUME ~HealthProbing, Inv, Quiet, [Next]_vars
    PROVE  Quiet'
<1>0. /\ Domains
      /\ asked \in [Tools -> BOOLEAN]
      /\ \A t \in Tools : ToolInv(t)
  BY InvByTool DEF RestOK
<1>1. ASSUME NEW t \in Tools, HandleRegisterTool(t)
      PROVE  Quiet'
  <2>1. PICK tool \in ToolConfigs :
            /\ Install(t, Registered(t, tool))
            /\ asked' = [asked EXCEPT ![t] = @ \/ tool.state = "disabled"]
    BY <1>1 DEF HandleRegisterTool
  <2>2. asked' = [asked EXCEPT ![t] = asked[t] \/ tool.state = "disabled"]
    BY <2>1
  <2>3. Registered(t, tool) \in ToolConfigs
    BY RegisteredOK
  <2>4. asked[t] \/ tool.state = "disabled"
            => Registered(t, tool).state = "disabled"
    BY DEF Registered, Quiet, ToolConfigs
  <2> QED
    BY <1>1, <2>1, <2>2, <2>3, <2>4, QuietReplace
       DEF HandleRegisterTool, Install, Put, FetchAndCache, SetMetadata,
       SpawnSupervisor, RegisterConfig
<1>2. ASSUME NEW t \in Tools, HandleBootstrapTools(t)
      PROVE  Quiet'
  <2>1. PICK tool \in ToolConfigs :
            /\ Install(t, tool)
            /\ asked' = [asked EXCEPT ![t] = (tool.state = "disabled")]
    BY <1>2 DEF HandleBootstrapTools
  <2> DEFINE a == tool.state = "disabled"
  <2>2. asked' = [asked EXCEPT ![t] = a]
    BY <2>1
  <2>3. a => tool.state = "disabled"
    OBVIOUS
  <2> HIDE DEF a
  <2>4. /\ catalog' = [catalog EXCEPT ![t] = tool]
        /\ extension' = [extension EXCEPT ![t] = tool]
        /\ UNCHANGED <<snapshot, updates>>
    BY <1>2, <2>1 DEF HandleBootstrapTools, Install, Put, FetchAndCache,
       SetMetadata, SpawnSupervisor, RegisterConfig
  <2> QED BY <2>2, <2>3, <2>4, QuietReplace
<1>3. ASSUME NEW t \in Tools, HandleUpdateTool(t)
      PROVE  Quiet'
  <2>1. PICK tool \in ToolConfigs : Publish(t, Updated(catalog[t], tool))
    BY <1>3 DEF HandleUpdateTool
  <2>2. Updated(catalog[t], tool) \in ToolConfigs
    BY <1>0, <1>3, UpdatedOK DEF ToolInv, HandleUpdateTool, Has
  <2>3. asked' = [asked EXCEPT ![t] = asked[t]]
    BY <1>0, <1>3 DEF HandleUpdateTool
  <2>4. asked[t] => Updated(catalog[t], tool).state = "disabled"
    BY DEF Quiet, Updated
  <2> QED
    BY <1>3, <2>1, <2>2, <2>3, <2>4, QuietReplace
       DEF HandleUpdateTool, Publish, UpdateTool,
       RegisterConfig, NotifySupervisor
<1>4. ASSUME NEW t \in Tools, HandleDisableTool(t)
      PROVE  Quiet'
  <2> DEFINE tool == [catalog[t] EXCEPT !.state = "disabled"]
  <2>1. catalog[t] \in ToolConfigs
    BY <1>0, <1>4 DEF ToolInv, HandleDisableTool, Has
  <2>2. tool \in ToolConfigs /\ tool.state = "disabled"
    BY <2>1 DEF ToolConfigs, ToolStates
  <2>3. /\ Publish(t, tool)
        /\ asked' = [asked EXCEPT ![t] = TRUE]
        /\ UNCHANGED <<snapshot, updates>>
    BY <1>4 DEF HandleDisableTool
  <2> HIDE DEF tool
  <2> QED BY <2>2, <2>3, QuietReplace DEF Publish, UpdateTool,
       RegisterConfig, NotifySupervisor
<1>5. ASSUME NEW t \in Tools, HandleEnableTool(t)
      PROVE  Quiet'
  <2> DEFINE tool == [catalog[t] EXCEPT !.state = "enabled"]
  <2>1. catalog[t] \in ToolConfigs
    BY <1>0, <1>5 DEF ToolInv, HandleEnableTool, Has
  <2>2. tool \in ToolConfigs
    BY <2>1 DEF ToolConfigs, ToolStates
  <2>3. /\ Publish(t, tool)
        /\ asked' = [asked EXCEPT ![t] = FALSE]
        /\ UNCHANGED <<snapshot, updates>>
    BY <1>5 DEF HandleEnableTool
  <2> HIDE DEF tool
  <2> QED BY <2>2, <2>3, QuietReplace DEF Publish, UpdateTool,
       RegisterConfig, NotifySupervisor
<1>6. ASSUME NEW t \in Tools, HandleRemoveTool(t)
      PROVE  Quiet'
  BY <1>0, <1>6 DEF HandleRemoveTool, Remove,
       StopSupervisorIfExists, RemoveConfig, Quiet, Has, Domains
<1>7. ASSUME NEW t \in Tools, HandleDrainTool(t) \/ SupHandle(t)
      PROVE  Quiet'
  BY <1>7 DEF HandleDrainTool, SupHandle, SupPostStart, GetConfig,
     SupRefreshToolConfig, SupDrainTool, Quiet, Has
<1>8. ASSUME NEW t \in Tools, HandleUpdateToolHealth(t) \/ HealthProbe(t)
      PROVE  Quiet'
  BY <1>8 DEF HandleUpdateToolHealth, HealthProbe, Quiet
<1>9. CASE HealthList
  BY <1>9 DEF HealthList, RoundDue
<1>10. CASE UNCHANGED vars
  BY <1>10 DEF vars, Quiet, Has
<1> QED
  BY <1>1, <1>2, <1>3, <1>4, <1>5, <1>6, <1>7, <1>8, <1>9, <1>10 DEF Next

\* A disabled tool stays disabled through every registration, update, refresh
\* and respawn (registrar.go, handleDisableTool and handleRegisterTool), as
\* long as no health checker runs.  The one with health probing enabled is
\* refuted by a run.
THEOREM DisabledHoldsWithoutProbing ==
    ASSUME ~HealthProbing
    PROVE  Spec => []DisabledHolds
<1>1. Init => Inv /\ Quiet
  BY InitInv DEF Init, Quiet
<1>2. Inv /\ Quiet /\ [Next]_vars => Inv' /\ Quiet'
  BY NextInv, NextQuiet
<1>3. Inv /\ Quiet => DisabledHolds
  BY DEF Inv, Quiet, SupervisorUpToDate, DisabledHolds
<1> QED BY <1>1, <1>2, <1>3, PTL DEF Spec

====
