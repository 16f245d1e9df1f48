--------------------------- MODULE StartUpProofs ---------------------------
(***************************************************************************)
(* The safety properties of StartUp, for any number of processes, handlers *)
(* and migrations.                                                         *)
(***************************************************************************)
EXTENDS StartUp, TLAPS

\* The migrations: what a transaction has read is not ahead of the table, only
\* a process that opens an SQL storage has one, and a process that is past the
\* opening has read that nothing is left to do.
MigrationInv ==
    /\ num <= migrations
    /\ MigrationsInOrder
    /\ \A s \in Servers :
        /\ tx[s] # NoTx => backend = "sql" /\ tx[s] <= num
        /\ registering[s].next # 0 => backend = "kubernetes"
        /\ backend = "sql" /\ stage[s] \in {"opened", "listed", "serving"} => num = migrations

\* The connector objects that may be met under an ID: what was ever written.
Known(id) ==
    {NoConnector, Local} \cup (IF id \in ConnectorIDs THEN written[id] ELSE {})

\* What a call has read was stored since the call began, and what it has got has
\* the version of such an object.
CallInv(c) ==
    /\ c.read \in Known(c.id)
    /\ c.pc \in {"read", "open"} => c.read \in c.during
    /\ c.pc = "called" => Objects[c.id] \in c.during
    /\ c.got # NoConnector =>
          \E o \in c.during : o.version = c.got.version /\ (Distinct(c.id) => o = c.got)

\* The cache, and the calls.
CacheInv ==
    /\ \A id \in Keys : Objects[id] \in Known(id)
    /\ \A s \in Servers, id \in Keys :
          connectors[s][id] \in Known(id) /\ unopened[s][id] \in Known(id)
    /\ \A h \in Handlers : CallInv(call[h])

-----------------------------------------------------------------------------
USE ServersAssumption, MigrationsAssumption, ResourcesAssumption, ConnectorsAssumption

\* Initial states have their types.
LEMMA InitTypeOK == Init => TypeOK
<1> SUFFICES ASSUME Init PROVE TypeOK
  OBVIOUS
<1>1. ProcessTypeOK
  BY DEF Init, ProcessTypeOK, Stages
<1>2. MigrationsTypeOK
  <2>1. table \in BOOLEAN
    BY Zenon DEF Init, MigrationsInit
  <2>2. num \in Nat /\ schema \in Seq(Nat) /\ tx \in [Servers -> Nat \cup {NoTx}]
    BY DEF Init, MigrationsInit
  <2>3. QED BY <2>1, <2>2 DEF MigrationsTypeOK
<1>3. ResourcesTypeOK
  BY DEF Init, ResourcesTypeOK, ResourcesInit, NotRegistering
<1>4. CacheTypeOK
  BY DEF Init, CacheTypeOK, CacheInit, Idle, Calls, ConnectorObjects, NoConnector, Local, Keys,
         LocalConnector, Writable
<1>5. QED BY <1>1, <1>2, <1>3, <1>4 DEF TypeOK

\* Steps of the migrations keep the types and the invariant of the migrations.
LEMMA MigrateStep ==
    ASSUME TypeOK, MigrationInv, NEW s \in Servers, migrate(s), UNCHANGED resourceVars
    PROVE  ProcessTypeOK' /\ MigrationsTypeOK' /\ MigrationInv'
<1> USE DEF TypeOK, ProcessTypeOK, MigrationsTypeOK, ResourcesTypeOK, resourceVars, processVars,
            Stages, NoTx, MigrationInv, MigrationsInOrder, To
<1>1. CASE CreateMigrationTable(s)
  BY <1>1 DEF CreateMigrationTable
<1>2. CASE SelectMax(s)
  BY <1>2 DEF SelectMax
<1>3. CASE Done(s)
  BY <1>3 DEF Done
<1>4. CASE Migrate(s)
  BY <1>4 DEF Migrate
<1>5. CASE MigrateConflict(s)
  BY <1>5 DEF MigrateConflict
<1>6. QED BY <1>1, <1>2, <1>3, <1>4, <1>5 DEF migrate

\* So do the steps of the registration.
LEMMA RegisterStep ==
    ASSUME TypeOK, MigrationInv, NEW s \in Servers,
           registerCustomResources(s) \/ postResourceFails(s), UNCHANGED migrationVars
    PROVE  ProcessTypeOK' /\ ResourcesTypeOK' /\ MigrationInv'
<1> USE DEF TypeOK, ProcessTypeOK, MigrationsTypeOK, ResourcesTypeOK, migrationVars, processVars,
            Stages, NoTx, MigrationInv, MigrationsInOrder, To, NotRegistering
<1>1. CASE StartRegistering(s)
  BY <1>1 DEF StartRegistering
<1>2. CASE postResource(s)
  BY <1>2 DEF postResource
<1>3. CASE EndOfRound(s)
  BY <1>3 DEF EndOfRound
<1>4. CASE postResourceFails(s)
  BY <1>4 DEF postResourceFails, Failure
<1>5. QED BY <1>1, <1>2, <1>3, <1>4 DEF registerCustomResources

\* The steps of a process that do not open the storage.
LEMMA ProcessStep ==
    ASSUME TypeOK, MigrationInv, NEW s \in Servers,
           \/ Start(s) \/ OpenEtcd(s) \/ Exit(s) \/ Stop(s)
           \/ /\ ListConnectors(s, Available) \/ OpenListed(s) \/ Listen(s)
              /\ UNCHANGED <<migrationVars, resourceVars>>
    PROVE  ProcessTypeOK' /\ MigrationsTypeOK' /\ ResourcesTypeOK' /\ MigrationInv'
<1> USE DEF TypeOK, ProcessTypeOK, MigrationsTypeOK, ResourcesTypeOK, migrationVars,
            resourceVars, Stages, NoTx, MigrationInv, MigrationsInOrder, To, NotRegistering
<1>1. CASE Start(s)
  BY <1>1 DEF Start
<1>2. CASE OpenEtcd(s)
  BY <1>2 DEF OpenEtcd
<1>3. CASE Exit(s)
  BY <1>3 DEF Exit, Forgotten
<1>4. CASE Stop(s)
  BY <1>4 DEF Stop, Forgotten, Failure
<1>5. CASE ListConnectors(s, Available) /\ UNCHANGED <<migrationVars, resourceVars>>
  BY <1>5, Zenon DEF ListConnectors
<1>6. CASE OpenListed(s) /\ UNCHANGED <<migrationVars, resourceVars>>
  BY <1>6 DEF OpenListed
<1>7. CASE Listen(s) /\ UNCHANGED <<migrationVars, resourceVars>>
  BY <1>7 DEF Listen
<1>8. QED BY <1>1, <1>2, <1>3, <1>4, <1>5, <1>6, <1>7

\* Steps of handlers and operators touch neither processes nor migrations.
LEMMA FrameStep ==
    ASSUME TypeOK, MigrationInv, UNCHANGED <<processVars, migrationVars, registering>>
    PROVE  ProcessTypeOK' /\ MigrationsTypeOK' /\ ResourcesTypeOK' /\ MigrationInv'
BY DEF TypeOK, ProcessTypeOK, MigrationsTypeOK, ResourcesTypeOK, MigrationInv,
       MigrationsInOrder, processVars, migrationVars

-----------------------------------------------------------------------------
(* The cache.                                                              *)

\* Objects of the storage have their type.
LEMMA ObjectsType == CacheTypeOK => Objects \in [Keys -> ConnectorObjects]
BY DEF CacheTypeOK, Objects, Keys, ConnectorObjects

\* A step that stores nothing new keeps what is known.
LEMMA KnownSame ==
    ASSUME UNCHANGED <<config, stored, written>>
    PROVE  Objects' = Objects /\ \A id : Known(id)' = Known(id) /\ (Distinct(id)' <=> Distinct(id))
BY Zenon DEF Objects, Known, Distinct

\* The calls, after a step that leaves them alone or forgets them.
LEMMA CallsSame ==
    ASSUME CacheInv, UNCHANGED <<config, stored, written>>,
           \A h \in Handlers : call'[h] = call[h] \/ call'[h] = Idle
    PROVE  \A h \in Handlers : CallInv(call[h])'
<1> SUFFICES ASSUME NEW h \in Handlers PROVE CallInv(call[h])'
  OBVIOUS
<1>0. CallInv(call[h])
  BY DEF CacheInv
<1>1. CASE call'[h] = call[h]
  BY <1>0, <1>1, KnownSame, Zenon DEF CallInv
<1>2. CASE call'[h] = Idle
  BY <1>2, KnownSame DEF CallInv, Idle, Known
<1>3. QED BY <1>1, <1>2

\* The processes that list and open connectors.
LEMMA ListStep ==
    ASSUME TypeOK, CacheInv, NEW s \in Servers,
           ListConnectors(s, Available) \/ OpenListed(s)
    PROVE  CacheTypeOK' /\ CacheInv'
<1> USE DEF TypeOK, CacheTypeOK
<1>0. UNCHANGED <<config, stored, writes, written, call>>
  BY DEF ListConnectors, OpenListed
<1>1. CASE ListConnectors(s, Available)
  <2>1. CacheTypeOK'
    BY <1>1, ObjectsType DEF ListConnectors
  <2>2. \A r \in Servers, i \in Keys : connectors'[r][i] \in Known(i) /\ unopened'[r][i] \in Known(i)
    BY <1>1, Zenon DEF ListConnectors, CacheInv
  <2>3. QED BY <1>0, <2>1, <2>2, KnownSame, CallsSame, Zenon DEF CacheInv
<1>2. CASE OpenListed(s)
  <2>1. PICK id \in Keys :
            LET o == unopened[s][id] IN
            /\ o # NoConnector
            /\ unopened' = [unopened EXCEPT ![s] = [@ EXCEPT ![id] = NoConnector]]
            /\ IF o.opens
               THEN connectors' = [connectors EXCEPT ![s] = [@ EXCEPT ![id] = o]] /\ UNCHANGED stage
               ELSE To(s, "failed") /\ UNCHANGED connectors
    BY <1>2, Zenon DEF OpenListed
  <2>2. CacheTypeOK'
    <3>1. NoConnector \in ConnectorObjects
      BY DEF ConnectorObjects
    <3>2. unopened' \in [Servers -> [Keys -> ConnectorObjects]]
      BY <2>1, <3>1
    <3>3. connectors' \in [Servers -> [Keys -> ConnectorObjects]]
      <4>1. CASE unopened[s][id].opens
        <5>1. connectors' = [connectors EXCEPT ![s] = [@ EXCEPT ![id] = unopened[s][id]]]
          BY <2>1, <4>1
        <5>2. unopened[s][id] \in ConnectorObjects
          OBVIOUS
        <5>3. QED BY <5>1, <5>2
      <4>2. CASE ~unopened[s][id].opens
        BY <2>1, <4>2
      <4>3. QED BY <4>1, <4>2
    <3>4. QED BY <1>0, <3>2, <3>3
  <2>3. \A r \in Servers, i \in Keys : connectors'[r][i] \in Known(i) /\ unopened'[r][i] \in Known(i)
    <3> SUFFICES ASSUME NEW r \in Servers, NEW i \in Keys
                 PROVE  connectors'[r][i] \in Known(i) /\ unopened'[r][i] \in Known(i)
      OBVIOUS
    <3>1. unopened'[r][i] \in {NoConnector, unopened[r][i]}
      BY <2>1
    <3>2. connectors'[r][i] \in {connectors[r][i], unopened[s][i]}
      <4>1. CASE unopened[s][id].opens
        <5>1. connectors' = [connectors EXCEPT ![s] = [connectors[s] EXCEPT ![id] = unopened[s][id]]]
          BY <2>1, <4>1
        <5>2. CASE r = s /\ i = id
          BY <5>1, <5>2
        <5>3. CASE ~(r = s /\ i = id)
          BY <5>1, <5>3
        <5>4. QED BY <5>2, <5>3
      <4>2. CASE ~unopened[s][id].opens
        BY <2>1, <4>2
      <4>3. QED BY <4>1, <4>2
    <3>3. NoConnector \in Known(i)
      BY DEF Known
    <3>4. QED BY <3>1, <3>2, <3>3 DEF CacheInv
  <2>4. QED BY <1>0, <2>2, <2>3, KnownSame, CallsSame, Zenon DEF CacheInv
<1>3. QED BY <1>1, <1>2

\* A process that ends forgets its connectors and the calls of its handlers.
LEMMA EndStep ==
    ASSUME TypeOK, CacheInv, NEW s \in Servers, Exit(s) \/ Stop(s)
    PROVE  CacheTypeOK' /\ CacheInv'
<1>0. Forgotten(s) /\ UNCHANGED <<config, stored, writes, written>>
  BY DEF Exit, Stop
<1>1. NoConnector \in ConnectorObjects /\ LocalConnector \in Keys
  BY DEF ConnectorObjects, Keys
<1>2. \A h \in Handlers : call'[h] = call[h] \/ call'[h] = Idle
  BY <1>0 DEF Forgotten
<1>3. CacheTypeOK'
  <2>1. connectors' \in [Servers -> [Keys -> ConnectorObjects]]
    BY <1>0, <1>1 DEF Forgotten, TypeOK, CacheTypeOK
  <2>2. unopened' \in [Servers -> [Keys -> ConnectorObjects]]
    BY <1>0, <1>1 DEF Forgotten, TypeOK, CacheTypeOK
  <2>3. QED BY <1>0, <1>1, <2>1, <2>2 DEF Forgotten, TypeOK, CacheTypeOK, Calls, Idle
<1>4. \A r \in Servers, i \in Keys : connectors'[r][i] \in Known(i) /\ unopened'[r][i] \in Known(i)
  <2>1. \A i \in Keys : NoConnector \in Known(i)
    BY DEF Known
  <2>2. QED BY <1>0, <2>1 DEF Forgotten, TypeOK, CacheTypeOK, CacheInv
<1>5. QED BY <1>0, <1>2, <1>3, <1>4, KnownSame, CallsSame, Zenon DEF CacheInv

\* A step of one handler that keeps the invariant of its call.
LEMMA OneCall ==
    ASSUME CacheInv, NEW h \in Handlers, NEW c, call \in [Handlers -> Calls], c \in Calls,
           call' = [call EXCEPT ![h] = c], UNCHANGED <<config, stored, written>>, CallInv(c)
    PROVE  (\A g \in Handlers : CallInv(call[g])') /\ call' \in [Handlers -> Calls]
<1>0. Objects' = Objects /\ \A id : Known(id)' = Known(id) /\ (Distinct(id)' <=> Distinct(id))
  BY KnownSame
<1>1. ASSUME NEW g \in Handlers PROVE CallInv(call[g])'
  <2>1. PICK d : d = call'[g] /\ CallInv(d)
    BY Zenon DEF CacheInv
  <2>2. QED BY <1>0, <2>1, Zenon DEF CallInv
<1>2. QED BY <1>1

\* The steps of a handler.
LEMMA HandlerStep ==
    ASSUME TypeOK, CacheInv, NEW h \in Handlers, Begin(h) \/ getConnector(h)
    PROVE  CacheTypeOK' /\ CacheInv'
<1> DEFINE s == Host[h]
           id == call[h].id
<1>0. UNCHANGED <<config, stored, writes, written, unopened>>
  BY Zenon DEF Begin, getConnector, GetStored, LookUp, Open, processVars
<1>2. s \in Servers /\ id \in Keys /\ Objects \in [Keys -> ConnectorObjects]
  BY ObjectsType DEF TypeOK, CacheTypeOK, Calls
<1>3. NoConnector \in ConnectorObjects /\ Idle \in Calls /\ CallInv(Idle)
  BY DEF ConnectorObjects, Idle, Calls, Keys, CallInv, Known
<1>4. call \in [Handlers -> Calls] /\ call[h] \in Calls /\ CallInv(call[h])
  BY DEF TypeOK, CacheTypeOK, CacheInv
<1>5. SUFFICES ASSUME NEW c \in Calls, CallInv(c), call' = [call EXCEPT ![h] = c],
                      connectors' \in [Servers -> [Keys -> ConnectorObjects]],
                      \A r \in Servers, i \in Keys : connectors'[r][i] \in Known(i)
               PROVE  CacheTypeOK' /\ CacheInv'
  <2>1. CASE Begin(h)
    <3>1. PICK i \in Keys : call' = [call EXCEPT ![h] = [Idle EXCEPT
              !.pc = "called", !.id = i, !.during = {Objects[i]}]]
      BY <2>1, Zenon DEF Begin
    <3> DEFINE c == [Idle EXCEPT !.pc = "called", !.id = i, !.during = {Objects[i]}]
    <3>2. c \in Calls
      BY <1>2, <1>3, Zenon DEF Calls, Idle
    <3>3. CallInv(c)
      BY DEF CallInv, Idle, Known
    <3>4. UNCHANGED connectors
      BY <2>1, Zenon DEF Begin
    <3>5. QED BY <1>5, <3>1, <3>2, <3>3, <3>4, Zenon DEF TypeOK, CacheTypeOK, CacheInv
  <2>2. CASE GetStored(h)
    <3> DEFINE c == IF Objects[id] = NoConnector THEN Idle
                    ELSE [call[h] EXCEPT !.pc = "read", !.read = Objects[id]]
    <3>1. call[h].pc = "called" /\ call' = [call EXCEPT ![h] = c] /\ UNCHANGED connectors
      BY <2>2 DEF GetStored
    <3>2. c \in Calls
      BY <1>2, <1>3, <1>4 DEF Calls
    <3>3. CallInv(c)
      <4>1. Objects[id] \in Known(id)
        BY <1>2 DEF CacheInv
      <4>2. QED BY <1>2, <1>3, <1>4, <3>1, <4>1 DEF CallInv, Calls
    <3>4. QED BY <1>5, <3>1, <3>2, <3>3, Zenon DEF TypeOK, CacheTypeOK, CacheInv
  <2>3. CASE LookUp(h)
    <3> DEFINE o == connectors[s][id]
    <3>1. call[h].pc = "read" /\ UNCHANGED connectors
      BY <2>3 DEF LookUp
    <3>2. CASE o # NoConnector /\ o.version = call[h].read.version
      <4> DEFINE c == [call[h] EXCEPT !.pc = "returned", !.read = NoConnector, !.got = o]
      <4>1. call' = [call EXCEPT ![h] = c]
        BY <2>3, <3>2 DEF LookUp, Return
      <4>2. c \in Calls
        <5>1. o \in ConnectorObjects
          BY <1>2 DEF TypeOK, CacheTypeOK
        <5>2. QED BY <1>3, <1>4, <5>1, Zenon DEF Calls
      <4>3. Distinct(id) => call[h].read = o
        <5>1. o \in Known(id) /\ call[h].read \in Known(id)
          BY <1>2, <1>4 DEF CacheInv, CallInv
        <5>2. id \in ConnectorIDs => \A p \in written[id] : p.version \in Nat \ {0}
          BY DEF TypeOK, CacheTypeOK, Writable
        <5>3. NoConnector.version = -1 /\ Local.version = 0
          BY DEF NoConnector, Local
        <5>4. QED BY <3>2, <5>1, <5>2, <5>3 DEF Known, Distinct
      <4>4. CallInv(c)
        <5>1. /\ c.pc = "returned" /\ c.read = NoConnector /\ c.got = o /\ c.id = id
              /\ c.during = call[h].during
          BY <1>4, Zenon DEF Calls
        <5>2. call[h].read \in call[h].during
          BY <1>4, <3>1 DEF CallInv
        <5>3. NoConnector \in Known(id)
          BY DEF Known
        <5>4. QED BY <3>2, <4>3, <5>1, <5>2, <5>3, Zenon DEF CallInv
      <4>5. QED BY <1>5, <3>1, <4>1, <4>2, <4>4, Zenon DEF TypeOK, CacheTypeOK, CacheInv
    <3>3. CASE ~(o # NoConnector /\ o.version = call[h].read.version)
      <4> DEFINE c == [call[h] EXCEPT !.pc = "open"]
      <4>1. call' = [call EXCEPT ![h] = c]
        BY <2>3, <3>3 DEF LookUp
      <4>2. c \in Calls
        BY <1>4 DEF Calls
      <4>3. CallInv(c)
        BY <1>4, <3>1 DEF CallInv, Calls
      <4>4. QED BY <1>5, <3>1, <4>1, <4>2, <4>3, Zenon DEF TypeOK, CacheTypeOK, CacheInv
    <3>4. QED BY <3>2, <3>3
  <2>4. CASE Open(h)
    <3> DEFINE o == call[h].read
    <3>1. call[h].pc = "open" /\ o \in ConnectorObjects /\ o \in Known(id) /\ o \in call[h].during
      BY <1>4, <2>4 DEF Open, Calls, CallInv
    <3>2. CASE o.opens
      <4> DEFINE c == [call[h] EXCEPT !.pc = "returned", !.read = NoConnector, !.got = o]
      <4>1. /\ call' = [call EXCEPT ![h] = c]
            /\ connectors' = [connectors EXCEPT ![s] = [@ EXCEPT ![id] = o]]
        BY <2>4, <3>2 DEF Open, Return
      <4>2. c \in Calls
        BY <1>3, <1>4, <3>1, Zenon DEF Calls
      <4>3. CallInv(c)
        <5>1. /\ c.pc = "returned" /\ c.read = NoConnector /\ c.got = o /\ c.id = id
              /\ c.during = call[h].during
          BY <1>4, Zenon DEF Calls
        <5>2. NoConnector \in Known(id)
          BY DEF Known
        <5>3. QED BY <3>1, <5>1, <5>2, Zenon DEF CallInv
      <4>4. connectors' \in [Servers -> [Keys -> ConnectorObjects]]
        BY <1>2, <3>1, <4>1 DEF TypeOK, CacheTypeOK
      <4>5. \A r \in Servers, i \in Keys : connectors'[r][i] \in Known(i)
        BY <1>2, <3>1, <4>1 DEF TypeOK, CacheTypeOK, CacheInv
      <4>6. QED BY <1>5, <4>1, <4>2, <4>3, <4>4, <4>5, Zenon
    <3>3. CASE ~o.opens
      <4>1. call' = [call EXCEPT ![h] = Idle] /\ UNCHANGED connectors
        BY <2>4, <3>3 DEF Open
      <4>2. QED BY <1>3, <1>5, <4>1, Zenon DEF TypeOK, CacheTypeOK, CacheInv
    <3>4. QED BY <3>2, <3>3
  <2>5. QED BY <2>1, <2>2, <2>3, <2>4 DEF getConnector
<1>6. (\A g \in Handlers : CallInv(call[g])') /\ call' \in [Handlers -> Calls]
  BY <1>0, <1>4, <1>5, OneCall, Zenon
<1>7. CacheTypeOK'
  BY <1>0, <1>5, <1>6, Zenon DEF TypeOK, CacheTypeOK
<1>8. /\ \A i \in Keys : Objects'[i] \in Known(i)'
      /\ \A r \in Servers, i \in Keys : connectors'[r][i] \in Known(i)' /\ unopened'[r][i] \in Known(i)'
  BY <1>0, <1>5, KnownSame, Zenon DEF CacheInv
<1>9. QED BY <1>6, <1>7, <1>8, Zenon DEF CacheInv

\* A new object becomes known, and the calls in progress that may read it know of
\* it.
LEMMA WriteStep ==
    ASSUME TypeOK, CacheInv, NEW id \in ConnectorIDs, NEW o \in ConnectorObjects,
           Write(id, o), writes' \in 0 .. MaxWrites,
           \/ o = NoConnector /\ written' = written
           \/ o \in Writable /\ written' = [written EXCEPT ![id] = written[id] \cup {o}]
    PROVE  CacheTypeOK' /\ CacheInv'
<1>0. /\ UNCHANGED <<config, connectors, unopened>>
      /\ stored' = [stored EXCEPT ![id] = o]
  BY DEF Write, processVars
<1>1. call' = [h \in Handlers |->
           IF call[h].pc \in {"called", "read", "open"} /\ call[h].id = id
           THEN [call[h] EXCEPT !.during = call[h].during \cup {o}] ELSE call[h]]
  BY DEF Write
<1>2. \A i \in Keys : Objects'[i] \in {Objects[i], o} /\ (i # id => Objects'[i] = Objects[i])
  BY <1>0 DEF Objects, Keys, TypeOK, CacheTypeOK
<1>3. /\ written' \in [ConnectorIDs -> SUBSET Writable]
      /\ \A i \in ConnectorIDs : written[i] \subseteq written'[i]
      /\ o = NoConnector \/ o \in written'[id]
  <2>1. written \in [ConnectorIDs -> SUBSET Writable]
    BY DEF TypeOK, CacheTypeOK
  <2>2. CASE o = NoConnector /\ written' = written
    BY <2>1, <2>2
  <2>3. CASE o \in Writable /\ written' = [written EXCEPT ![id] = written[id] \cup {o}]
    BY <2>1, <2>3
  <2>4. QED BY <2>2, <2>3
<1>4. /\ \A i : Known(i) \subseteq Known(i)' /\ (Distinct(i)' => Distinct(i))
      /\ o \in Known(id)'
  BY <1>3, Zenon DEF Known, Distinct
<1>5. \A h \in Handlers :
        /\ call'[h].pc = call[h].pc
        /\ call'[h].id = call[h].id
        /\ call'[h].read = call[h].read
        /\ call'[h].got = call[h].got
        /\ call[h].during \subseteq call'[h].during
        /\ call[h].pc = "called" /\ call[h].id = id => o \in call'[h].during
        /\ call'[h] \in Calls
  <2> SUFFICES ASSUME NEW h \in Handlers
               PROVE  /\ call'[h].pc = call[h].pc
                      /\ call'[h].id = call[h].id
                      /\ call'[h].read = call[h].read
                      /\ call'[h].got = call[h].got
                      /\ call[h].during \subseteq call'[h].during
                      /\ call[h].pc = "called" /\ call[h].id = id => o \in call'[h].during
                      /\ call'[h] \in Calls
    OBVIOUS
  <2>1. call[h] \in Calls
    BY DEF TypeOK, CacheTypeOK
  <2>2. CASE call[h].pc \in {"called", "read", "open"} /\ call[h].id = id
    <3>1. call'[h] = [call[h] EXCEPT !.during = call[h].during \cup {o}]
      BY <1>1, <2>2
    <3>2. QED BY <2>1, <3>1 DEF Calls
  <2>3. CASE ~(call[h].pc \in {"called", "read", "open"} /\ call[h].id = id)
    <3>1. call'[h] = call[h]
      BY <1>1, <2>3
    <3>2. QED BY <2>1, <2>3, <3>1
  <2>4. QED BY <2>2, <2>3
<1>6. CacheTypeOK'
  BY <1>0, <1>1, <1>3, <1>5, Zenon DEF TypeOK, CacheTypeOK
<1>7. \A i \in Keys : Objects'[i] \in Known(i)'
  BY <1>2, <1>4, Zenon DEF CacheInv
<1>8. \A s \in Servers, i \in Keys : connectors'[s][i] \in Known(i)' /\ unopened'[s][i] \in Known(i)'
  BY <1>0, <1>4, Zenon DEF CacheInv
<1>9. ASSUME NEW h \in Handlers PROVE CallInv(call[h])'
  <2>1. CallInv(call[h]) /\ call[h].id \in Keys
    BY DEF CacheInv, TypeOK, CacheTypeOK, Calls
  <2>2. (call[h].read \in Known(call[h].id))'
    BY <1>4, <1>5, <2>1, Zenon DEF CallInv
  <2>3. call'[h].pc \in {"read", "open"} => call'[h].read \in call'[h].during
    BY <1>5, <2>1 DEF CallInv
  <2>4. call'[h].pc = "called" => Objects'[call'[h].id] \in call'[h].during
    BY <1>2, <1>5, <2>1 DEF CallInv
  <2>5. (call[h].got # NoConnector =>
             \E p \in call[h].during :
                 p.version = call[h].got.version /\ (Distinct(call[h].id) => p = call[h].got))'
    BY <1>4, <1>5, <2>1, Zenon DEF CallInv
  <2>6. QED BY <2>2, <2>3, <2>4, <2>5, Zenon DEF CallInv
<1>10. QED BY <1>6, <1>7, <1>8, <1>9 DEF CacheInv

\* Steps that leave the connectors alone.
LEMMA CacheFrame ==
    ASSUME TypeOK, CacheInv, UNCHANGED <<config, cacheVars>>
    PROVE  CacheTypeOK' /\ CacheInv'
<1>1. CacheTypeOK'
  BY DEF TypeOK, CacheTypeOK, cacheVars
<1>2. UNCHANGED <<config, stored, written, connectors, unopened, call>>
  BY DEF cacheVars
<1>3. QED BY <1>1, <1>2, KnownSame, CallsSame, Zenon DEF CacheInv

-----------------------------------------------------------------------------
(* The theorems.                                                           *)

StartUpInv == TypeOK /\ MigrationInv /\ CacheInv

\* The inductive invariant holds initially.
LEMMA InitInv == Init => StartUpInv
<1> SUFFICES ASSUME Init PROVE StartUpInv
  OBVIOUS
<1>1. MigrationInv
  BY DEF Init, MigrationsInit, ResourcesInit, MigrationInv, MigrationsInOrder, NotRegistering, NoTx
<1>2. \A id \in Keys : Objects[id] \in {NoConnector, Local}
  BY DEF Init, CacheInit, Objects, Keys
<1>3. CacheInv
  <2>1. \A s \in Servers, id \in Keys : connectors[s][id] = NoConnector /\ unopened[s][id] = NoConnector
    BY DEF Init, CacheInit
  <2>2. \A h \in Handlers : call[h] = Idle
    BY DEF Init, CacheInit
  <2>3. CallInv(Idle)
    BY DEF CallInv, Idle, Known
  <2>4. QED BY <1>2, <2>1, <2>2, <2>3 DEF CacheInv, Known
<1>4. QED BY <1>1, <1>3, InitTypeOK DEF StartUpInv

\* Every step keeps it.
LEMMA NextInv == StartUpInv /\ [Next]_vars => StartUpInv'
<1> SUFFICES ASSUME StartUpInv, [Next]_vars PROVE StartUpInv'
  OBVIOUS
<1> USE DEF StartUpInv
<1> DEFINE Rest == ProcessTypeOK' /\ MigrationsTypeOK' /\ ResourcesTypeOK' /\ MigrationInv'
           Cache == CacheTypeOK' /\ CacheInv'
<1>0. SUFFICES Rest /\ Cache
  BY <1>0 DEF TypeOK
<1>1. CASE \E s \in Servers : Start(s) \/ OpenEtcd(s)
  <2>1. Rest BY <1>1, ProcessStep
  <2>2. Cache BY <1>1, CacheFrame DEF Start, OpenEtcd
  <2>3. QED BY <2>1, <2>2
<1>2. CASE \E s \in Servers : Exit(s) \/ Stop(s)
  <2>1. Rest BY <1>2, ProcessStep
  <2>2. Cache BY <1>2, EndStep
  <2>3. QED BY <2>1, <2>2
<1>3. CASE \E s \in Servers : migrate(s) /\ UNCHANGED <<resourceVars, cacheVars>>
  <2>1. PICK s \in Servers : migrate(s) /\ UNCHANGED <<resourceVars, cacheVars>>
    BY <1>3
  <2>2. ResourcesTypeOK'
    BY <2>1 DEF TypeOK, ResourcesTypeOK, resourceVars
  <2>3. UNCHANGED config
    BY <2>1 DEF migrate, CreateMigrationTable, SelectMax, Done, Migrate, MigrateConflict, processVars
  <2>4. Cache BY <2>1, <2>3, CacheFrame
  <2>5. QED BY <2>1, <2>2, <2>4, MigrateStep
<1>4. CASE \E s \in Servers : /\ registerCustomResources(s) \/ postResourceFails(s)
                              /\ UNCHANGED <<migrationVars, cacheVars>>
  <2>1. PICK s \in Servers : /\ registerCustomResources(s) \/ postResourceFails(s)
                             /\ UNCHANGED <<migrationVars, cacheVars>>
    BY <1>4
  <2>2. MigrationsTypeOK'
    BY <2>1 DEF TypeOK, MigrationsTypeOK, migrationVars
  <2>3. UNCHANGED config
    BY <2>1 DEF registerCustomResources, StartRegistering, postResource, EndOfRound,
                postResourceFails, processVars
  <2>4. Cache BY <2>1, <2>3, CacheFrame
  <2>5. QED BY <2>1, <2>2, <2>4, RegisterStep
<1>5. CASE \E s \in Servers : /\ ListConnectors(s, Available) \/ OpenListed(s) \/ Listen(s)
                              /\ UNCHANGED <<migrationVars, resourceVars>>
  <2>1. PICK s \in Servers : /\ ListConnectors(s, Available) \/ OpenListed(s) \/ Listen(s)
                             /\ UNCHANGED <<migrationVars, resourceVars>>
    BY <1>5
  <2>2. Rest BY <2>1, ProcessStep
  <2>3. CASE Listen(s)
    BY <2>2, <2>3, CacheFrame DEF Listen
  <2>4. CASE ListConnectors(s, Available) \/ OpenListed(s)
    BY <2>2, <2>4, ListStep
  <2>5. QED BY <2>1, <2>3, <2>4
<1>6. CASE \E r \in registered : Establish(r) /\ UNCHANGED <<migrationVars, cacheVars>>
  BY <1>6, FrameStep, CacheFrame DEF Establish, processVars
<1>7. CASE \E id \in ConnectorIDs : /\ WriteConnector(id) \/ DeleteConnector(id)
                                    /\ UNCHANGED <<migrationVars, resourceVars>>
  <2>1. PICK id \in ConnectorIDs : /\ WriteConnector(id) \/ DeleteConnector(id)
                                   /\ UNCHANGED <<migrationVars, resourceVars>>
    BY <1>7
  <2>2. Rest BY <2>1, FrameStep DEF WriteConnector, DeleteConnector, Write, resourceVars
  <2>3. CASE WriteConnector(id)
    <3>1. writes' \in 1 .. MaxWrites
      BY <2>3 DEF WriteConnector, TypeOK, CacheTypeOK
    <3>2. PICK version \in 1 .. writes', opens \in BOOLEAN :
            LET o == [version |-> version, write |-> writes', opens |-> opens] IN
            /\ Write(id, o)
            /\ written' = [written EXCEPT ![id] = written[id] \cup {o}]
      BY <2>3, Zenon DEF WriteConnector
    <3> DEFINE o == [version |-> version, write |-> writes', opens |-> opens]
    <3>3. o \in Writable /\ o \in ConnectorObjects /\ writes' \in 0 .. MaxWrites
      BY <3>1 DEF ConnectorObjects, Writable
    <3>4. Cache BY <3>2, <3>3, WriteStep, Zenon
    <3>5. QED BY <2>2, <3>4
  <2>4. CASE DeleteConnector(id)
    <3>1. NoConnector \in ConnectorObjects /\ written' = written /\ writes' \in 0 .. MaxWrites
      BY <2>4 DEF DeleteConnector, ConnectorObjects, TypeOK, CacheTypeOK
    <3>2. Cache BY <2>4, <3>1, WriteStep DEF DeleteConnector
    <3>3. QED BY <2>2, <3>2
  <2>5. QED BY <2>1, <2>3, <2>4
<1>8. CASE \E h \in Handlers : /\ getConnector(h) \/ Begin(h)
                               /\ UNCHANGED <<migrationVars, resourceVars>>
  <2>1. PICK h \in Handlers : /\ getConnector(h) \/ Begin(h)
                              /\ UNCHANGED <<migrationVars, resourceVars>>
    BY <1>8
  <2>2. Rest BY <2>1, FrameStep DEF getConnector, GetStored, LookUp, Open, Begin, resourceVars
  <2>3. QED BY <2>1, <2>2, HandlerStep
<1>9. CASE UNCHANGED vars
  BY <1>9, FrameStep, CacheFrame DEF vars, processVars, resourceVars
<1>10. QED
  BY <1>1, <1>2, <1>3, <1>4, <1>5, <1>6, <1>7, <1>8, <1>9 DEF Next, Process, Request

\* The invariant of the start-up: how far the schema is, what transactions have
\* read, and which connector objects are known, for any number of processes.
THEOREM Invariance == Spec => []StartUpInv
BY InitInv, NextInv, PTL DEF Spec

\* Migrations take effect once and in order, whatever the number of processes
\* that start on one database (storage/sql/migrate.go).
THEOREM MigrationsInOrderTheorem == Spec => []MigrationsInOrder
<1>1. StartUpInv => MigrationsInOrder
  BY DEF StartUpInv, MigrationInv
<1>2. QED BY <1>1, Invariance, PTL

\* A process past the opening of an SQL storage has the whole schema.
THEOREM ServesOnCurrentSchemaTheorem == Spec => []ServesOnCurrentSchema
<1>1. StartUpInv => ServesOnCurrentSchema
  BY DEF StartUpInv, MigrationInv, MigrationsInOrder, ServesOnCurrentSchema, TypeOK, MigrationsTypeOK
<1>2. QED BY <1>1, Invariance, PTL

\* getConnector returns a connector of a resource version that was stored during
\* the call, and the very one of the stored object if no version is used twice,
\* however handlers and writers interleave (server/server.go).
THEOREM ConnectorAsStoredTheorem == Spec => []ConnectorAsStored
<1>1. StartUpInv => ConnectorAsStored
  BY Zenon DEF StartUpInv, CacheInv, CallInv, ConnectorAsStored
<1>2. QED BY <1>1, Invariance, PTL
=============================================================================
