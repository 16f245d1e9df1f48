------------------------------ MODULE StartUp ------------------------------
(***************************************************************************)
(* Server processes that share a storage start, crash and start again: the *)
(* composition of the opening of the storage (Migrations for the SQL       *)
(* storages, CustomResources for Kubernetes; the clients of etcd are       *)
(* opened without a step that matters here) and of the connectors          *)
(* (ConnectorCache), in the order of serve and newServer.                  *)
(***************************************************************************)
EXTENDS Migrations, CustomResources, ConnectorCache

CONSTANT Backends

vars == <<processVars, migrationVars, resourceVars, cacheVars>>

Init ==
    /\ backend \in Backends
    /\ config \in Configs
    /\ stage = [s \in Servers |-> "down"]
    /\ stops = 0
    /\ MigrationsInit
    /\ ResourcesInit
    /\ CacheInit

\* serve: a process with a configuration that is not valid ends at once.
Start(s) ==
    /\ stage[s] = "down" /\ Valid(config)
    /\ To(s, "opening")
    /\ UNCHANGED <<backend, config, stops, migrationVars, resourceVars, cacheVars>>

\* Opening etcd creates a client; the next step finds out whether it works.
OpenEtcd(s) ==
    /\ backend = "etcd" /\ stage[s] = "opening"
    /\ To(s, "opened")
    /\ UNCHANGED <<backend, config, stops, migrationVars, resourceVars, cacheVars>>

\* What a process loses when it ends.
Forgotten(s) ==
    /\ tx' = [tx EXCEPT ![s] = NoTx]
    /\ registering' = [registering EXCEPT ![s] = NotRegistering]
    /\ connectors' = [connectors EXCEPT ![s] = [id \in Keys |-> NoConnector]]
    /\ unopened' = [unopened EXCEPT ![s] = [id \in Keys |-> NoConnector]]
    /\ call' = [h \in Handlers |-> IF Host[h] = s THEN Idle ELSE call[h]]

\* serve returned an error: the process ends.
Exit(s) ==
    /\ stage[s] = "failed"
    /\ To(s, "down")
    /\ Forgotten(s)
    /\ UNCHANGED <<backend, config, stops, table, num, schema, registered, established,
                   stored, writes, written>>

\* A process crashes, is shut down, or a call that it cannot do without fails.
Stop(s) ==
    /\ stage[s] # "down"
    /\ Failure
    /\ To(s, "down")
    /\ Forgotten(s)
    /\ UNCHANGED <<backend, config, table, num, schema, registered, established,
                   stored, writes, written>>

\* Connectors can be listed once their tables or resources are there.
Available ==
    \/ backend = "kubernetes" /\ "connectors" \in established
    \/ backend = "sql" /\ num = migrations
    \/ backend = "etcd"

Process(s) ==
    \/ Start(s)
    \/ OpenEtcd(s)
    \/ Exit(s)
    \/ migrate(s) /\ UNCHANGED <<resourceVars, cacheVars>>
    \/ registerCustomResources(s) /\ UNCHANGED <<migrationVars, cacheVars>>
    \/ (ListConnectors(s, Available) \/ OpenListed(s) \/ Listen(s))
          /\ UNCHANGED <<migrationVars, resourceVars>>

Request(h) == getConnector(h) /\ UNCHANGED <<migrationVars, resourceVars>>

Next ==
    \/ \E s \in Servers : Process(s) \/ Stop(s)
    \/ \E s \in Servers : postResourceFails(s) /\ UNCHANGED <<migrationVars, cacheVars>>
    \/ \E r \in registered : Establish(r) /\ UNCHANGED <<migrationVars, cacheVars>>
    \/ \E id \in ConnectorIDs :
           (WriteConnector(id) \/ DeleteConnector(id)) /\ UNCHANGED <<migrationVars, resourceVars>>
    \/ \E h \in Handlers :
           Request(h) \/ (Begin(h) /\ UNCHANGED <<migrationVars, resourceVars>>)

\* Processes run and are started again when they end, and the API server
\* establishes what was registered.
Fairness ==
    /\ \A s \in Servers : WF_vars(Process(s))
    /\ WF_vars(\E r \in registered : Establish(r) /\ UNCHANGED <<migrationVars, cacheVars>>)
    /\ \A h \in Handlers : WF_vars(Request(h))

Spec == Init /\ [][Next]_vars /\ Fairness
-----------------------------------------------------------------------------
TypeOK == ProcessTypeOK /\ MigrationsTypeOK /\ ResourcesTypeOK /\ CacheTypeOK

\* Every migration takes effect once, and in order, however many processes
\* start on one database and wherever they crash.
MigrationsInOrder == schema = [i \in 1 .. num |-> i]

\* A process that serves requests from an SQL storage finds the schema of its
\* own version: it went through all migrations, or somebody else did.
ServesOnCurrentSchema ==
    \A s \in Servers :
        backend = "sql" /\ stage[s] \in {"opened", "listed", "serving"} => Len(schema) = migrations

\* Every write of a connector object so far has given it a version of its own.
Distinct(id) ==
    id \in ConnectorIDs => \A o, p \in written[id] : o.version = p.version => o = p

\* getConnector never returns a connector of a resource version that had been
\* replaced or deleted before the call, though handlers of one process may put
\* an older connector over a newer one and nobody may notice; and if all writers
\* choose new versions, the connector is that of an object stored during the
\* call.  (If one does not, handlers go on with the connector they have.)
ConnectorAsStored ==
    \A h \in Handlers :
        call[h].got # NoConnector =>
            \E o \in call[h].during :
                /\ o.version = call[h].got.version
                /\ Distinct(call[h].id) => o = call[h].got

Settled(s) ==
    /\ stage[s] = "serving"
    /\ backend = "kubernetes" =>
           /\ registering[s] = NotRegistering
           /\ established = {Resources[i] : i \in DOMAIN Resources}

\* When crashes and failures come to an end, every process with a valid
\* configuration comes to serve and to have all custom resources registered,
\* provided that there is a connector and that no stored one is broken: no
\* order of starts, conflicts and retries leaves one behind.
Settles ==
    <>[](\A id \in ConnectorIDs : stored[id].opens) =>
        <>[](\A s \in Servers : Valid(config) => Settled(s))
=============================================================================
