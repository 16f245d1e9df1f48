-------------------------- MODULE ConnectorCache --------------------------
(***************************************************************************)
(* The connectors of a server (server/server.go).  They are stored as      *)
(* objects that carry a resource version; each process keeps the ones it   *)
(* has opened in a map and opens one again when getConnector reads another *)
(* version from the storage.  Handlers run concurrently, and the objects   *)
(* change under them.                                                      *)
(*                                                                         *)
(* An opened connector is represented by the object it was opened from.    *)
(* Whoever writes an object chooses its resource version: an update may    *)
(* keep the old one, and an object that is created again may repeat one.   *)
(* The versions of static objects are empty, here 0.                       *)
(***************************************************************************)
EXTENDS ServerProcess

CONSTANTS ConnectorIDs,  \* the IDs of stored connectors
          Handlers,      \* handlers that call getConnector
          Host,          \* the process a handler runs in
          Driven,        \* the handlers that get requests, by type of storage
          MaxWrites      \* bound on the writes of connector objects

ASSUME ConnectorsAssumption ==
    /\ MaxWrites \in Nat
    /\ Host \in [Handlers -> Servers]

VARIABLES stored,      \* the connector objects in the storage
          writes,      \* the number of writes so far
          written,     \* history: the objects written under each ID
          connectors,  \* per process: the opened connectors
          unopened,    \* per process: objects listed and not yet opened
          call         \* the call of getConnector of each handler

cacheVars == <<stored, writes, written, connectors, unopened, call>>

\* write tells the objects of different writes apart; nobody looks at it.
NoConnector == [version |-> -1, write |-> 0, opens |-> FALSE]
Local       == [version |-> 0, write |-> 0, opens |-> TRUE]
LocalConnector == "local"
Keys        == ConnectorIDs \cup {LocalConnector}
Writable    == [version : 1 .. MaxWrites, write : 1 .. MaxWrites, opens : BOOLEAN]
ConnectorObjects == Writable \cup {NoConnector, Local}

\* The objects of the storage: WithStaticConnectors adds the
\* password database to them.
Objects ==
    [id \in Keys |->
        IF id # LocalConnector THEN stored[id]
        ELSE IF "passwordDB" \in config THEN Local ELSE NoConnector]

\* A call that is not in progress, or has ended with got.  during collects what
\* was stored under the ID between its beginning and its end.
Idle == [pc |-> "idle", id |-> LocalConnector, read |-> NoConnector,
         got |-> NoConnector, during |-> {}]

CacheInit ==
    /\ stored = [id \in ConnectorIDs |-> NoConnector]
    /\ writes = 0
    /\ written = [id \in ConnectorIDs |-> {}]
    /\ connectors = [s \in Servers |-> [id \in Keys |-> NoConnector]]
    /\ unopened = [s \in Servers |-> [id \in Keys |-> NoConnector]]
    /\ call = [h \in Handlers |-> Idle]

Calls == [pc : {"idle", "called", "read", "open", "returned"}, id : Keys,
          read : ConnectorObjects, got : ConnectorObjects, during : SUBSET ConnectorObjects]

CacheTypeOK ==
    /\ stored \in [ConnectorIDs -> ConnectorObjects]
    /\ writes \in 0 .. MaxWrites
    /\ written \in [ConnectorIDs -> SUBSET Writable]
    /\ connectors \in [Servers -> [Keys -> ConnectorObjects]]
    /\ unopened \in [Servers -> [Keys -> ConnectorObjects]]
    /\ call \in [Handlers -> Calls]

-----------------------------------------------------------------------------
(* An operator creates, changes or deletes a connector object.             *)

Write(id, o) ==
    /\ stored' = [stored EXCEPT ![id] = o]
    /\ call' = [h \in Handlers |->
           IF call[h].pc \in {"called", "read", "open"} /\ call[h].id = id
           THEN [call[h] EXCEPT !.during = @ \cup {o}] ELSE call[h]]
    /\ UNCHANGED <<processVars, connectors, unopened>>

\* The new object may be one that cannot be opened.  Versions are only compared:
\* one that is new may as well be the number of the write.
WriteConnector(id) ==
    /\ writes < MaxWrites
    /\ writes' = writes + 1
    /\ \E version \in 1 .. writes', opens \in BOOLEAN :
        LET o == [version |-> version, write |-> writes', opens |-> opens] IN
        /\ Write(id, o)
        /\ written' = [written EXCEPT ![id] = @ \cup {o}]

DeleteConnector(id) ==
    /\ stored[id] # NoConnector
    /\ Write(id, NoConnector)
    /\ UNCHANGED <<writes, written>>

-----------------------------------------------------------------------------
(* newServer: list the objects, open all of them.                          *)

\* Without connectors, or when they cannot be listed, the process stops.
ListConnectors(s, available) ==
    /\ stage[s] = "opened"
    /\ IF available /\ \E id \in Keys : Objects[id] # NoConnector
       THEN To(s, "listed") /\ unopened' = [unopened EXCEPT ![s] = Objects]
       ELSE To(s, "failed") /\ UNCHANGED unopened
    /\ UNCHANGED <<backend, config, stops, stored, writes, written, connectors, call>>

\* OpenConnector for one of the listed objects.
OpenListed(s) ==
    /\ stage[s] = "listed"
    /\ \E id \in Keys :
        LET o == unopened[s][id] IN
        /\ o # NoConnector
        /\ unopened' = [unopened EXCEPT ![s] = [@ EXCEPT ![id] = NoConnector]]
        /\ IF o.opens
           THEN connectors' = [connectors EXCEPT ![s] = [@ EXCEPT ![id] = o]] /\ UNCHANGED stage
           ELSE To(s, "failed") /\ UNCHANGED connectors
    /\ UNCHANGED <<backend, config, stops, stored, writes, written, call>>

\* All are open: the routes are set, keys are rotated, the process listens.
Listen(s) ==
    /\ stage[s] = "listed"
    /\ \A id \in Keys : unopened[s][id] = NoConnector
    /\ To(s, "serving")
    /\ UNCHANGED <<backend, config, stops, cacheVars>>

-----------------------------------------------------------------------------
(* getConnector, called by a handler of a request.                         *)

Begin(h) ==
    /\ h \in Driven[backend]
    /\ stage[Host[h]] = "serving"
    /\ call[h].pc \in {"idle", "returned"}
    /\ \E id \in Keys :
        call' = [call EXCEPT ![h] = [Idle EXCEPT
            !.pc = "called", !.id = id, !.during = {Objects[id]}]]
    /\ UNCHANGED <<processVars, stored, writes, written, connectors, unopened>>

\* Read the object; without one the call fails.
GetStored(h) ==
    LET o == Objects[call[h].id] IN
    /\ call[h].pc = "called"
    /\ call' = [call EXCEPT ![h] = IF o = NoConnector THEN Idle
                                   ELSE [@ EXCEPT !.pc = "read", !.read = o]]
    /\ UNCHANGED <<processVars, stored, writes, written, connectors, unopened>>

\* The calls when that of handler h returns c.
Return(h, c) == [call EXCEPT ![h] = [@ EXCEPT !.pc = "returned", !.read = NoConnector, !.got = c]]

\* Mutant: an opened connector is returned whatever its version.
LookUpAny(h) ==
    LET c == connectors[Host[h]][call[h].id] IN
    /\ call[h].pc = "read"
    /\ call' = IF c # NoConnector
               THEN Return(h, c)
               ELSE [call EXCEPT ![h] = [@ EXCEPT !.pc = "open"]]
    /\ UNCHANGED <<processVars, stored, writes, written, connectors, unopened>>

\* Look the connector up in the map, under the mutex.
LookUp(h) ==
    LET c == connectors[Host[h]][call[h].id] IN
    /\ call[h].pc = "read"
    /\ call' = IF c # NoConnector /\ c.version = call[h].read.version
               THEN Return(h, c)
               ELSE [call EXCEPT ![h] = [@ EXCEPT !.pc = "open"]]
    /\ UNCHANGED <<processVars, stored, writes, written, connectors, unopened>>

\* OpenConnector opens the connector and puts it into the map, where it may
\* take the place of a newer one that another handler has opened meanwhile.
Open(h) ==
    LET o == call[h].read IN
    /\ call[h].pc = "open"
    /\ call' = IF o.opens THEN Return(h, o) ELSE [call EXCEPT ![h] = Idle]
    /\ connectors' = IF o.opens
                     THEN [connectors EXCEPT ![Host[h]] = [@ EXCEPT ![call[h].id] = o]]
                     ELSE connectors
    /\ UNCHANGED <<processVars, stored, writes, written, unopened>>

getConnector(h) == GetStored(h) \/ LookUp(h) \/ Open(h)
=============================================================================
