------------------------------- MODULE AuthFlow -------------------------------
(***************************************************************************)
(* The login flow of dex (handleAuthorization, handleConnectorLogin,       *)
(* handleConnectorCallback, finalizeLogin, handleApproval and              *)
(* sendCodeResponse in server/handlers.go) and the garbage collection that *)
(* runs beside it (startGarbageCollection in server/server.go and          *)
(* GarbageCollect of the storages).                                        *)
(*                                                                         *)
(* A login is a chain of HTTP requests that share one AuthRequest object.  *)
(* Each handler reads the object, talks to the user or to a connector, and *)
(* writes the object by its ID later; requests for the same login overlap  *)
(* when the user has several tabs open, goes back, or reloads.             *)
(***************************************************************************)
EXTENDS Integers

CONSTANTS
    AuthReqs,           \* IDs given to authorization requests
    Empty,              \* the empty ID
    Connectors,
    PasswordConnectors, \* connectors with a login form of dex's own
    Configured,         \* the connectors of a server, by its storage
    None,               \* no connector
    Handlers,           \* HTTP requests in flight
    Collectors,         \* garbage collection loops, one per server
    Running,            \* the loops that run, by the servers' storage
    CodeFlow,           \* authorization requests whose response_type has "code"
    ReqValidFor,        \* 24 hours
    CodeValidFor,       \* 30 minutes
    Backends,           \* the storages to consider
    MaxTime,            \* bound on the clock
    MaxFaults           \* bound on failed garbage collections

ASSUME AuthFlowAssumption ==
    /\ Empty \notin AuthReqs
    /\ None \notin Connectors
    /\ PasswordConnectors \subseteq Connectors
    /\ Configured \in [Backends -> SUBSET Connectors]
    /\ Running \in [Backends -> SUBSET Collectors]
    /\ CodeFlow \subseteq AuthReqs
    /\ Handlers \cap Collectors = {}
    /\ ReqValidFor \in Nat
    /\ CodeValidFor \in Nat
    /\ Backends \subseteq {"memory", "sql", "kubernetes", "etcd"}
    /\ MaxTime \in Nat
    /\ MaxFaults \in Nat

VARIABLES
    backend,    \* the storage in use
    now,        \* the clock; the zero time.Time is before it
    stored,     \* keys under which an AuthRequest is stored
    reqs,       \* the AuthRequest under each key
    codes,      \* AuthCodes in storage
    pc,         \* the next step of each handler
    job,        \* the AuthRequest and the connector each handler works with
    chosen,     \* history: login pages opened, <<request, connector>>
    gc,         \* state of each garbage collection
    made,       \* authorization requests ever made
    responses,  \* how often each authorization request was answered
    faults      \* garbage collections that failed

vars == <<backend, now, stored, reqs, codes, pc, job, chosen, gc, made, responses, faults>>

-----------------------------------------------------------------------------
\* GarbageCollect lists the expired objects and then deletes them.
Listing == backend \in {"kubernetes", "etcd"}

\* Updating a missing object creates it.
Upsert == backend = "etcd"

Keys == AuthReqs \cup {Empty}

ConnectorID == Connectors \cup {None}

\* The identity a request carries is the connector that vouched for it; it is
\* None until LoggedIn is set.
AuthRequest == [id : Keys, conn : ConnectorID, claims : ConnectorID, expiry : Nat]

ZeroAuthRequest == [id |-> Empty, conn |-> None, claims |-> None, expiry |-> 0]

AuthCode == [req : Keys, by : Handlers, conn : ConnectorID, claims : ConnectorID,
             expiry : Nat]

\* What a handler keeps of the AuthRequest: the key it was read from, the ID it
\* contains, and the connector and the identity to go on with.
Job == [key : Keys, id : Keys, conn : ConnectorID, claims : ConnectorID]

NoJob == [key |-> Empty, id |-> Empty, conn |-> None, claims |-> None]

\* A run of GarbageCollect: its argument now, the expired objects it listed and
\* has not deleted yet (an AuthRequest by its key and its ID), and delErr.
Collection == [stage : {"idle", "requests", "codes"}, at : Nat, failed : BOOLEAN,
               reqs : SUBSET [key : Keys, id : Keys], codes : SUBSET AuthCode]

NoCollection == [stage |-> "idle", at |-> 0, failed |-> FALSE, reqs |-> {}, codes |-> {}]

Init ==
    /\ backend \in Backends
    /\ now = 1
    /\ stored = {}
    /\ reqs = [a \in Keys |-> ZeroAuthRequest]
    /\ codes = {}
    /\ pc = [h \in Handlers |-> "idle"]
    /\ job = [h \in Handlers |-> NoJob]
    /\ chosen = {}
    /\ gc = [g \in Collectors |-> NoCollection]
    /\ made = {}
    /\ responses = [a \in Keys |-> 0]
    /\ faults = 0

-----------------------------------------------------------------------------
(* Storage calls of the handlers.  A key that is not stored has the zero   *)
(* AuthRequest in reqs, the value on which etcd runs an updater then.      *)

Found(a) == Upsert \/ a \in stored

\* UpdateAuthRequest of key a: ErrNotFound, unless Found(a).
UpdateAuthRequest(a, updated) ==
    /\ stored' = IF Found(a) THEN stored \cup {a} ELSE stored
    /\ reqs' = IF Found(a) THEN [reqs EXCEPT ![a] = updated] ELSE reqs

\* Mutant: an object that is deleted stays behind.
DeleteKeepsObject(S) == stored' = stored \ S /\ UNCHANGED reqs

\* DeleteAuthRequest of the keys S that are stored.
Delete(S) ==
    /\ stored' = stored \ S
    /\ reqs' = [a \in Keys |-> IF a \in S THEN ZeroAuthRequest ELSE reqs[a]]

Goto(h, next) ==
    /\ pc' = [pc EXCEPT ![h] = next]
    /\ job' = IF next = "idle" THEN [job EXCEPT ![h] = NoJob] ELSE job

\* A handler gives up: the storage fails or reports a conflicting update, the
\* connector or the credentials are refused, or the server stops.
Abort(h) ==
    /\ pc[h] # "idle"
    /\ Goto(h, "idle")
    /\ UNCHANGED <<backend, now, stored, reqs, codes, chosen, gc, made, responses, faults>>

-----------------------------------------------------------------------------
(* The handlers.                                                           *)

HandleAuthorization(a) ==
    /\ a \notin made
    /\ made' = made \cup {a}
    /\ stored' = stored \cup {a}
    /\ reqs' = [reqs EXCEPT ![a] = [ZeroAuthRequest EXCEPT
                                      !.id = a, !.expiry = now + ReqValidFor]]
    /\ UNCHANGED <<backend, now, codes, pc, job, chosen, gc, responses, faults>>

\* GetAuthRequest, by a handler that goes on with a connector and an identity.
Get(h, a, conn, claims, next) ==
    /\ pc[h] = "idle"
    /\ a \in stored
    /\ job' = [job EXCEPT ![h] = [key |-> a, id |-> reqs[a].id,
                                  conn |-> conn, claims |-> claims]]
    /\ pc' = [pc EXCEPT ![h] = next]
    /\ UNCHANGED <<backend, now, stored, reqs, codes, gc, made, responses, faults>>

\* Mutant: the connector is set only where the user is sent away.
HandleConnectorLoginUnset(h, a, c) ==
    /\ Get(h, a, c, None,
           IF reqs[a].conn = c \/ c \in PasswordConnectors THEN "login" ELSE "setConnector")
    /\ chosen' = chosen \cup {<<a, c>>}

\* handleConnectorLogin, for a user who chose connector c.
HandleConnectorLogin(h, a, c) ==
    /\ Get(h, a, c, None, IF reqs[a].conn = c THEN "login" ELSE "setConnector")
    /\ chosen' = chosen \cup {<<a, c>>}

SetConnector(h) ==
    LET a == job[h].key IN
    /\ pc[h] = "setConnector"
    /\ UpdateAuthRequest(a, [reqs[a] EXCEPT !.conn = job[h].conn])
    /\ Goto(h, IF Found(a) THEN "login" ELSE "idle")
    /\ UNCHANGED <<backend, now, codes, chosen, gc, made, responses, faults>>

\* A password connector checks the form; any other sends the user away, with
\* the ID in the URL as the state to come back with.
Login(h) ==
    /\ pc[h] = "login"
    /\ Goto(h, IF job[h].conn \in PasswordConnectors THEN "finalize" ELSE "idle")
    /\ UNCHANGED <<backend, now, stored, reqs, codes, chosen, gc, made, responses, faults>>

\* The user comes back, perhaps more than once.  The connector is the one that
\* the request names now, wherever the user was sent, and must not be one with a
\* form; it may refuse what the user brings (Abort).
HandleConnectorCallback(h, a) ==
    LET c == reqs[a].conn IN
    /\ a # Empty
    /\ c \in Connectors \ PasswordConnectors
    /\ Get(h, a, c, c, "finalize")
    /\ UNCHANGED chosen

\* finalizeLogin stores the identity, under the ID that the copy contains.
FinalizeLogin(h) ==
    LET a == job[h].id IN
    /\ pc[h] = "finalize"
    /\ UpdateAuthRequest(a, [reqs[a] EXCEPT !.claims = job[h].conn])
    /\ Goto(h, "idle")
    /\ UNCHANGED <<backend, now, codes, chosen, gc, made, responses, faults>>

\* handleApproval of a request with an identity, and sendCodeResponse's check
\* of its expiry.  What follows uses the copy.
HandleApproval(h, a) ==
    /\ reqs[a].claims # None
    /\ now <= reqs[a].expiry
    /\ Get(h, a, reqs[a].conn, reqs[a].claims, "delete")
    /\ UNCHANGED chosen

\* Mutant: that the request is gone already is not an error.
DeleteAuthRequestIgnored(h) ==
    /\ pc[h] = "delete"
    /\ Delete({job[h].id})
    /\ Goto(h, "respond")
    /\ UNCHANGED <<backend, now, codes, chosen, gc, made, responses, faults>>

DeleteAuthRequest(h) ==
    LET a == job[h].id IN
    /\ pc[h] = "delete"
    /\ Delete({a})
    /\ Goto(h, IF a \in stored THEN "respond" ELSE "idle")
    /\ UNCHANGED <<backend, now, codes, chosen, gc, made, responses, faults>>

SendCodeResponse(h) ==
    LET r == job[h] IN
    /\ pc[h] = "respond"
    /\ codes' = IF r.id \in CodeFlow
                THEN codes \cup {[req |-> r.id, by |-> h, conn |-> r.conn,
                                  claims |-> r.claims, expiry |-> now + CodeValidFor]}
                ELSE codes
    /\ responses' = [responses EXCEPT ![r.id] = @ + 1]
    /\ Goto(h, "idle")
    /\ UNCHANGED <<backend, now, stored, reqs, chosen, gc, made, faults>>

\* The token endpoint redeems a code.
DeleteAuthCode(k) ==
    /\ k \in codes
    /\ codes' = codes \ {k}
    /\ UNCHANGED <<backend, now, stored, reqs, pc, job, chosen, gc, made, responses, faults>>

Handle(h) ==
    \/ \E a \in Keys, c \in Configured[backend] : HandleConnectorLogin(h, a, c)
    \/ SetConnector(h) \/ Login(h) \/ FinalizeLogin(h)
    \/ \E a \in Keys : HandleConnectorCallback(h, a) \/ HandleApproval(h, a)
    \/ DeleteAuthRequest(h) \/ SendCodeResponse(h) \/ Abort(h)

-----------------------------------------------------------------------------
(* Garbage collection.  memory and SQL delete the expired objects with one *)
(* statement per kind; etcd and kubernetes list them and delete them one   *)
(* by one, and go on to the codes only if every request could be deleted.  *)

ExpiredRequests(t) == {a \in stored : t > reqs[a].expiry}

ExpiredCodes(t) == {k \in codes : t > k.expiry}

\* Mutant: a request is taken for expired at its very expiry.
ListedTooEarly(t) == {a \in stored : t >= reqs[a].expiry}

\* The requests a collection called at time t takes on.
Listed(t) == ExpiredRequests(t)

\* Mutant: a collection that finds no expired request returns early.
CollectRequestsEarlyReturn(g) ==
    /\ g \in Running[backend] /\ gc[g].stage = "idle"
    /\ gc' = IF Listed(now) = {} THEN gc
             ELSE [gc EXCEPT ![g] = [NoCollection EXCEPT !.stage = "requests", !.at = now]]
    /\ Delete(Listed(now))
    /\ UNCHANGED <<backend, now, codes, pc, job, chosen, made, responses, faults>>

CollectRequests(g) ==
    /\ g \in Running[backend] /\ gc[g].stage = "idle"
    /\ gc' = [gc EXCEPT ![g] = [NoCollection EXCEPT
                !.stage = "requests", !.at = now,
                !.reqs = IF Listing THEN {[key |-> a, id |-> reqs[a].id] : a \in Listed(now)}
                         ELSE {}]]
    /\ IF Listing THEN UNCHANGED <<stored, reqs>> ELSE Delete(Listed(now))
    /\ UNCHANGED <<backend, now, codes, pc, job, chosen, made, responses, faults>>

\* An object that is gone by now counts as a failure.
DeleteListedRequest(g, x) ==
    /\ gc[g].stage = "requests" /\ x \in gc[g].reqs
    /\ Delete({x.id})
    /\ gc' = [gc EXCEPT ![g].reqs = @ \ {x}, ![g].failed = @ \/ x.id \notin stored]
    /\ UNCHANGED <<backend, now, codes, pc, job, chosen, made, responses, faults>>

CollectCodes(g) ==
    /\ gc[g].stage = "requests" /\ gc[g].reqs = {}
    /\ gc' = [gc EXCEPT ![g] =
                IF gc[g].failed THEN NoCollection
                ELSE [gc[g] EXCEPT !.stage = "codes",
                         !.codes = IF Listing THEN ExpiredCodes(gc[g].at) ELSE {}]]
    /\ codes' = IF Listing THEN codes ELSE codes \ ExpiredCodes(gc[g].at)
    /\ UNCHANGED <<backend, now, stored, reqs, pc, job, chosen, made, responses, faults>>

\* A code that is gone by now is an error too, but the last thing to be done.
DeleteListedCode(g, k) ==
    /\ gc[g].stage = "codes" /\ k \in gc[g].codes
    /\ codes' = codes \ {k}
    /\ gc' = [gc EXCEPT ![g].codes = @ \ {k}]
    /\ UNCHANGED <<backend, now, stored, reqs, pc, job, chosen, made, responses, faults>>

EndCollection(g) ==
    /\ gc[g].stage = "codes" /\ gc[g].codes = {}
    /\ gc' = [gc EXCEPT ![g] = NoCollection]
    /\ UNCHANGED <<backend, now, stored, reqs, codes, pc, job, chosen, made, responses, faults>>

\* A collection fails, or its server stops; the loop starts another one.
FailCollection(g) ==
    /\ gc[g].stage # "idle"
    /\ faults < MaxFaults
    /\ faults' = faults + 1
    /\ gc' = [gc EXCEPT ![g] = NoCollection]
    /\ UNCHANGED <<backend, now, stored, reqs, codes, pc, job, chosen, made, responses>>

Collect(g) ==
    \/ CollectRequests(g) \/ CollectCodes(g) \/ EndCollection(g)
    \/ \E x \in gc[g].reqs : DeleteListedRequest(g, x)
    \/ \E k \in gc[g].codes : DeleteListedCode(g, k)

-----------------------------------------------------------------------------
Tick ==
    /\ now < MaxTime
    /\ now' = now + 1
    /\ UNCHANGED <<backend, stored, reqs, codes, pc, job, chosen, gc, made, responses, faults>>

Next ==
    \/ \E a \in AuthReqs : HandleAuthorization(a)
    \/ \E h \in Handlers : Handle(h)
    \/ \E k \in codes : DeleteAuthCode(k)
    \/ \E g \in Collectors : Collect(g) \/ FailCollection(g)
    \/ Tick

Spec == Init /\ [][Next]_vars

\* startGarbageCollection's loop never ends.
FairSpec == Spec /\ \A g \in Collectors : WF_vars(Collect(g))

-----------------------------------------------------------------------------
(* Properties.                                                             *)

\* Type correctness of the stored objects, the handlers and the collections;
\* nothing is left of an object that is not stored.
TypeOK ==
    /\ backend \in Backends
    /\ now \in Nat
    /\ stored \subseteq Keys
    /\ reqs \in [Keys -> AuthRequest]
    /\ \A a \in Keys \ stored : reqs[a] = ZeroAuthRequest
    /\ codes \subseteq AuthCode
    /\ pc \in [Handlers -> {"idle", "setConnector", "login", "finalize", "delete", "respond"}]
    /\ job \in [Handlers -> Job]
    /\ chosen \subseteq Keys \X Connectors
    /\ gc \in [Collectors -> Collection]
    /\ made \subseteq AuthReqs
    /\ responses \in [Keys -> Nat]
    /\ faults \in 0 .. MaxFaults

\* An authorization request is answered at most once, whatever approvals,
\* logins and collections run together: DeleteAuthRequest is atomic.  Not so on
\* etcd, where an update that is late brings a deleted request back, for a second
\* approval that has passed its checks to delete.
OneResponsePerRequest == ~Upsert => \A a \in Keys : responses[a] <= 1

\* Only an approval removes a login that has not expired: whatever a garbage
\* collection listed earlier, what it deletes has expired, and so has a code
\* unless it was redeemed.
OnlyExpiredAreCollected ==
    [][/\ \A a \in stored \ stored' :
             now > reqs[a].expiry \/ \E h \in Handlers : pc[h] = "delete" /\ job[h].id = a
       /\ \A k \in codes \ codes' :
             now > k.expiry \/ gc' = gc]_vars

\* "The connector used to login the user" (storage.AuthRequest.ConnectorID): a
\* code names the connector that its identity is from.
CodesNameTheirConnector == \A k \in codes : k.conn = k.claims

\* The same, as long as the login pages of one connector only were opened for
\* the request: no overlap of its handlers, no deletion and no late update leaves
\* an identity beside no connector, or beside one that was never asked for.
CodesNameOnlyConnector ==
    \A k \in codes :
        (\A c \in Connectors : <<k.req, c>> \in chosen => c = k.claims) => k.conn = k.claims

\* "GarbageCollect deletes all expired AuthCodes and AuthRequests" (storage.go).
AllExpiredAreCollected ==
    /\ \A a \in AuthReqs : a \in stored /\ now > reqs[a].expiry ~> a \notin stored
    /\ \A a \in AuthReqs :
          (\E k \in ExpiredCodes(now) : k.req = a) ~> ~(\E k \in ExpiredCodes(now) : k.req = a)

\* The same for storages whose updates fail for a missing object: expired objects
\* are collected, although a collection gives up when another one, or an approval,
\* was faster, or the storage fails.
ExpiredAreCollected == Upsert \/ AllExpiredAreCollected

=============================================================================
