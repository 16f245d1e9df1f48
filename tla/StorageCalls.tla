---------------------------- MODULE StorageCalls ----------------------------
(***************************************************************************)
(* What the storages have in common: callers that are inside a method of   *)
(* the Storage interface, a database with one slot per object, and the     *)
(* read-only overlay of objects from the configuration file                *)
(* (storage/static.go) that is put in front of a storage.                  *)
(***************************************************************************)
EXTENDS StorageTypes, Naturals

CONSTANT
    MaxLate     \* bound on the requests for a kind that are late at the same time

ASSUME MaxLateAssumption == MaxLate \in [Kinds -> Nat]

VARIABLES
    backend,    \* the storage implementation in use
    kind,       \* the kind of object the callers work with
    static,     \* names of the objects of that kind given in the configuration
    store,      \* the database: the object in each slot
    known,      \* who has read the current revision of each slot
    calls,      \* the call each caller is in, or the answer of its last one
    pc,         \* how far each call has come
    seen,       \* the object each call has read
    late,       \* requests sent by calls that have failed since
    holder      \* the caller in the mutex, or on the only connection

setup == <<backend, kind, static>>

callVars == <<setup, store, known, calls, pc, seen, late, holder>>

NoCall == [op |-> "none", name |-> NoName, answer |-> "none", value |-> {}]

\* A request that may reach the database after its sender gave up: create, put
\* and delete the value in a slot.  first is about a put: nothing was in the slot.
Requests(k) ==
    [op : {"create", "update", "delete"}, name : Names, slot : Names, by : Procs,
     value : Objects(k) \cup {NoObject}, first : BOOLEAN]

ASSUME CallersAssumption == \A k \in Kinds : Procs \cap Requests(k) = {}

\* The mutex or the connection is free, or held by a call that has ended.
Nobody == "nobody"

Abandoned == "abandoned"

ASSUME HolderAssumption == {Nobody, Abandoned} \cap Procs = {}

Invoke(p, op, n) ==
    /\ pc[p] = "idle"
    /\ pc' = [pc EXCEPT ![p] = "called"]
    /\ calls' = [calls EXCEPT ![p] = [op |-> op, name |-> n, answer |-> "pending", value |-> {}]]
    /\ known' = [s \in Names |-> known[s] \ {p}]
    /\ UNCHANGED <<setup, store, seen, late, holder>>

-----------------------------------------------------------------------------
(* Steps of a method.                                                      *)

At(p, where, ops) == pc[p] = where /\ calls[p].op \in ops

\* Spellings of an email are the same name to a caller.
Standard(o) == [o EXCEPT !.name = Key(kind, @)]

\* The slot of the object that the call is about.
KeyOf(p) == Key(kind, calls[p].name)

\* The method returns.
Answer(p, answer, value) ==
    /\ calls' = [calls EXCEPT ![p] = [NoCall EXCEPT !.answer = answer,
                                                    !.value = {Standard(o) : o \in value}]]
    /\ pc' = [pc EXCEPT ![p] = "idle"]
    /\ seen' = [seen EXCEPT ![p] = NoObject]

\* The caller goes on with what it read from the slot.
Read(p, s) ==
    /\ pc' = [pc EXCEPT ![p] = "read"]
    /\ seen' = [seen EXCEPT ![p] = store[s]]
    /\ known' = [known EXCEPT ![s] = @ \cup {p}]
    /\ UNCHANGED <<store, calls>>

\* The slot gets a new content, which nobody has read yet.
Put(s, o) ==
    /\ store' = [store EXCEPT ![s] = o]
    /\ known' = [known EXCEPT ![s] = {}]

Keep == UNCHANGED <<store, known>>

-----------------------------------------------------------------------------
(* The overlay of static clients, passwords and connectors.                *)

\* The static password with this email, in any spelling; for clients and
\* connectors, the one with this ID.
isStatic(n) == Key(kind, n) \in static

StaticObject(n) == Created("config", n)

\* Reading a static object does not reach the storage behind it, and writing
\* one is refused.
StaticCall(p) ==
    /\ At(p, "called", Operations[kind] \ {"list"})
    /\ isStatic(calls[p].name)
    /\ IF calls[p].op = "get" THEN Answer(p, "ok", {StaticObject(Key(kind, calls[p].name))})
                              ELSE Answer(p, "error", {})
    /\ UNCHANGED <<setup, store, known, late, holder>>

\* Lists prefer the static object to one of the same name behind it.
StaticList(os) == {o \in os : ~isStatic(o.name)} \cup {StaticObject(n) : n \in static}

\* The call is passed on to the storage behind the overlay.
Called(p, b, ops) ==
    /\ backend = b
    /\ At(p, "called", ops)
    /\ calls[p].op = "list" \/ ~isStatic(calls[p].name)

Stored == {store[s] : s \in Names} \ {NoObject}

-----------------------------------------------------------------------------
(* Requests to a database across the network.                              *)

\* What a late request is for, to its sender.
Purpose(r) == [op |-> r.op, name |-> Key(kind, r.name), by |-> r.by]

\* A write request that the database carries out if the condition cond holds,
\* and refuses otherwise.  The answer can get lost, the request can fail to
\* reach the database, and it can reach it after the call has timed out.  Of late
\* requests that a caller sends for the same purpose one is kept in sight; others
\* may be thought of as another caller's.
Request(p, s, o, cond, refusal) ==
    LET r == [op |-> calls[p].op, name |-> calls[p].name, slot |-> s, by |-> p, value |-> o,
              first |-> seen[p] = NoObject]
    IN  \/ /\ IF cond THEN Put(s, o) /\ Answer(p, "ok", {})
                       ELSE Keep /\ Answer(p, refusal, {})
           /\ UNCHANGED late
        \/ /\ IF cond THEN Put(s, o) ELSE Keep
           /\ Answer(p, "error", {})
           /\ UNCHANGED late
        \/ /\ Cardinality(late) < MaxLate[kind]
           /\ \A q \in late : Purpose(q) # Purpose(r)
           /\ late' = late \cup {r}
           /\ known' = [known EXCEPT ![s] = IF p \in @ THEN (@ \ {p}) \cup {r} ELSE @]
           /\ Answer(p, "error", {})
           /\ UNCHANGED store

\* The database carries out a late request.  A put is still conditional on the
\* revision its sender read, or on the slot being empty if it was then.
Accepted(r) ==
    \/ r.op = "create" /\ store[r.slot] = NoObject
    \/ r.op = "update" /\ r.first /\ store[r.slot] = NoObject
    \/ r.op = "update" /\ ~r.first /\ r \in known[r.slot]
    \/ r.op = "delete"

\* A request reaches the database late.
Arrive(r) ==
    /\ late' = late \ {r}
    /\ IF Accepted(r)
       THEN Put(r.slot, r.value)
       ELSE known' = [known EXCEPT ![r.slot] = @ \ {r}] /\ UNCHANGED store
    /\ UNCHANGED <<setup, calls, pc, seen, holder>>

\* A call fails because the database cannot be reached.
Unreachable(p) ==
    /\ backend \in {"etcd", "kubernetes", "postgres"}
    /\ pc[p] \in {"called", "read"}
    /\ calls[p].op = "list" \/ ~isStatic(calls[p].name)
    /\ Answer(p, "error", {})
    /\ UNCHANGED <<setup, store, known, late, holder>>

=============================================================================
