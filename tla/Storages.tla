------------------------------ MODULE Storages ------------------------------
(***************************************************************************)
(* The storages of dex with their callers, and the contract of the Storage *)
(* interface they are to implement.                                        *)
(***************************************************************************)
EXTENDS MemoryStorage, EtcdStorage, KubernetesStorage, SQLStorage

CONSTANTS
    Backends,       \* the storages to consider
    UsedKinds,      \* the kinds of objects to consider
    UsedNames       \* the names in use for each kind

ASSUME StoragesAssumption ==
    /\ Backends \subseteq {"memory", "etcd", "kubernetes", "postgres", "sqlite3"}
    /\ UsedKinds \subseteq Kinds
    /\ UsedNames \in [Kinds -> SUBSET Names]

Init ==
    /\ backend \in Backends
    /\ kind \in UsedKinds
    /\ static \in SUBSET {Key(kind, n) : n \in UsedNames[kind]}
    /\ static # {} => kind \in {"Client", "Password", "Connector"}
    /\ store = [s \in Names |-> NoObject]
    /\ known = [s \in Names |-> {}]
    /\ calls = [p \in Procs |-> NoCall]
    /\ pc = [p \in Procs |-> "idle"]
    /\ seen = [p \in Procs |-> NoObject]
    /\ late = {}
    /\ holder = Nobody

Invocation(p) == \E op \in Operations[kind], n \in UsedNames[kind] : Invoke(p, op, n)

Step(p) ==
    \/ StaticCall(p)
    \/ MemoryLock(p) \/ MemoryMethod(p)
    \/ EtcdMethod(p)
    \/ K8sMethod(p)
    \/ SQLMethod(p)
    \/ Unreachable(p)

Next ==
    \/ \E p \in Procs : Invocation(p) \/ Step(p)
    \/ \E r \in late : Arrive(r)

Spec == Init /\ [][Next]_callVars

-----------------------------------------------------------------------------
(* The refinement mapping.                                                 *)

Hashed == backend = "kubernetes" /\ kind = "OfflineSessions"

Folded == backend = "etcd" /\ kind = "OfflineSessions"

Slot(n) == IF Hashed THEN SessionHash[n] ELSE IF Folded THEN LowerCase[n] ELSE n

\* A static object hides the one that is stored under its name.
AbstractObject(n) ==
    IF n \in static THEN StaticObject(n)
    ELSE LET o == store[Slot(n)]
         IN  IF o = NoObject \/ (Hashed /\ o.name # n) \/ (Folded /\ Slot(n) # n)
             THEN NoObject ELSE Standard(o)

Contract == INSTANCE Storage WITH
    upsert  <- backend = "etcd",
    fold    <- Folded,
    clashes <- {c \in Names \X Names : Slot(c[1]) = Slot(c[2])},
    objects <- [n \in Names |-> AbstractObject(n)],
    late    <- {Purpose(r) : r \in late}

\* Every storage, with or without static objects in front of it, implements the
\* contract: calls of any two callers appear to take effect one at a time,
\* an update that was acknowledged is not lost to a concurrent one, no field of
\* an object is lost between a write and a read, a call that fails has its
\* effect once at most, and objects whose Kubernetes names collide are never
\* taken for each other.  The contract has three exceptions: etcd makes an object
\* of an update without one, it merges the sessions of users whose IDs differ in
\* case only, and Kubernetes may delete the wrong one of two sessions whose names
\* collide, if somebody else deletes the right one and creates the other between
\* the check and the deletion.
ImplementsContract == Contract!Spec

\* The mutex of the memory storage and the only connection of sqlite3 are held
\* by calls in progress, so that whoever waits for them gets them: a method
\* gives them back however it ends.  An updater that panics in a transaction of
\* sqlite3 is the exception: ExecTx (storage/sql/sql.go) does not roll back
\* then, and every later call waits forever.
HeldByCallInProgress ==
    /\ holder \in Procs => pc[holder] \in {"locked", "read"}
    /\ holder = Abandoned => backend = "sqlite3"

=============================================================================
