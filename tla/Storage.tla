------------------------------ MODULE Storage ------------------------------
(***************************************************************************)
(* The contract of the Storage interface (storage/storage.go), for the     *)
(* objects of one kind: "Implementations are required to be able to        *)
(* perform atomic compare-and-swap updates", "Delete methods MUST be       *)
(* atomic", and an update runs "within a transaction".                     *)
(*                                                                         *)
(* A call takes effect at one moment between its invocation and its        *)
(* return, and its answer is the one that moment calls for.  A call may    *)
(* also fail, with an error that is neither ErrNotFound nor                *)
(* ErrAlreadyExists; then it had no effect, or it had its effect, or the   *)
(* effect is still on its way to the database and may come later.          *)
(*                                                                         *)
(* What some storage does otherwise is a parameter: upsert, fold, and      *)
(* clashes, which also allow a delete to hit the wrong object.             *)
(***************************************************************************)
EXTENDS StorageTypes

VARIABLES
    kind,       \* the kind of the objects
    upsert,     \* updating an object that does not exist creates it
    fold,       \* names that differ in case only name one object
    clashes,    \* pairs of names that the storage cannot hold together
    objects,    \* the object under each name
    calls,      \* the call each caller is in
    late        \* writes of failed calls that may still take effect

vars == <<kind, upsert, fold, clashes, objects, calls, late>>

\* Between calls, a caller has the answer of the last one.
NoCall == [op |-> "none", name |-> NoName, answer |-> "none", value |-> {}]

Writes == [op : {"create", "update", "delete"}, name : Names, by : Procs]

Init ==
    /\ kind \in Kinds
    /\ upsert \in BOOLEAN
    /\ fold \in BOOLEAN /\ (fold => kind = "OfflineSessions")
    /\ clashes \subseteq Names \X Names
    /\ objects \in [Names -> {Created("config", n) : n \in Names} \cup {NoObject}]
    /\ calls = [p \in Procs |-> NoCall]
    /\ late = {}

-----------------------------------------------------------------------------
Invoke(p, op, n) ==
    /\ calls[p].answer # "pending"
    /\ op \in Operations[kind]
    /\ calls' = [calls EXCEPT ![p] = [op |-> op, name |-> n, answer |-> "pending", value |-> {}]]
    /\ UNCHANGED <<kind, upsert, fold, clashes, objects, late>>

\* p is in a call of the operation op on the object named k.
Pending(p, op, k) ==
    /\ calls[p].op = op
    /\ calls[p].answer = "pending"
    /\ k = Key(kind, calls[p].name)

Answer(p, answer, value) ==
    calls' = [calls EXCEPT ![p] = [NoCall EXCEPT !.answer = answer, !.value = value]]

\* Where the object named k is.
Place(k) == IF fold THEN LowerCase[k] ELSE k

Object(k) == objects[Place(k)]

\* An update finds an object to update.  Keys are never created: the first
\* update starts from the zero value.
Updatable(k) == Object(k) # NoObject \/ upsert \/ kind = "Keys"

Current(k) == IF Object(k) = NoObject THEN ZeroObject ELSE Object(k)

\* What an operation of p makes of the object named k.
Effect(op, k, p) ==
    CASE op = "create" /\ Object(k) = NoObject -> Created(p, k)
      [] op = "update" /\ Updatable(k)         -> Updated(Current(k), p)
      [] op = "delete"                         -> NoObject
      [] OTHER                                 -> Object(k)

\* The object that an operation on the one named k is carried out on: a delete
\* may hit another one with which it clashes.
Target(op, k) ==
    {k} \cup {n \in Names : op = "delete" /\ <<n, k>> \in clashes /\ Object(n) # NoObject}

Carry(op, k, p) == objects' = [objects EXCEPT ![Place(k)] = Effect(op, k, p)]

Taken(k) == Object(k) # NoObject \/ \E n \in Names : objects[n] # NoObject /\ <<n, k>> \in clashes

Create(p) ==
    \E k \in Names :
        /\ Pending(p, "create", k)
        /\ \/ ~Taken(k) /\ Answer(p, "ok", {})
           \/ Taken(k) /\ Answer(p, "alreadyExists", {})
        /\ IF Taken(k) THEN UNCHANGED objects ELSE Carry("create", k, p)
        /\ UNCHANGED <<kind, upsert, fold, clashes, late>>

\* Until they are first updated, keys may be read as the zero value.
Get(p) ==
    \E k \in Names :
        /\ Pending(p, "get", k)
        /\ \/ Object(k) # NoObject /\ Answer(p, "ok", {Object(k)})
           \/ Object(k) = NoObject /\ Answer(p, "notFound", {})
           \/ Object(k) = NoObject /\ kind = "Keys" /\ Answer(p, "ok", {ZeroObject})
        /\ UNCHANGED <<kind, upsert, fold, clashes, objects, late>>

List(p) ==
    /\ \E k \in Names : Pending(p, "list", k)
    /\ Answer(p, "ok", {objects[k] : k \in Names} \ {NoObject})
    /\ UNCHANGED <<kind, upsert, fold, clashes, objects, late>>

Update(p) ==
    \E k \in Names, op \in {"update", "updateFails", "updatePanics"} :
        /\ Pending(p, op, k)
        /\ Carry(op, k, p)
        /\ Answer(p, IF ~Updatable(k) THEN "notFound"
                     ELSE CASE op = "updateFails"  -> "error"
                            [] op = "updatePanics" -> "panic"
                            [] op = "update"       -> "ok", {})
        /\ UNCHANGED <<kind, upsert, fold, clashes, late>>

Delete(p) ==
    \E k \in Names : \E n \in Target("delete", k) :
        /\ Pending(p, "delete", k)
        /\ Carry("delete", n, p)
        /\ Answer(p, IF Object(n) = NoObject THEN "notFound" ELSE "ok", {})
        /\ UNCHANGED <<kind, upsert, fold, clashes, late>>

\* A call fails.  The first update of the keys is a create in Kubernetes, and
\* fails as one.
Fail(p) ==
    \E k \in Names :
        /\ Pending(p, calls[p].op, k)
        /\ \/ Answer(p, "error", {})
           \/ kind = "Keys" /\ calls[p].op = "update" /\ Answer(p, "alreadyExists", {})
        /\ \/ UNCHANGED <<objects, late>>
           \/ /\ \E n \in Target(calls[p].op, k) : Carry(calls[p].op, n, p)
              /\ UNCHANGED late
           \/ /\ late' = late \cup ({[op |-> calls[p].op, name |-> k, by |-> p]} \cap Writes)
              /\ UNCHANGED objects
        /\ UNCHANGED <<kind, upsert, fold, clashes>>

\* A write of a failed call reaches the database after all, or is dropped.
Late(w) ==
    /\ late' = late \ {w}
    /\ \/ UNCHANGED objects
       \/ \E n \in Target(w.op, w.name) : Carry(w.op, n, w.by)
    /\ UNCHANGED <<kind, upsert, fold, clashes, calls>>

Next ==
    \/ \E p \in Procs :
        \/ \E n \in Names : \E op \in Operations[kind] : Invoke(p, op, n)
        \/ Create(p) \/ Get(p) \/ List(p) \/ Update(p) \/ Delete(p)
        \/ Fail(p)
    \/ \E w \in late : Late(w)

Spec == Init /\ [][Next]_vars

=============================================================================
