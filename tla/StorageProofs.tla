---------------------------- MODULE StorageProofs ----------------------------
(***************************************************************************)
(* Every storage implements the contract, for any callers, names and late  *)
(* requests.                                                               *)
(***************************************************************************)
EXTENDS StorageInvariant

\* Leaves are for Zenon, unless they cite SMT.
USE Zenon

-----------------------------------------------------------------------------
(* The initial state.                                                      *)

\* The contract speaks of the same kinds of objects.
LEMMA SameTypes ==
    /\ Contract!Kinds = Kinds /\ Contract!Operations = Operations
    /\ Contract!ZeroObject = ZeroObject /\ Contract!NoCall = NoCall
    /\ \A k, n : Contract!Key(k, n) = Key(k, n)
    /\ \A p, n : Contract!Created(p, n) = Created(p, n)
    /\ \A o, p : Contract!Updated(o, p) = Updated(o, p)
<1>1. Contract!Kinds = Kinds
  BY DEF Contract!Kinds, Kinds, Contract!Fields, Fields
<1> QED
  BY <1>1
     DEF Contract!Operations, Operations, Contract!ZeroObject, ZeroObject, Contract!NoCall,
         NoCall, Contract!Key, Key, Contract!Created, Created, Contract!Updated, Updated

\* An initial state is one of the contract.
LEMMA InitImplements == Init => Contract!Init
<1> SUFFICES ASSUME Init PROVE Contract!Init
  OBVIOUS
<1>1. kind \in Kinds /\ calls = [p \in Procs |-> NoCall]
  BY StoragesAssumption DEF Init
<1>2. \A n \in Names : AbstractObject(n) \in {Created("config", m) : m \in Names} \cup {NoObject}
  BY SlotFacts, StorageAssumption DEF Init, AbstractObject, StaticObject
<1>3. {Purpose(r) : r \in late} = {}
  BY DEF Init
<1> QED
  BY <1>1, <1>2, <1>3, SameTypes DEF Contract!Init, Folded

-----------------------------------------------------------------------------
(* Steps of the contract.                                                  *)

AbstractObjects == [n \in Names |-> AbstractObject(n)]

AbstractLate == {Purpose(r) : r \in late}

\* Where the contract has the object named k, and which one it is.
Place(k) == IF Folded THEN LowerCase[k] ELSE k

Here(k) == AbstractObjects[Place(k)]

\* The state of the contract depends on these variables only.
LEMMA SameObjects ==
    /\ UNCHANGED <<backend, kind, static, store>> => AbstractObjects' = AbstractObjects
    /\ UNCHANGED <<backend, kind, static>> =>
          /\ (backend = "etcd")' = (backend = "etcd") /\ Folded' = Folded
          /\ {c \in Names \X Names : Slot(c[1]) = Slot(c[2])}' =
             {c \in Names \X Names : Slot(c[1]) = Slot(c[2])}
    /\ UNCHANGED <<kind, late>> => AbstractLate' = AbstractLate
BY SMT
DEF AbstractObjects, AbstractObject, Slot, Hashed, Folded, StaticObject, Standard, AbstractLate,
    Purpose

\* The rest of the contract's state.
SameRest ==
    UNCHANGED <<kind, backend = "etcd", Folded,
                {c \in Names \X Names : Slot(c[1]) = Slot(c[2])}, {Purpose(r) : r \in late}>>

\* It changes with late requests only.
LEMMA RestFacts == UNCHANGED <<setup, late>> => SameRest
BY SameObjects DEF setup, AbstractLate, SameRest

\* The place of a name is a name with the same slot.
LEMMA PlaceFacts ==
    ASSUME Inv, NEW k \in Names
    PROVE  /\ Place(k) \in Names /\ Slot(k) \in Names /\ Slot(Place(k)) = Slot(k)
           /\ Place(k) \in static => Place(k) = k
           /\ Folded => Slot(k) = Place(k) /\ static = {}
           /\ Hashed => ~Folded /\ static = {}
           /\ ~Folded => Place(k) = k
<1>1. Hashed \/ Folded => static = {}
  BY DEF Hashed, Folded, Inv, Types
<1> QED
  BY <1>1, SlotFacts, StorageAssumption DEF Place

\* The object under a name of the contract is the one in its slot.
LEMMA AbstractFacts ==
    ASSUME Inv, NEW k \in Names, k \notin static
    PROVE  /\ Slot(k) \in Names
           /\ Here(k) =
                 IF store[Slot(k)] = NoObject \/ (Hashed /\ store[Slot(k)].name # k)
                 THEN NoObject ELSE Standard(store[Slot(k)])
           /\ Here(k) = NoObject
                <=> store[Slot(k)] = NoObject \/ (Hashed /\ store[Slot(k)].name # k)
<1>1. /\ Slot(k) \in Names /\ Place(k) \in Names /\ Place(k) \notin static
      /\ Slot(Place(k)) = Slot(k) /\ (Folded => Slot(k) = Place(k)) /\ (Hashed => Place(k) = k)
  BY PlaceFacts
<1>2. store[Slot(k)] # NoObject => Standard(store[Slot(k)]) # NoObject
  BY <1>1, ObjectFacts DEF Inv, Types, MaybeObjects
<1>3. Here(k) = AbstractObject(Place(k))
  BY <1>1 DEF Here, AbstractObjects
<1> QED
  BY <1>1, <1>2, <1>3 DEF AbstractObject

\* A write of a slot is one of the object that the contract has there.
LEMMA PutImplements ==
    ASSUME Inv, NEW k \in Names, Key(kind, k) = k, k \notin static, NEW o \in MaybeObjects,
           o # NoObject /\ Hashed => o.name = k,
           Hashed => store[Slot(k)] = NoObject \/ store[Slot(k)].name = k,
           store' = [store EXCEPT ![Slot(k)] = o], UNCHANGED setup
    PROVE  AbstractObjects' =
              [AbstractObjects EXCEPT ![Place(k)] = IF o = NoObject THEN NoObject ELSE Standard(o)]
<1> DEFINE j == Place(k)
<1>0. /\ Slot(k) \in Names /\ UNCHANGED <<backend, kind, static>>
      /\ j \in Names /\ j \notin static /\ Slot(j) = Slot(k)
      /\ (Folded => Slot(k) = j) /\ (Hashed => ~Folded) /\ (~Folded => j = k)
  BY PlaceFacts DEF setup
<1>1. \A n : /\ Hashed' = Hashed /\ Folded' = Folded
             /\ Slot(n)' = Slot(n) /\ Standard(n)' = Standard(n)
             /\ StaticObject(n)' = StaticObject(n)
  BY <1>0 DEF Hashed, Folded, Slot, Standard, StaticObject
<1> HIDE DEF j
<1>2. \A s \in Names : store'[s] = IF s = Slot(k) THEN o ELSE store[s]
  BY <1>0 DEF Inv, Types
<1>3. \A n \in Names : n = j =>
         AbstractObject(n)' = IF o = NoObject THEN NoObject ELSE Standard(o)
  BY <1>0, <1>1, <1>2, SMT DEF AbstractObject
<1>4. ASSUME NEW n \in Names, n # j PROVE AbstractObject(n)' = AbstractObject(n)
  <2>0. Slot(n) \in Names
    BY SlotFacts
  <2>1. CASE Slot(n) # Slot(k)
    BY <1>0, <1>1, <1>2, <2>0, <2>1, SMT DEF AbstractObject
  <2>2. CASE Slot(n) = Slot(k) /\ Hashed
    BY <1>0, <1>1, <1>2, <1>4, <2>0, <2>2 DEF AbstractObject
  <2>3. CASE Slot(n) = Slot(k) /\ Folded
    BY <1>0, <1>1, <1>2, <1>4, <2>0, <2>3 DEF AbstractObject
  <2>4. ~Hashed /\ ~Folded => Slot(n) = n /\ Slot(k) = k
    BY SlotFacts
  <2> QED
    BY <1>0, <1>4, <2>1, <2>2, <2>3, <2>4
<1>5. AbstractObjects' = [n \in Names |-> AbstractObject(n)']
  BY DEF AbstractObjects
<1> QED
  BY <1>0, <1>3, <1>4, <1>5 DEF AbstractObjects, j

\* The objects of the contract, and what an operation on one can be carried out on.
LEMMA ObjectHere ==
    /\ \A k : Contract!Place(k) = Place(k) /\ Contract!Object(k) = Here(k)
    /\ \A op, k, p : Contract!Carry(op, k, p) <=>
          AbstractObjects' = [AbstractObjects EXCEPT ![Place(k)] = Contract!Effect(op, k, p)]
    /\ \A op, k : k \in Contract!Target(op, k)
    /\ \A k, n \in Names : Slot(n) = Slot(k) /\ Here(n) # NoObject
          => n \in Contract!Target("delete", k)
<1>1. \A k : Contract!Place(k) = Place(k) /\ Contract!Object(k) = Here(k)
  BY DEF Contract!Place, Contract!Object, Place, Here, AbstractObjects
<1>2. \A op, k, p : Contract!Carry(op, k, p) <=>
         AbstractObjects' = [AbstractObjects EXCEPT ![Place(k)] = Contract!Effect(op, k, p)]
  BY <1>1 DEF Contract!Carry, AbstractObjects
<1>3. ASSUME NEW k \in Names, NEW n \in Names, Slot(n) = Slot(k), Here(n) # NoObject
      PROVE  n \in Contract!Target("delete", k)
  <2>1. <<n, k>> \in {c \in Names \X Names : Slot(c[1]) = Slot(c[2])}
    BY <1>3
  <2> QED
    BY <1>1, <1>3, <2>1 DEF Contract!Target
<1>4. \A op, k : k \in Contract!Target(op, k)
  BY DEF Contract!Target
<1> QED
  BY <1>1, <1>2, <1>3, <1>4

\* The effects of the contract.
LEMMA EffectFacts ==
    ASSUME NEW k \in Names, NEW by \in Procs
    PROVE  /\ Here(k) = NoObject => Contract!Effect("create", k, by) = Created(by, k)
           /\ Here(k) # NoObject => Contract!Effect("create", k, by) = Here(k)
           /\ Here(k) = NoObject /\ Creating =>
                 Contract!Effect("update", k, by) = Updated(ZeroObject, by)
           /\ Here(k) # NoObject =>
                 Contract!Effect("update", k, by) = Updated(Here(k), by)
           /\ Here(k) = NoObject /\ ~Creating =>
                 Contract!Effect("update", k, by) = Here(k)
           /\ Contract!Effect("delete", k, by) = NoObject
           /\ \A op : op \notin {"create", "update", "delete"} =>
                 Contract!Effect(op, k, by) = Here(k)
           /\ Contract!Updatable(k) <=> Here(k) # NoObject \/ Creating
<1>1. Contract!Object(k) = Here(k)
  BY ObjectHere
<1> QED
  BY <1>1, SameTypes DEF Contract!Effect, Contract!Updatable, Contract!Current, Creating

\* What a call or a late request writes is the effect that the contract asks for.
LEMMA WriteImplements ==
    ASSUME Inv, NEW k \in Names, Key(kind, k) = k, k \notin static, NEW by \in Procs, NEW op,
           NEW o, Writes(op, k, by, o),
           Hashed => store[Slot(k)] = NoObject \/ store[Slot(k)].name = k,
           store' = [store EXCEPT ![Slot(k)] = o], UNCHANGED setup
    PROVE  Contract!Carry(op, k, by)
<1>0. Slot(k) \in Names /\ kind \in Kinds
  BY SlotFacts DEF Inv, Types
<1>1. o \in MaybeObjects /\ (o # NoObject /\ Hashed => o.name = k)
  BY WritesObjects
<1>3. AbstractObjects' =
        [AbstractObjects EXCEPT ![Place(k)] = IF o = NoObject THEN NoObject ELSE Standard(o)]
  BY <1>1, PutImplements
<1>4. Contract!Effect(op, k, by) = IF o = NoObject THEN NoObject ELSE Standard(o)
  <2>1. CASE op = "create"
    <3>1. PICK n \in Names : o = Created(by, n) /\ Key(kind, n) = k
      BY <2>1 DEF Writes
    <3>2. Standard(o) = Created(by, k) /\ o # NoObject
      BY <1>0, <3>1, ObjectFacts, SMT
    <3>3. Here(k) = NoObject
      BY <2>1, AbstractFacts DEF Writes
    <3> QED
      BY <2>1, <3>2, <3>3, EffectFacts
  <2>2. CASE op = "update" /\ store[Slot(k)] = NoObject
    <3>1. Standard(o) = Updated(ZeroObject, by) /\ o # NoObject
      BY <1>0, <2>2, ObjectFacts, SMT DEF Writes
    <3>2. Here(k) = NoObject /\ Creating
      BY <2>2, AbstractFacts DEF Writes
    <3> QED
      BY <2>2, <3>1, <3>2, EffectFacts
  <2>3. CASE op = "update" /\ store[Slot(k)] # NoObject
    <3>1. store[Slot(k)] \in WholeObjects
      BY <1>0, <2>3 DEF Inv, Types, MaybeObjects
    <3>2. o = Updated(store[Slot(k)], by)
      BY <2>3 DEF Writes
    <3>3. Standard(o) = Updated(Standard(store[Slot(k)]), by) /\ o # NoObject
      BY <1>0, <3>1, <3>2, ObjectFacts
    <3>4. Here(k) # NoObject /\ Here(k) = Standard(store[Slot(k)])
      BY <2>3, AbstractFacts DEF Writes
    <3> QED
      BY <2>3, <3>3, <3>4, EffectFacts
  <2>4. CASE op = "delete"
    BY <2>4, EffectFacts DEF Writes
  <2> QED
    BY <2>1, <2>2, <2>3, <2>4 DEF Writes
<1> QED
  BY <1>3, <1>4, ObjectHere

\* It is so for the object that the operation is about, or for the one that a
\* deletion hits.
LEMMA CarryImplements ==
    ASSUME Inv, NEW k \in Names, Key(kind, k) = k, k \notin static, NEW by \in Procs, NEW op,
           NEW o, Writes(op, k, by, o),
           store' = [store EXCEPT ![Slot(k)] = o], UNCHANGED setup
    PROVE  \E n \in Contract!Target(op, k) :
              /\ Contract!Carry(op, n, by)
              /\ op # "delete" => n = k
              /\ store[Slot(k)] # NoObject => op = "create" \/ Here(n) # NoObject
<1>1. CASE Hashed => store[Slot(k)] = NoObject \/ store[Slot(k)].name = k
  <2>1. Contract!Carry(op, k, by) /\ k \in Contract!Target(op, k)
    BY <1>1, WriteImplements, ObjectHere
  <2>2. store[Slot(k)] # NoObject => Here(k) # NoObject
    BY <1>1, AbstractFacts
  <2> QED
    BY <2>1, <2>2
<1>2. CASE Hashed /\ store[Slot(k)] # NoObject /\ store[Slot(k)].name # k
  <2> DEFINE n == store[Slot(k)].name
  <2>1. op = "delete" /\ o = NoObject
    BY <1>2 DEF Writes
  <2>2. Slot(k) \in Names /\ static = {} /\ (\A m : Slot(m) = SessionHash[m])
    BY <1>2, PlaceFacts, SlotFacts
  <2>3. n \in Names /\ Slot(n) = Slot(k)
    BY <1>2, <2>2 DEF Inv, Stores
  <2>4. n \notin static /\ Key(kind, n) = n
    BY <1>2, <2>2, KeyFacts DEF Hashed
  <2>5. Hashed => store[Slot(n)] = NoObject \/ store[Slot(n)].name = n
    BY <2>3
  <2>6. Writes(op, n, by, o)
    BY <2>1 DEF Writes
  <2> HIDE DEF n
  <2>7. Contract!Carry(op, n, by)
    BY <2>3, <2>4, <2>5, <2>6, WriteImplements
  <2>8. Here(n) # NoObject
    BY <1>2, <2>3, <2>4, AbstractFacts DEF n
  <2>9. n \in Contract!Target(op, k)
    BY <2>1, <2>3, <2>8, ObjectHere
  <2> QED
    BY <2>1, <2>7, <2>8, <2>9
<1> QED
  BY <1>1, <1>2

\* The call of p, as the contract sees it.
LEMMA PendingFacts ==
    ASSUME Inv, NEW p \in Procs, pc[p] # "idle"
    PROVE  /\ KeyOf(p) \in Names /\ Key(kind, KeyOf(p)) = KeyOf(p)
           /\ CallSlot(p) = Slot(KeyOf(p)) /\ CallSlot(p) \in Names
           /\ isStatic(calls[p].name) <=> KeyOf(p) \in static
           /\ Contract!Pending(p, calls[p].op, KeyOf(p))
           /\ calls[p].op \in Operations[kind]
<1>1. calls[p].answer = "pending"
  BY DEF Inv, Callers, InCall
<1>2. Contract!Pending(p, calls[p].op, KeyOf(p))
  BY <1>1, SameTypes DEF Contract!Pending, KeyOf
<1> QED
  BY <1>2, CallFacts

\* An answer is one of the contract, in the spelling of callers.
LEMMA AnswerImplements ==
    ASSUME NEW p, NEW answer, NEW value, Answer(p, answer, value)
    PROVE  /\ Contract!Answer(p, answer, {Standard(o) : o \in value})
           /\ value = {} => Contract!Answer(p, answer, {})
<1>1. Contract!Answer(p, answer, {Standard(o) : o \in value})
  BY SameTypes DEF Answer, Contract!Answer
<1>2. value = {} => {Standard(o) : o \in value} = {}
  BY AnswerFacts
<1> QED
  BY <1>1, <1>2

\* A call fails without an effect.
LEMMA FailImplements ==
    ASSUME Inv, NEW p \in Procs, pc[p] # "idle", UNCHANGED <<setup, store, late>>,
           \/ Answer(p, "error", {})
           \/ kind = "Keys" /\ calls[p].op = "update" /\ Answer(p, "alreadyExists", {})
    PROVE  Contract!Fail(p)
<1>1. \/ Contract!Answer(p, "error", {})
      \/ kind = "Keys" /\ calls[p].op = "update" /\ Contract!Answer(p, "alreadyExists", {})
  BY AnswerImplements
<1> QED
  BY <1>1, PendingFacts, SameObjects DEF Contract!Fail, setup, AbstractObjects, AbstractLate

\* A call writes, and the answer is lost.
LEMMA LostImplements ==
    ASSUME Inv, NEW p \in Procs, pc[p] # "idle", ~isStatic(calls[p].name), NEW o,
           Writes(calls[p].op, KeyOf(p), p, o), store' = [store EXCEPT ![CallSlot(p)] = o],
           Answer(p, "error", {}), UNCHANGED <<setup, late>>
    PROVE  Contract!Fail(p)
<1>1. Contract!Answer(p, "error", {})
  BY AnswerImplements
<1>2. \E n \in Contract!Target(calls[p].op, KeyOf(p)) : Contract!Carry(calls[p].op, n, p)
  BY PendingFacts, CarryImplements
<1> QED
  BY <1>1, <1>2, PendingFacts, RestFacts DEF Contract!Fail, SameRest

\* A call writes, and returns.
LEMMA WrittenImplements ==
    ASSUME Inv, NEW p \in Procs, pc[p] # "idle", ~isStatic(calls[p].name), NEW o,
           Writes(calls[p].op, KeyOf(p), p, o), store' = [store EXCEPT ![CallSlot(p)] = o],
           calls[p].op = "delete" => store[CallSlot(p)] # NoObject,
           Answer(p, "ok", {}), UNCHANGED <<setup, late>>
    PROVE  Contract!Create(p) \/ Contract!Update(p) \/ Contract!Delete(p)
<1> DEFINE k == KeyOf(p)
<1>1. Contract!Answer(p, "ok", {}) /\ SameRest
  BY AnswerImplements, RestFacts
<1>2. PICK n \in Contract!Target(calls[p].op, k) :
         /\ Contract!Carry(calls[p].op, n, p)
         /\ calls[p].op # "delete" => n = k
         /\ store[Slot(k)] # NoObject => calls[p].op = "create" \/ Here(n) # NoObject
  BY PendingFacts, CarryImplements
<1>3. k \in Names /\ k \notin static /\ CallSlot(p) = Slot(k)
  BY PendingFacts
<1>4. CASE calls[p].op = "create"
  <2>1. store[Slot(k)] = NoObject
    BY <1>3, <1>4 DEF Writes
  <2>2. ASSUME NEW m \in Names, Slot(m) = Slot(k) PROVE AbstractObjects[m] = NoObject
    <3>1. m \notin static
      <4>1. m \in static => ~Hashed /\ ~Folded
        BY <1>3, PlaceFacts
      <4>2. ~Hashed /\ ~Folded => Slot(m) = m /\ Slot(k) = k
        BY SlotFacts
      <4> QED
        BY <1>3, <2>2, <4>1, <4>2
    <3> QED
      BY <2>1, <2>2, <3>1 DEF AbstractObjects, AbstractObject
  <2>3. Here(k) = NoObject
    BY <1>3, <2>2, PlaceFacts DEF Here
  <2>4. ~Contract!Taken(k)
    <3>1. \A m \in Names : <<m, k>> \in {c \in Names \X Names : Slot(c[1]) = Slot(c[2])}
                               => Slot(m) = Slot(k)
      OBVIOUS
    <3> QED
      BY <2>2, <2>3, <3>1, ObjectHere DEF Contract!Taken, AbstractObjects
  <2>5. Contract!Pending(p, "create", k) /\ Contract!Carry("create", k, p)
    BY <1>2, <1>4, PendingFacts
  <2>6. Contract!Create(p)
    BY <1>1, <1>3, <2>4, <2>5, ZenonT(30) DEF Contract!Create, SameRest
  <2> QED
    BY <2>6
<1>5. CASE calls[p].op = "update"
  <2>1. Contract!Updatable(k)
    BY <1>3, <1>5, AbstractFacts, EffectFacts DEF Writes
  <2>2. Contract!Pending(p, "update", k) /\ Contract!Carry("update", k, p)
    BY <1>2, <1>5, PendingFacts
  <2>3. Contract!Update(p)
    BY <1>1, <1>3, <2>1, <2>2 DEF Contract!Update, SameRest
  <2> QED
    BY <2>3
<1>6. CASE calls[p].op = "delete"
  <2>1. Contract!Object(n) # NoObject
    BY <1>2, <1>3, <1>6, ObjectHere
  <2>2. /\ Contract!Pending(p, "delete", k) /\ Contract!Carry("delete", n, p)
        /\ n \in Contract!Target("delete", k)
    BY <1>2, <1>6, PendingFacts
  <2>3. Contract!Delete(p)
    BY <1>1, <1>3, <2>1, <2>2 DEF Contract!Delete, SameRest
  <2> QED
    BY <2>3
<1> QED
  BY <1>4, <1>5, <1>6 DEF Writes

\* A call returns without a write: create and delete are refused, get finds an
\* object or none, an update finds none or its updater panics.
LEMMA RefusedImplements ==
    ASSUME Inv, NEW p \in Procs, pc[p] # "idle", ~isStatic(calls[p].name),
           NEW answer, Answer(p, answer, {}), UNCHANGED <<setup, store, late>>,
           Refused(p, answer)
    PROVE  Contract!Create(p) \/ Contract!Get(p) \/ Contract!Update(p) \/ Contract!Delete(p)
<1> DEFINE k == KeyOf(p)
<1>1. Contract!Answer(p, answer, {}) /\ SameRest
  BY AnswerImplements, RestFacts
<1>2. /\ AbstractObjects' = AbstractObjects
      /\ \A op : Contract!Effect(op, k, p) = Here(k) => Contract!Carry(op, k, p)
  <2>1. AbstractObjects' = AbstractObjects
    BY SameObjects DEF setup
  <2>2. AbstractObjects = [AbstractObjects EXCEPT ![Place(k)] = Here(k)]
    BY DEF AbstractObjects, Here
  <2> QED
    BY <2>1, <2>2, ObjectHere
<1>3. k \in Names /\ k \notin static /\ CallSlot(p) = Slot(k)
      /\ Contract!Pending(p, calls[p].op, k)
  BY PendingFacts
<1>4. /\ Here(k) =
           IF store[Slot(k)] = NoObject \/ (Hashed /\ store[Slot(k)].name # k)
           THEN NoObject ELSE Standard(store[Slot(k)])
      /\ Here(k) = NoObject
           <=> store[Slot(k)] = NoObject \/ (Hashed /\ store[Slot(k)].name # k)
  BY <1>3, AbstractFacts
<1>5. CASE calls[p].op = "create" /\ answer = "alreadyExists" /\ store[CallSlot(p)] # NoObject
  <2>1. Contract!Taken(k)
    <3>1. CASE Hashed
      <4> DEFINE n == store[Slot(k)].name
      <4>0. Slot(k) \in Names /\ \A m : Slot(m) = SessionHash[m]
        BY <1>3, <3>1, SlotFacts
      <4>1. n \in Names /\ Slot(n) = Slot(k)
        BY <1>3, <1>5, <3>1, <4>0 DEF Inv, Stores
      <4>2. n \notin static /\ Place(n) = n
        BY <1>3, <3>1, <4>1, PlaceFacts
      <4>3. AbstractObjects[n] # NoObject
        BY <1>3, <1>5, <4>1, <4>2, AbstractFacts, SMT DEF Here
      <4> HIDE DEF n
      <4>4. <<n, k>> \in {c \in Names \X Names : Slot(c[1]) = Slot(c[2])}
        BY <1>3, <4>1
      <4> QED
        BY <1>3, <4>1, <4>3, <4>4 DEF Contract!Taken, AbstractObjects
    <3>2. CASE ~Hashed
      BY <1>3, <1>4, <1>5, <3>2, ObjectHere DEF Contract!Taken
    <3> QED
      BY <3>1, <3>2
  <2>3. Contract!Pending(p, "create", k) /\ Contract!Answer(p, "alreadyExists", {})
    BY <1>1, <1>3, <1>5
  <2>4. Contract!Create(p)
    BY <1>1, <1>2, <1>3, <2>1, <2>3 DEF Contract!Create, SameRest, AbstractObjects
  <2> QED
    BY <2>4
<1>6. CASE calls[p].op = "get" /\ answer = "notFound" /\ store[CallSlot(p)] = NoObject
  <2>1. Contract!Pending(p, "get", k) /\ Contract!Answer(p, "notFound", {})
    BY <1>1, <1>3, <1>6
  <2>2. Contract!Object(k) = NoObject
    BY <1>3, <1>4, <1>6, ObjectHere
  <2>3. Contract!Get(p)
    BY <1>1, <1>2, <1>3, <2>1, <2>2 DEF Contract!Get, SameRest, AbstractObjects
  <2> QED
    BY <2>3
<1>7. CASE calls[p].op = "delete" /\ answer = "notFound" /\ store[CallSlot(p)] = NoObject
  <2>1. Contract!Carry("delete", k, p) /\ k \in Contract!Target("delete", k)
    BY <1>2, <1>3, <1>4, <1>7, EffectFacts, ObjectHere
  <2>2. Contract!Pending(p, "delete", k) /\ Contract!Answer(p, "notFound", {})
    BY <1>1, <1>3, <1>7
  <2>3. Contract!Object(k) = NoObject
    BY <1>3, <1>4, <1>7, ObjectHere
  <2>4. Contract!Delete(p)
    BY <1>1, <1>3, <2>1, <2>2, <2>3 DEF Contract!Delete, SameRest
  <2> QED
    BY <2>4
<1>8. CASE /\ calls[p].op \in {"update", "updateFails", "updatePanics"} /\ answer = "notFound"
           /\ store[CallSlot(p)] = NoObject /\ ~Creating
  <2>1. Contract!Effect(calls[p].op, k, p) = Here(k) /\ ~Contract!Updatable(k)
    BY <1>3, <1>4, <1>8, EffectFacts
  <2>2. Contract!Carry(calls[p].op, k, p)
    BY <1>2, <2>1
  <2>3. Contract!Answer(p, "notFound", {})
    BY <1>1, <1>8
  <2>4. CASE calls[p].op = "update"
    <3>1. /\ Contract!Pending(p, "update", k)
          /\ Contract!Carry("update", k, p)
      BY <1>3, <2>2, <2>4
    <3>2. Contract!Update(p)
      BY <1>1, <1>3, <2>1, <2>3, <3>1 DEF Contract!Update, SameRest
    <3> QED
      BY <3>2
  <2>5. CASE calls[p].op = "updateFails"
    <3>1. /\ Contract!Pending(p, "updateFails", k)
          /\ Contract!Carry("updateFails", k, p)
      BY <1>3, <2>2, <2>5
    <3>2. Contract!Update(p)
      BY <1>1, <1>3, <2>1, <2>3, <3>1 DEF Contract!Update, SameRest
    <3> QED
      BY <3>2
  <2>6. CASE calls[p].op = "updatePanics"
    <3>1. /\ Contract!Pending(p, "updatePanics", k)
          /\ Contract!Carry("updatePanics", k, p)
      BY <1>3, <2>2, <2>6
    <3>2. Contract!Update(p)
      BY <1>1, <1>3, <2>1, <2>3, <3>1, ZenonT(30) DEF Contract!Update, SameRest
    <3> QED
      BY <3>2
  <2> QED
    BY <1>8, <2>4, <2>5, <2>6
<1>9. CASE /\ calls[p].op = "updatePanics" /\ answer = "panic"
           /\ store[CallSlot(p)] = NoObject => Creating
           /\ Hashed => store[CallSlot(p)].name = KeyOf(p)
  <2>1. Contract!Effect("updatePanics", k, p) = Here(k) /\ Contract!Updatable(k)
    BY <1>3, <1>4, <1>9, EffectFacts
  <2>2. Contract!Carry("updatePanics", k, p)
    BY <1>2, <2>1
  <2>3. Contract!Pending(p, "updatePanics", k) /\ Contract!Answer(p, "panic", {})
    BY <1>1, <1>3, <1>9
  <2>4. Contract!Update(p)
    BY <1>1, <1>3, <2>1, <2>2, <2>3, ZenonT(30) DEF Contract!Update, SameRest
  <2> QED
    BY <2>4
<1> QED
  BY <1>5, <1>6, <1>7, <1>8, <1>9 DEF Refused

\* get returns the object, static or stored, or the zero value of the keys.
LEMMA GotImplements ==
    ASSUME Inv, NEW p \in Procs, pc[p] # "idle", calls[p].op = "get",
           NEW o, Answer(p, "ok", {o}), UNCHANGED <<setup, store, late>>,
           Found(p, o)
    PROVE  Contract!Get(p)
<1> DEFINE k == KeyOf(p)
<1>0. kind \in Kinds
  BY DEF Inv, Types
<1>1. Contract!Answer(p, "ok", {Standard(o)}) /\ SameRest
  BY AnswerImplements, AnswerFacts, RestFacts, SMT
<1>2. AbstractObjects' = AbstractObjects
  BY SameObjects DEF setup, AbstractObjects
<1>3. /\ k \in Names /\ Key(kind, k) = k /\ (isStatic(calls[p].name) <=> k \in static)
      /\ CallSlot(p) = Slot(k) /\ Contract!Pending(p, "get", k)
  BY PendingFacts
<1>4. CASE Here(k) # NoObject /\ Standard(o) = Here(k)
  BY <1>1, <1>2, <1>3, <1>4, ObjectHere DEF Contract!Get, SameRest, AbstractObjects
<1>5. CASE Here(k) = NoObject /\ kind = "Keys" /\ o = ZeroObject
  BY <1>0, <1>1, <1>2, <1>3, <1>5, SameTypes, ObjectFacts, ObjectHere
     DEF Contract!Get, SameRest, AbstractObjects
<1>6. CASE isStatic(calls[p].name) /\ o = StaticObject(KeyOf(p))
  <2>1. Here(k) = StaticObject(k)
    BY <1>3, <1>6, PlaceFacts DEF Here, AbstractObjects, AbstractObject
  <2>2. Standard(o) = o /\ o # NoObject
    BY <1>0, <1>3, <1>6, ObjectFacts, StorageAssumption, SMTT(30) DEF StaticObject
  <2> QED
    BY <1>4, <1>6, <2>1, <2>2
<1> QED
  BY <1>3, <1>4, <1>5, <1>6, AbstractFacts DEF Found

\* list returns every object once, the static ones before those behind them.
LEMMA ListedImplements ==
    ASSUME Inv, NEW p \in Procs, pc[p] # "idle", calls[p].op = "list",
           Answer(p, "ok", StaticList(Stored)), UNCHANGED <<setup, store, late>>
    PROVE  Contract!List(p)
<1>0. kind \in Kinds /\ ~Hashed /\ ~Folded
  BY PendingFacts, SMTT(30) DEF Inv, Types, Hashed, Folded, Operations
<1>1. Contract!Answer(p, "ok", {Standard(o) : o \in StaticList(Stored)}) /\ SameRest
  BY AnswerImplements, RestFacts
<1>2. AbstractObjects' = AbstractObjects
  BY SameObjects DEF setup, AbstractObjects
<1>3. KeyOf(p) \in Names /\ Contract!Pending(p, "list", KeyOf(p))
  BY PendingFacts
<1>4. \A n \in Names \ static : AbstractObjects[n] =
         IF store[n] = NoObject THEN NoObject ELSE Standard(store[n])
  BY <1>0, AbstractFacts, SlotFacts, PlaceFacts DEF Here
<1>5. \A n \in static : /\ n \in Names /\ StaticObject(n) # NoObject
                        /\ AbstractObjects[n] = Standard(StaticObject(n))
                        /\ Standard(StaticObject(n)) # NoObject
  <2> SUFFICES ASSUME NEW n \in static
               PROVE  /\ n \in Names /\ StaticObject(n) # NoObject
                      /\ AbstractObjects[n] = Standard(StaticObject(n))
                      /\ Standard(StaticObject(n)) # NoObject
    OBVIOUS
  <2>1. n \in Names /\ Key(kind, n) = n
    BY DEF Inv, Types
  <2>2. AbstractObjects[n] = StaticObject(n)
    BY <2>1 DEF AbstractObjects, AbstractObject
  <2> QED
    BY <1>0, <2>1, <2>2, ObjectFacts, StorageAssumption, SMT DEF StaticObject
<1>6. \A n \in Names : store[n] # NoObject =>
         /\ n \notin static /\ store[n] \in Stored /\ ~isStatic(store[n].name)
         /\ Standard(store[n]) # NoObject
  <2> SUFFICES ASSUME NEW n \in Names, store[n] # NoObject
               PROVE  /\ n \notin static /\ store[n] \in Stored /\ ~isStatic(store[n].name)
                      /\ Standard(store[n]) # NoObject
    OBVIOUS
  <2>1. n \notin static /\ (store[n].name = NoName \/ Key(kind, store[n].name) = n)
    BY <1>0, SlotFacts DEF Inv, Stores
  <2>2. NoName \notin static
    BY StorageAssumption DEF Inv, Types
  <2>3. ~isStatic(store[n].name)
    BY <2>1, <2>2, KeyFacts DEF isStatic
  <2>4. store[n] \in WholeObjects
    BY DEF Inv, Types, MaybeObjects
  <2> QED
    BY <1>0, <2>1, <2>3, <2>4, ObjectFacts DEF Stored
<1>7. {AbstractObjects[n] : n \in Names} \ {NoObject} = {Standard(o) : o \in StaticList(Stored)}
  <2>1. ASSUME NEW n \in Names, AbstractObjects[n] # NoObject
        PROVE  AbstractObjects[n] \in {Standard(o) : o \in StaticList(Stored)}
    <3>1. CASE n \in static
      <4>1. StaticObject(n) \in StaticList(Stored)
        BY <3>1 DEF StaticList
      <4> QED
        BY <1>5, <3>1, <4>1
    <3>2. CASE n \notin static
      <4>1. store[n] # NoObject /\ AbstractObjects[n] = Standard(store[n])
        BY <1>4, <2>1, <3>2
      <4>2. store[n] \in StaticList(Stored)
        BY <1>6, <4>1 DEF StaticList
      <4> QED
        BY <4>1, <4>2
    <3> QED
      BY <3>1, <3>2
  <2>2. ASSUME NEW o \in StaticList(Stored)
        PROVE  Standard(o) \in {AbstractObjects[n] : n \in Names} \ {NoObject}
    <3>1. CASE \E n \in static : o = StaticObject(n)
      BY <1>5, <3>1
    <3>2. CASE o \in Stored
      <4>1. PICK n \in Names : o = store[n] /\ store[n] # NoObject
        BY <3>2 DEF Stored
      <4> QED
        BY <1>4, <1>6, <4>1
    <3> QED
      BY <3>1, <3>2 DEF StaticList
  <2> QED
    BY <2>1, <2>2
<1>8. Contract!Answer(p, "ok", {[n \in Names |-> AbstractObject(n)][k] : k \in Names} \ {NoObject})
  BY <1>1, <1>7 DEF AbstractObjects
<1> QED
  BY <1>1, <1>2, <1>3, <1>8 DEF Contract!List, SameRest, AbstractObjects

\* A call fails, and its request is still on the way.
LEMMA GoneImplements ==
    ASSUME Inv, NEW p \in Procs, pc[p] # "idle", NEW r, late' = late \cup {r},
           Purpose(r) = [op |-> calls[p].op, name |-> KeyOf(p), by |-> p],
           calls[p].op \in {"create", "update", "delete"},
           Answer(p, "error", {}), UNCHANGED <<setup, store>>
    PROVE  Contract!Fail(p)
<1>1. Contract!Answer(p, "error", {})
  BY AnswerImplements
<1>2. AbstractObjects' = AbstractObjects
  BY SameObjects DEF setup
<1>3. \A q : Purpose(q)' = Purpose(q)
  BY DEF Purpose, setup
<1>4. AbstractLate' = AbstractLate \cup {Purpose(r)}
  BY <1>3 DEF AbstractLate
<1>5. {Purpose(r)} \cap Contract!Writes = {Purpose(r)}
  BY PendingFacts, SMT DEF Contract!Writes
<1>6. AbstractLate' = AbstractLate
          \cup ({[op |-> calls[p].op, name |-> KeyOf(p), by |-> p]} \cap Contract!Writes)
  BY <1>4, <1>5
<1> QED
  BY <1>1, <1>2, <1>6, PendingFacts, SameObjects
     DEF Contract!Fail, setup, AbstractObjects, AbstractLate

\* A late request arrives.
LEMMA ArriveImplements ==
    ASSUME Inv, NEW r \in late, Arrive(r)
    PROVE  \E w \in AbstractLate : Contract!Late(w)
<1> DEFINE w == Purpose(r)
           k == Key(kind, r.name)
<1>1. r \in LateRequests /\ r.slot = Slot(k) /\ k \notin static
  BY DEF Inv, Types, Requesters, Sent, isStatic
<1>2. k \in Names /\ Key(kind, k) = k /\ r.by \in Procs
  BY <1>1, KeyFacts DEF LateRequests
<1>3. w.op = r.op /\ w.name = k /\ w.by = r.by /\ w \in AbstractLate
  BY DEF Purpose, AbstractLate
<1>4. AbstractLate' = AbstractLate \ {w}
  <2>1. \A q : Purpose(q)' = Purpose(q)
    BY DEF Purpose, setup, Arrive
  <2>2. \A q \in late : Purpose(q) = w => q = r
    BY DEF Inv, Distinct
  <2>3. late' = late \ {r}
    BY DEF Arrive
  <2> QED
    BY <2>1, <2>2, <2>3 DEF AbstractLate
<1>5. \/ AbstractObjects' = AbstractObjects
      \/ \E n \in Contract!Target(r.op, k) : Contract!Carry(r.op, n, r.by)
  <2>1. CASE UNCHANGED store
    BY <2>1, SameObjects DEF Arrive, setup
  <2>2. CASE ~UNCHANGED store
    <3>1. Accepted(r) /\ Put(r.slot, r.value)
      BY <2>2 DEF Arrive
    <3>2. Writes(r.op, k, r.by, r.value)
      BY <3>1, ArriveWrites
    <3>3. store' = [store EXCEPT ![Slot(k)] = r.value] /\ UNCHANGED setup
      BY <1>1, <3>1 DEF Put, Arrive
    <3> QED
      BY <1>1, <1>2, <3>2, <3>3, CarryImplements
  <2> QED
    BY <2>1, <2>2
<1>6. UNCHANGED <<kind, backend = "etcd", Folded, {c \in Names \X Names : Slot(c[1]) = Slot(c[2])}, calls>>
  BY SameObjects DEF Arrive, setup
<1> HIDE DEF w, k
<1>7. Contract!Late(w)
  BY <1>3, <1>4, <1>5, <1>6 DEF Contract!Late, AbstractObjects, AbstractLate
<1> QED
  BY <1>3, <1>7

\* A caller enters a method.
LEMMA InvokeImplements ==
    ASSUME Inv, NEW p \in Procs, Invocation(p)
    PROVE  \E n \in Names : \E op \in Contract!Operations[kind] : Contract!Invoke(p, op, n)
<1>1. PICK op \in Operations[kind], n \in UsedNames[kind] : Invoke(p, op, n)
  BY DEF Invocation
<1>2. n \in Names /\ calls[p].answer # "pending" /\ SameRest /\ UNCHANGED <<setup, store, late>>
  BY <1>1, RestFacts, StoragesAssumption DEF Inv, Types, Callers, InCall, Invoke
<1>3. AbstractObjects' = AbstractObjects
  BY <1>2, SameObjects DEF setup
<1>4. calls' = [calls EXCEPT ![p] = [op |-> op, name |-> n, answer |-> "pending", value |-> {}]]
  BY <1>1 DEF Invoke
<1>5. Contract!Invoke(p, op, n)
  BY <1>1, <1>2, <1>3, <1>4, SameTypes DEF Contract!Invoke, SameRest, AbstractObjects
<1> QED
  BY <1>1, <1>2, <1>5, SameTypes

-----------------------------------------------------------------------------
(* The refinement.                                                         *)

\* A step of a method is one of the contract, or none.
LEMMA StepImplements ==
    ASSUME Inv, NEW p \in Procs, Step(p)
    PROVE  \/ Contract!Create(p) \/ Contract!Get(p) \/ Contract!List(p) \/ Contract!Update(p)
           \/ Contract!Delete(p) \/ Contract!Fail(p)
           \/ UNCHANGED Contract!vars
<1>1. CASE Returns(p)
  <2>1. pc[p] # "idle" /\ UNCHANGED <<setup, store, late>>
    BY <1>1 DEF Returns
  <2>2. CASE \/ Answer(p, "error", {})
             \/ kind = "Keys" /\ calls[p].op = "update" /\ Answer(p, "alreadyExists", {})
    BY <2>1, <2>2, FailImplements
  <2>3. CASE /\ ~isStatic(calls[p].name)
             /\ \E a \in {"alreadyExists", "notFound", "panic"} : Refused(p, a) /\ Answer(p, a, {})
    BY <2>1, <2>3, RefusedImplements
  <2>4. CASE calls[p].op = "get" /\ \E o : Found(p, o) /\ Answer(p, "ok", {o})
    BY <2>1, <2>4, GotImplements
  <2>5. CASE calls[p].op = "list" /\ Answer(p, "ok", StaticList(Stored))
    BY <2>1, <2>5, ListedImplements, SMTT(30)
  <2> QED
    BY <1>1, <2>2, <2>3, <2>4, <2>5 DEF Returns
<1>2. ASSUME NEW o, Commits(p, o)
      PROVE  Contract!Create(p) \/ Contract!Update(p) \/ Contract!Delete(p) \/ Contract!Fail(p)
  <2>1. /\ pc[p] # "idle" /\ ~isStatic(calls[p].name) /\ UNCHANGED <<setup, late>>
        /\ Writes(calls[p].op, KeyOf(p), p, o) /\ store' = [store EXCEPT ![CallSlot(p)] = o]
    BY <1>2 DEF Commits, Put
  <2>2. CASE Answer(p, "error", {})
    BY <2>1, <2>2, LostImplements
  <2>3. CASE Answer(p, "ok", {}) /\ (calls[p].op = "delete" => store[CallSlot(p)] # NoObject)
    BY <2>1, <2>3, WrittenImplements
  <2> QED
    BY <1>2, <2>2, <2>3, SMTT(30) DEF Commits
<1>3. ASSUME NEW o, GivesUp(p, o) PROVE Contract!Fail(p)
  <2> DEFINE r == [op |-> calls[p].op, name |-> calls[p].name, slot |-> CallSlot(p), by |-> p,
                   value |-> o, first |-> seen[p] = NoObject]
  <2>1. /\ pc[p] # "idle" /\ late' = late \cup {r} /\ Answer(p, "error", {})
        /\ UNCHANGED <<setup, store>>
        /\ calls[p].op \in {"create", "update", "delete"}
    BY <1>3 DEF GivesUp, MayWrite
  <2>2. Purpose(r) = [op |-> calls[p].op, name |-> KeyOf(p), by |-> p]
    BY DEF Purpose, KeyOf
  <2> HIDE DEF r
  <2> QED
    BY <2>1, <2>2, GoneImplements
<1>4. CASE Reads(p) \/ Locks(p)
  <2>1. UNCHANGED <<setup, store, calls, late>>
    BY <1>4 DEF Reads, Locks, Read
  <2>2. AbstractObjects' = AbstractObjects /\ SameRest /\ UNCHANGED calls
    BY <2>1, SameObjects, RestFacts DEF setup
  <2> QED
    BY <2>2, SMTT(30) DEF Contract!vars, SameRest, AbstractObjects
<1> QED
  BY <1>1, <1>2, <1>3, <1>4, StepCases, SMTT(30) DEF MethodStep

\* Every step of the storages is one of the contract, or none.
LEMMA NextImplements == Inv /\ [Next]_callVars => [Contract!Next]_(Contract!vars)
<1> SUFFICES ASSUME Inv, [Next]_callVars PROVE Contract!Next \/ UNCHANGED Contract!vars
  OBVIOUS
<1>1. ASSUME NEW p \in Procs, Invocation(p) PROVE Contract!Next
  BY <1>1, InvokeImplements DEF Contract!Next
<1>2. ASSUME NEW p \in Procs, Step(p) PROVE Contract!Next \/ UNCHANGED Contract!vars
  BY <1>2, StepImplements DEF Contract!Next
<1>3. ASSUME NEW r \in late, Arrive(r) PROVE Contract!Next
  BY <1>3, ArriveImplements DEF Contract!Next, AbstractLate
<1>4. CASE UNCHANGED callVars
  <2>1. AbstractObjects' = AbstractObjects /\ SameRest /\ UNCHANGED calls
    BY <1>4, SameObjects, RestFacts DEF callVars, setup
  <2> QED
    BY <2>1 DEF Contract!vars, SameRest, AbstractObjects
<1> QED
  BY <1>1, <1>2, <1>3, <1>4 DEF Next

\* The memory, etcd, Kubernetes and SQL storages, with or without static objects
\* in front of them, implement the contract of the Storage interface, whatever
\* the callers, the names and the number of late requests.
THEOREM StoragesImplementContract == Spec => ImplementsContract
<1>1. Init => Contract!Init
  BY InitImplements
<1>2. Inv /\ [Next]_callVars => [Contract!Next]_(Contract!vars)
  BY NextImplements
<1> QED
  BY <1>1, <1>2, StoragesInvariant, PTL DEF Spec, Contract!Spec, ImplementsContract

-----------------------------------------------------------------------------
(* The mutex and the connection.                                           *)

\* Only two storages have something that a call can hold: a call of the memory
\* storage holds the mutex until it returns, and a transaction of sqlite3 the
\* connection until it commits, or forever.
HeldInv ==
    /\ pc \in [Procs -> {"idle", "called", "locked", "read"}]
    /\ \/ holder = Nobody
       \/ backend = "memory" /\ holder \in Procs /\ pc[holder] = "locked"
       \/ backend = "sqlite3" /\ holder \in Procs /\ pc[holder] = "read"
       \/ backend = "sqlite3" /\ holder = Abandoned

\* A call that holds nothing leaves the holder alone, wherever it gets to.
LEMMA OthersHold ==
    ASSUME HeldInv, NEW p \in Procs, NEW l \in {"idle", "called", "locked", "read"},
           pc' = [pc EXCEPT ![p] = l], UNCHANGED <<backend, holder>>,
           holder # p \/ l = pc[p]
    PROVE  HeldInv'
BY DEF HeldInv

\* A caller of the other storages, and one whose call has not begun, holds
\* nothing.
LEMMA HoldsNothing ==
    ASSUME HeldInv, NEW p \in Procs,
           backend \notin {"memory", "sqlite3"} \/ pc[p] \in {"idle", "called"}
    PROVE  holder # p
BY HolderAssumption DEF HeldInv

\* Every step of a method gives back what it holds or keeps it for the next step.
LEMMA StepHolds ==
    ASSUME HeldInv, NEW p \in Procs, Step(p)
    PROVE  HeldInv'
<1> USE DEF setup
<1>1. CASE StaticCall(p) \/ Unreachable(p)
  <2>1. /\ pc' = [pc EXCEPT ![p] = "idle"] /\ UNCHANGED <<backend, holder>>
        /\ backend \notin {"memory", "sqlite3"} \/ pc[p] \in {"idle", "called"}
    BY <1>1 DEF StaticCall, Unreachable, At, Answer
  <2> QED
    BY <2>1, OthersHold, HoldsNothing
<1>2. CASE MemoryLock(p)
  BY <1>2 DEF MemoryLock, Called, HeldInv
<1>3. CASE MemoryMethod(p)
  <2>1. pc' = [pc EXCEPT ![p] = "idle"] /\ holder' = Nobody /\ UNCHANGED backend
    BY <1>3 DEF MemoryMethod, MemoryCreate, MemoryGet, MemoryList, MemoryDelete, MemoryUpdate,
                MemoryUnlock, Answer
  <2> QED
    BY <2>1 DEF HeldInv
<1>4. CASE EtcdMethod(p)
  <2>1. /\ backend = "etcd" /\ UNCHANGED <<backend, holder>>
        /\ pc' = [pc EXCEPT ![p] = "idle"] \/ pc' = [pc EXCEPT ![p] = "read"]
    BY <1>4 DEF EtcdMethod, txnCreate, getKey, EtcdList, deleteKey, txnUpdateRead, txnUpdatePut,
                Called, Request, Answer, Read
  <2> QED
    BY <2>1, OthersHold, HoldsNothing
<1>5. CASE K8sMethod(p)
  <2>1. /\ backend = "kubernetes" /\ UNCHANGED <<backend, holder>>
        /\ pc' = [pc EXCEPT ![p] = "idle"] \/ pc' = [pc EXCEPT ![p] = "read"]
    BY <1>5 DEF K8sMethod, K8sCreate, K8sGet, K8sList, K8sDeleteGet, K8sDelete, K8sUpdateGet,
                K8sUpdatePut, Called, Request, Answer, Read
  <2> QED
    BY <2>1, OthersHold, HoldsNothing
<1>6. CASE SQLCreate(p) \/ SQLGet(p) \/ SQLList(p) \/ SQLDelete(p)
  <2>1. /\ pc[p] = "called" /\ pc' = [pc EXCEPT ![p] = "idle"]
        /\ UNCHANGED <<backend, holder>>
    BY <1>6 DEF SQLCreate, SQLGet, SQLList, SQLDelete, Connected, Called, At, Execute, Answer
  <2> QED
    BY <2>1, OthersHold, HoldsNothing
<1>7. CASE SQLBegin(p)
  <2>1. /\ pc[p] = "called" /\ UNCHANGED backend
        /\ backend = "postgres" \/ (backend = "sqlite3" /\ holder = Nobody)
        /\ pc' = [pc EXCEPT ![p] = "idle"] \/ pc' = [pc EXCEPT ![p] = "read"]
    <3>1. /\ pc[p] = "called" /\ UNCHANGED backend
          /\ backend = "postgres" \/ (backend = "sqlite3" /\ holder = Nobody)
      <4>1. Connected(p, {"update", "updateFails", "updatePanics"})
        BY <1>7 DEF SQLBegin
      <4>2. UNCHANGED backend
        BY <1>7 DEF SQLBegin
      <4> QED
        BY <4>1, <4>2 DEF Connected, Called, At
    <3>2. (\E a : Answer(p, a, {})) \/ Read(p, KeyOf(p))
      BY <1>7 DEF SQLBegin
    <3> QED
      BY <3>1, <3>2 DEF Answer, Read
  <2>2. CASE holder' = holder
    BY <2>1, <2>2, OthersHold, HoldsNothing
  <2>3. CASE holder' # holder
    <3>1. /\ backend = "sqlite3"
          /\ \/ holder' = p /\ pc' = [pc EXCEPT ![p] = "read"]
             \/ holder' = Abandoned
      BY <1>7, <2>1, <2>3 DEF SQLBegin, Connected, Called, At, Read
    <3> QED
      BY <2>1, <3>1 DEF HeldInv
  <2> QED
    BY <2>2, <2>3
<1>8. CASE SQLCommit(p)
  <2>1. /\ pc' = [pc EXCEPT ![p] = "idle"] /\ UNCHANGED backend
        /\ holder' = IF holder = p THEN Nobody ELSE holder
    BY <1>8 DEF SQLCommit, Execute, Answer
  <2> QED
    BY <2>1, OthersHold DEF HeldInv
<1> QED
  BY <1>1, <1>2, <1>3, <1>4, <1>5, <1>6, <1>7, <1>8 DEF Step, SQLMethod

\* In every behaviour, whoever holds the mutex of the memory storage or the
\* connection of sqlite3 is inside a method and goes on to release it: no path
\* through a method, an error or a panic of the updater included, returns
\* with the mutex held; a transaction of sqlite3 whose updater panics does.
THEOREM HeldByCallInProgressTheorem == Spec => []HeldByCallInProgress
<1>1. Init => HeldInv
  BY DEF Init, HeldInv
<1>2. HeldInv /\ [Next]_callVars => HeldInv'
  <2> SUFFICES ASSUME HeldInv, [Next]_callVars PROVE HeldInv'
    OBVIOUS
  <2>1. ASSUME NEW p \in Procs, Invocation(p) PROVE HeldInv'
    <3>1. /\ pc[p] = "idle" /\ pc' = [pc EXCEPT ![p] = "called"]
          /\ UNCHANGED <<backend, holder>>
      BY <2>1 DEF Invocation, Invoke, setup
    <3> QED
      BY <3>1, OthersHold, HoldsNothing
  <2>2. ASSUME NEW r \in late, Arrive(r) PROVE HeldInv'
    BY <2>2 DEF Arrive, setup, HeldInv
  <2>3. CASE UNCHANGED callVars
    BY <2>3 DEF callVars, setup, HeldInv
  <2> QED
    BY <2>1, <2>2, <2>3, StepHolds DEF Next
<1>3. HeldInv => HeldByCallInProgress
  BY HolderAssumption DEF HeldInv, HeldByCallInProgress, Nobody, Abandoned
<1> QED
  BY <1>1, <1>2, <1>3, PTL DEF Spec

=============================================================================
