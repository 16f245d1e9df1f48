-------------------------- MODULE StorageInvariant --------------------------
(***************************************************************************)
(* An invariant of the storages, for any callers, names and late requests: *)
(* what calls in progress and late requests know about the objects they    *)
(* are going to write.  The steps of the methods are sorted by what they   *)
(* do to the database.                                                     *)
(***************************************************************************)
EXTENDS Storages, TLAPS

\* Leaves are for Zenon, unless they cite SMT.
USE Zenon

\* Objects that have lost nothing.
WholeObjects ==
    [name : Names \cup {NoName}, writes : SUBSET (Procs \cup {"config"}), lost : {{}}]

MaybeObjects == WholeObjects \cup {NoObject}

-----------------------------------------------------------------------------
(* No storage forgets a field.                                             *)

\* Every field of an object has its place in the JSON structs of etcd,
LEMMA EtcdKeepsFields == \A k \in Kinds : EtcdFields[k] = Fields[k]
<1>1. /\ EtcdAuthRequest = Fields.AuthRequest /\ EtcdAuthCode = Fields.AuthCode
      /\ EtcdRefreshToken = Fields.RefreshToken
      /\ EtcdOfflineSessions = Fields.OfflineSessions
  BY DEF Fields, EtcdAuthRequest, EtcdAuthCode, EtcdRefreshToken, EtcdOfflineSessions,
         EtcdClaims, AuthRequestFields, AuthCodeFields, RefreshTokenFields,
         OfflineSessionsFields, ClaimsFields
<1>2. Fields = [k \in Kinds |-> Fields[k]]
  BY DEF Kinds, Fields
<1> QED
  BY <1>1, <1>2 DEF EtcdFields

\* in the custom resources of Kubernetes,
LEMMA K8sKeepsFields == \A k \in Kinds : K8sFields[k] = Fields[k]
BY DEF Kinds, Fields, K8sFields, K8sAuthRequest, K8sAuthCode, K8sRefreshToken,
       K8sOfflineSessions, K8sClaims, K8sClient, K8sPassword, K8sKeys, K8sConnector,
       AuthRequestFields, AuthCodeFields, RefreshTokenFields, OfflineSessionsFields,
       ClaimsFields, ClientFields, PasswordFields, KeysFields, ConnectorFields

\* and in the columns of the SQL statements; codes are never updated.
LEMMA SQLKeepsFields ==
    \A k \in Kinds :
        /\ SQLTables[k].insert = Fields[k] /\ SQLTables[k].select = Fields[k]
        /\ k # "AuthCode" => SQLTables[k].update = Fields[k]
<1>1. /\ SQLAuthRequest.insert = AuthRequestFields /\ SQLAuthRequest.select = AuthRequestFields
      /\ SQLAuthRequest.update = AuthRequestFields
  BY DEF SQLAuthRequest, AuthRequestFields, ClaimsFields, SQLClaims
<1>2. SQLAuthCode.insert = AuthCodeFields /\ SQLAuthCode.select = AuthCodeFields
  BY DEF SQLAuthCode, AuthCodeFields, ClaimsFields, SQLClaims
<1>3. /\ SQLRefreshToken.insert = RefreshTokenFields /\ SQLRefreshToken.select = RefreshTokenFields
      /\ SQLRefreshToken.update = RefreshTokenFields
  BY DEF SQLRefreshToken, RefreshTokenFields, ClaimsFields, SQLClaims
<1>4. /\ SQLClient.insert = ClientFields /\ SQLClient.select = ClientFields
      /\ SQLClient.update = ClientFields
  BY DEF SQLClient, ClientFields
<1>5. /\ SQLPassword.insert = PasswordFields /\ SQLPassword.select = PasswordFields
      /\ SQLPassword.update = PasswordFields
  BY DEF SQLPassword, PasswordFields
<1>6. /\ SQLOfflineSessions.insert = OfflineSessionsFields
      /\ SQLOfflineSessions.select = OfflineSessionsFields
      /\ SQLOfflineSessions.update = OfflineSessionsFields
  BY DEF SQLOfflineSessions, OfflineSessionsFields
<1>7. /\ SQLConnector.insert = ConnectorFields /\ SQLConnector.select = ConnectorFields
      /\ SQLConnector.update = ConnectorFields
  BY DEF SQLConnector, ConnectorFields
<1>8. /\ SQLKeys.insert = KeysFields /\ SQLKeys.select = KeysFields
      /\ SQLKeys.update = KeysFields
  BY DEF SQLKeys, KeysFields
<1> QED
  BY <1>1, <1>2, <1>3, <1>4, <1>5, <1>6, <1>7, <1>8, SMT DEF Kinds, Fields, SQLTables

\* Objects are copied without loss.
LEMMA CopiesAreWhole ==
    ASSUME kind \in Kinds, NEW o \in WholeObjects
    PROVE  /\ EtcdCopy(o) = o /\ K8sCopy(o) = o /\ Selected(o) = o
           /\ Copy(kind, o, SQLTables[kind].insert) = o
           /\ kind # "AuthCode" =>
                 \A row : row.name = o.name => SetColumns(row, o) = o
<1>1. Copy(kind, o, Fields[kind]) = o
  BY DEF Copy, WholeObjects
<1>2. [o EXCEPT !.name = o.name] = o
  BY DEF WholeObjects
<1> QED
  BY <1>1, <1>2, EtcdKeepsFields, K8sKeepsFields, SQLKeepsFields
     DEF EtcdCopy, K8sCopy, Selected, SetColumns

-----------------------------------------------------------------------------
(* Objects and their names.                                                *)

\* A name in its lower-case spelling keeps it.
LEMMA KeyFacts ==
    /\ \A n \in Names : Key(kind, n) \in Names /\ Key(kind, Key(kind, n)) = Key(kind, n)
    /\ Key(kind, NoName) = NoName
    /\ kind # "Password" => \A n : Key(kind, n) = n
BY StorageAssumption DEF Key

\* What is made of an object is an object, and the same in any spelling.
LEMMA ObjectFacts ==
    ASSUME kind \in Kinds
    PROVE  /\ NoObject \notin WholeObjects
           /\ ZeroObject \in WholeObjects /\ Standard(ZeroObject) = ZeroObject
           /\ \A p \in Procs \cup {"config"}, n \in Names :
                 /\ Created(p, n) \in WholeObjects
                 /\ Standard(Created(p, n)) = Created(p, Key(kind, n))
           /\ \A o \in WholeObjects :
                 /\ Standard(o) \in WholeObjects /\ Standard(Standard(o)) = Standard(o)
                 /\ \A p \in Procs :
                       /\ Updated(o, p) \in WholeObjects
                       /\ Updated(o, p).name = o.name
                       /\ Standard(Updated(o, p)) = Updated(Standard(o), p)
<1>1. WholeObjects \subseteq Objects(kind)
  BY DEF WholeObjects, Objects
<1>2. ZeroObject \in WholeObjects /\ Standard(ZeroObject) = ZeroObject
  BY KeyFacts, SMT DEF WholeObjects, ZeroObject, Standard
<1>3. \A p \in Procs \cup {"config"}, n \in Names :
         /\ Created(p, n) \in WholeObjects
         /\ Standard(Created(p, n)) = Created(p, Key(kind, n))
  BY SMT DEF WholeObjects, Created, Standard
<1>4. ASSUME NEW o \in WholeObjects
      PROVE  Standard(o) \in WholeObjects /\ Standard(Standard(o)) = Standard(o)
  BY KeyFacts DEF WholeObjects, Standard
<1>5. ASSUME NEW o \in WholeObjects, NEW p \in Procs
      PROVE  /\ Updated(o, p) \in WholeObjects
             /\ Updated(o, p).name = o.name
             /\ Standard(Updated(o, p)) = Updated(Standard(o), p)
  BY KeyFacts DEF WholeObjects, Standard, Updated
<1> QED
  BY <1>1, <1>2, <1>3, <1>4, <1>5, StorageAssumption, ObjectsAssumption

\* What a call returns is in the spelling of callers.
LEMMA AnswerFacts ==
    /\ {Standard(o) : o \in {}} = {}
    /\ \A x : {Standard(o) : o \in {x}} = {Standard(x)}
OBVIOUS

-----------------------------------------------------------------------------
(* The invariant.                                                          *)

\* The slot of the object that a call is about.
CallSlot(p) == Slot(Key(kind, calls[p].name))

Creating == backend = "etcd" \/ kind = "Keys"

LateRequests ==
    [op : {"create", "update", "delete"}, name : Names, slot : Names, by : Procs,
     value : MaybeObjects, first : BOOLEAN]

Types ==
    /\ kind \in Kinds
    /\ static \subseteq Names /\ \A n \in static : Key(kind, n) = n
    /\ static # {} => kind \in {"Client", "Password", "Connector"}
    /\ store \in [Names -> MaybeObjects]
    /\ known = [s \in Names |-> known[s]]
    /\ calls = [p \in Procs |-> calls[p]]
    /\ pc \in [Procs -> {"idle", "called", "locked", "read"}]
    /\ seen \in [Procs -> MaybeObjects]
    /\ late \subseteq LateRequests

\* A stored object is not hidden by a static one, and is in the slot of its
\* name; only an object that an update created has no name.
Stores ==
    \A s \in Names : store[s] # NoObject =>
        /\ s \notin static
        /\ IF Hashed THEN store[s].name \in Names /\ SessionHash[store[s].name] = s
                     ELSE store[s].name = NoName \/ Slot(Key(kind, store[s].name)) = s

\* A call in progress: its arguments, and what it has read.
InCall(p) ==
    /\ calls[p].answer = "pending" <=> pc[p] # "idle"
    /\ pc[p] # "idle" =>
          /\ calls[p].op \in Operations[kind]
          /\ calls[p].name \in Names
    /\ pc[p] = "locked" => backend = "memory"
    /\ pc[p] \in {"locked", "read"} /\ calls[p].op # "list" => ~isStatic(calls[p].name)
    /\ pc[p] = "read" =>
          /\ seen[p] = NoObject => Creating
          /\ Hashed => seen[p].name = calls[p].name
          /\ p \in known[CallSlot(p)] => store[CallSlot(p)] = seen[p]
          /\ kind = "Keys" /\ seen[p] # NoObject => store[CallSlot(p)] # NoObject

Callers == \A p \in Procs : InCall(p)

\* o is what a call or a late request writes into the slot of k.
Writes(op, k, by, o) ==
    \/ /\ op = "create" /\ store[Slot(k)] = NoObject
       /\ \E n \in Names : o = Created(by, n) /\ Key(kind, n) = k
    \/ /\ op = "update"
       /\ store[Slot(k)] = NoObject => Creating
       /\ Hashed => store[Slot(k)].name = k
       /\ o = Updated(IF store[Slot(k)] = NoObject THEN ZeroObject ELSE store[Slot(k)], by)
    \/ op = "delete" /\ o = NoObject

\* A late request: its arguments, and what it was computed from.
Sent(r) ==
    /\ r.slot = Slot(Key(kind, r.name)) /\ ~isStatic(r.name)
    /\ r.op \in Operations[kind]
    /\ r.op = "create" => \E n \in Names : /\ r.value = Created(r.by, n)
                                          /\ Key(kind, n) = Key(kind, r.name)
    /\ r.op = "delete" => r.value = NoObject
    /\ r.op = "update" /\ r.first => Creating /\ r.value = Updated(ZeroObject, r.by)
    /\ r.op = "update" /\ ~r.first /\ r \in known[r.slot] =>
          Writes("update", Key(kind, r.name), r.by, r.value)

Requesters == \A r \in late : Sent(r)

\* Late requests have different purposes, and know revisions of their slots.
Distinct ==
    /\ \A q, r \in late : Purpose(q) = Purpose(r) => q = r
    /\ \A s \in Names : known[s] \subseteq Procs \cup {r \in late : r.slot = s}

Inv == Types /\ Stores /\ Callers /\ Requesters /\ Distinct

-----------------------------------------------------------------------------
(* The initial state.                                                      *)


\* The invariant holds initially.
LEMMA InitInv == Init => Inv
<1> SUFFICES ASSUME Init PROVE Inv
  OBVIOUS
<1>1. Types
  BY KeyFacts, StoragesAssumption, SMT DEF Init, Types, MaybeObjects
<1>2. Stores
  BY DEF Init, Stores
<1>3. Callers
  BY DEF Init, Callers, InCall, NoCall
<1>4. Requesters /\ Distinct
  BY DEF Init, Requesters, Distinct
<1> QED
  BY <1>1, <1>2, <1>3, <1>4 DEF Inv

\* The slot of a name is a name.
LEMMA SlotFacts ==
    /\ \A n \in Names : Slot(n) \in Names
    /\ Hashed => ~Folded /\ \A n : Slot(n) = SessionHash[n]
    /\ Folded => /\ \A n : Slot(n) = LowerCase[n]
                 /\ \A n \in Names : Slot(Slot(n)) = Slot(n)
    /\ ~Hashed /\ ~Folded => \A n : Slot(n) = n
    /\ Creating => ~Hashed
BY KubernetesAssumption, StorageAssumption DEF Slot, Hashed, Folded, Creating

\* What is written is an object, in the slot of its name.
LEMMA WritesObjects ==
    ASSUME Inv, NEW k \in Names, Key(kind, k) = k, NEW by \in Procs, NEW op, NEW o,
           Writes(op, k, by, o)
    PROVE  /\ o \in MaybeObjects
           /\ o # NoObject =>
                 IF Hashed THEN o.name = k
                           ELSE o.name = NoName \/ Slot(Key(kind, o.name)) = Slot(k)
<1>0. Slot(k) \in Names /\ kind \in Kinds
  BY SlotFacts DEF Inv, Types
<1>1. CASE op = "create"
  <2>1. PICK n \in Names : o = Created(by, n) /\ Key(kind, n) = k
    BY <1>1 DEF Writes
  <2>2. o \in WholeObjects /\ o.name = n
    BY <2>1, <1>0, ObjectFacts DEF Created
  <2>3. Hashed => n = k
    BY <2>1, KeyFacts DEF Hashed
  <2> QED
    BY <2>1, <2>2, <2>3 DEF MaybeObjects
<1>2. CASE op = "update"
  <2> DEFINE old == IF store[Slot(k)] = NoObject THEN ZeroObject ELSE store[Slot(k)]
  <2>1. o = Updated(old, by)
    BY <1>2 DEF Writes
  <2>2. old \in WholeObjects
    BY <1>0, ObjectFacts DEF Inv, Types, MaybeObjects
  <2>3. o \in WholeObjects /\ o.name = old.name
    BY <1>0, <2>1, <2>2, ObjectFacts
  <2>4. CASE Hashed
    <3>1. store[Slot(k)] # NoObject
      BY <1>2, <2>4 DEF Writes, Creating, Hashed
    <3> QED
      BY <1>2, <2>3, <2>4, <3>1 DEF Writes, MaybeObjects
  <2>5. CASE ~Hashed
    <3>1. CASE store[Slot(k)] = NoObject
      BY <2>3, <2>5, <3>1 DEF ZeroObject, MaybeObjects
    <3>2. CASE store[Slot(k)] # NoObject
      BY <1>0, <2>3, <2>5, <3>2 DEF Inv, Stores, MaybeObjects
    <3> QED
      BY <3>1, <3>2
  <2> QED
    BY <2>4, <2>5
<1>3. CASE op = "delete"
  BY <1>3 DEF Writes, MaybeObjects
<1> QED
  BY <1>1, <1>2, <1>3 DEF Writes

\* A late request is what its sender wanted to write, if it is carried out.
LEMMA ArriveWrites ==
    ASSUME Inv, NEW r \in late, Accepted(r)
    PROVE  Writes(r.op, Key(kind, r.name), r.by, r.value)
<1>1. r.slot = Slot(Key(kind, r.name)) /\ r \in LateRequests
  BY DEF Inv, Types, Requesters, Sent
<1>2. CASE r.op = "create" /\ store[r.slot] = NoObject
  BY <1>1, <1>2 DEF Writes, Inv, Requesters, Sent
<1>3. CASE r.op = "update" /\ r.first /\ store[r.slot] = NoObject
  BY <1>1, <1>3, SlotFacts DEF Writes, Inv, Requesters, Sent
<1>4. CASE r.op = "update" /\ ~r.first /\ r \in known[r.slot]
  BY <1>1, <1>4 DEF Inv, Requesters, Sent
<1>5. CASE r.op = "delete"
  BY <1>1, <1>5 DEF Writes, Inv, Requesters, Sent
<1> QED
  BY <1>2, <1>3, <1>4, <1>5 DEF Accepted

-----------------------------------------------------------------------------
(* What a step of a method may do.                                         *)

\* A call is refused an operation, finds no object, or its updater panics.
Refused(p, answer) ==
    \/ calls[p].op = "create" /\ answer = "alreadyExists" /\ store[CallSlot(p)] # NoObject
    \/ calls[p].op = "get" /\ answer = "notFound" /\ store[CallSlot(p)] = NoObject
    \/ calls[p].op = "delete" /\ answer = "notFound" /\ store[CallSlot(p)] = NoObject
    \/ /\ calls[p].op \in {"update", "updateFails", "updatePanics"} /\ answer = "notFound"
       /\ store[CallSlot(p)] = NoObject /\ ~Creating
    \/ /\ calls[p].op = "updatePanics" /\ answer = "panic"
       /\ store[CallSlot(p)] = NoObject => Creating
       /\ Hashed => store[CallSlot(p)].name = KeyOf(p)

\* A get finds the object o.
Found(p, o) ==
    \/ isStatic(calls[p].name) /\ o = StaticObject(KeyOf(p))
    \/ /\ ~isStatic(calls[p].name)
       /\ \/ /\ store[CallSlot(p)] # NoObject /\ o = store[CallSlot(p)]
             /\ Hashed => o.name = KeyOf(p)
          \/ store[CallSlot(p)] = NoObject /\ kind = "Keys" /\ o = ZeroObject

\* It returns without having written anything,
Returns(p) ==
    /\ pc[p] # "idle"
    /\ \/ Answer(p, "error", {})
       \/ kind = "Keys" /\ calls[p].op = "update" /\ Answer(p, "alreadyExists", {})
       \/ /\ ~isStatic(calls[p].name)
          /\ \E a \in {"alreadyExists", "notFound", "panic"} : Refused(p, a) /\ Answer(p, a, {})
       \/ calls[p].op = "get" /\ \E o : Found(p, o) /\ Answer(p, "ok", {o})
       \/ calls[p].op = "list" /\ Answer(p, "ok", StaticList(Stored))
    /\ UNCHANGED <<setup, store, known, late>>

\* writes the object o and returns, though the answer may be lost,
Commits(p, o) ==
    /\ pc[p] # "idle" /\ ~isStatic(calls[p].name)
    /\ Writes(calls[p].op, KeyOf(p), p, o)
    /\ Put(CallSlot(p), o)
    /\ \/ Answer(p, "error", {})
       \/ Answer(p, "ok", {}) /\ (calls[p].op = "delete" => store[CallSlot(p)] # NoObject)
    /\ UNCHANGED <<setup, late>>

\* o is what p knows that it has to write,
MayWrite(p, o) ==
    /\ o \in MaybeObjects
    /\ \/ /\ calls[p].op = "create"
          /\ \E n \in Names : o = Created(p, n) /\ Key(kind, n) = KeyOf(p)
       \/ calls[p].op = "delete" /\ o = NoObject
       \/ /\ calls[p].op = "update"
          /\ seen[p] = NoObject => Creating /\ o = Updated(ZeroObject, p)
          /\ seen[p] # NoObject /\ p \in known[CallSlot(p)] => Writes("update", KeyOf(p), p, o)

\* and gives up after it has sent the request to write it,
GivesUp(p, o) ==
    LET r == [op |-> calls[p].op, name |-> calls[p].name, slot |-> CallSlot(p), by |-> p,
              value |-> o, first |-> seen[p] = NoObject]
    IN  /\ pc[p] # "idle" /\ ~isStatic(calls[p].name)
        /\ MayWrite(p, o)
        /\ \A q \in late : Purpose(q) # Purpose(r)
        /\ late' = late \cup {r}
        /\ known' = [known EXCEPT ![CallSlot(p)] = IF p \in @ THEN (@ \ {p}) \cup {r} ELSE @]
        /\ Answer(p, "error", {})
        /\ UNCHANGED <<setup, store>>

\* reads the object that it is going to write,
Reads(p) ==
    /\ pc[p] = "called" /\ ~isStatic(calls[p].name)
    /\ store[CallSlot(p)] = NoObject => Creating
    /\ Hashed => store[CallSlot(p)].name = calls[p].name
    /\ Read(p, CallSlot(p))
    /\ UNCHANGED <<setup, late>>

\* or takes the mutex.
Locks(p) ==
    /\ backend = "memory" /\ pc[p] = "called"
    /\ calls[p].op = "list" \/ ~isStatic(calls[p].name)
    /\ pc' = [pc EXCEPT ![p] = "locked"]
    /\ UNCHANGED <<setup, store, known, calls, seen, late>>

MethodStep(p) ==
    Returns(p) \/ (\E o : Commits(p, o) \/ GivesUp(p, o)) \/ Reads(p) \/ Locks(p)

\* The call of p.
LEMMA CallFacts ==
    ASSUME Inv, NEW p \in Procs, pc[p] # "idle"
    PROVE  /\ kind \in Kinds /\ calls[p].name \in Names
           /\ KeyOf(p) \in Names /\ Key(kind, KeyOf(p)) = KeyOf(p)
           /\ CallSlot(p) = Slot(KeyOf(p)) /\ CallSlot(p) \in Names
           /\ isStatic(calls[p].name) <=> KeyOf(p) \in static
           /\ calls[p].op \in Operations[kind]
           /\ Hashed => KeyOf(p) = calls[p].name
           /\ backend \notin {"etcd", "kubernetes"} => ~Hashed /\ CallSlot(p) = KeyOf(p)
           /\ backend = "etcd" => ~Hashed /\ CallSlot(p) = EtcdKey(p)
           /\ backend = "kubernetes" => CallSlot(p) = K8sSlot(p)
           /\ seen[p] \in MaybeObjects /\ store[CallSlot(p)] \in MaybeObjects
<1>1. /\ kind \in Kinds /\ calls[p].name \in Names
      /\ calls[p].op \in Operations[kind]
  BY DEF Inv, Types, Callers, InCall
<1>2. KeyOf(p) \in Names /\ Key(kind, KeyOf(p)) = KeyOf(p)
  BY <1>1, KeyFacts DEF KeyOf
<1>3. CallSlot(p) = Slot(KeyOf(p)) /\ CallSlot(p) \in Names
  BY <1>2, SlotFacts DEF CallSlot, KeyOf
<1>4. Hashed => KeyOf(p) = calls[p].name
  BY KeyFacts DEF Hashed, KeyOf
<1>5. backend = "kubernetes" => CallSlot(p) = K8sSlot(p)
  BY <1>3, <1>4 DEF Slot, Hashed, Folded, KeyOf, K8sSlot, K8sName
<1>6. seen[p] \in MaybeObjects /\ store[CallSlot(p)] \in MaybeObjects
  BY <1>3 DEF Inv, Types
<1>7. backend = "etcd" => ~Hashed /\ CallSlot(p) = EtcdKey(p)
  BY <1>3, KeyFacts DEF Slot, Hashed, Folded, KeyOf, EtcdKey
<1>8. backend \notin {"etcd", "kubernetes"} => ~Hashed /\ CallSlot(p) = KeyOf(p)
  BY <1>3 DEF Slot, Hashed, Folded
<1> QED
  BY <1>1, <1>2, <1>3, <1>4, <1>5, <1>6, <1>7, <1>8 DEF isStatic, KeyOf

\* The overlay, and a database that cannot be reached.
LEMMA StaticSteps ==
    ASSUME Inv, NEW p \in Procs, StaticCall(p) \/ Unreachable(p)
    PROVE  Returns(p)
<1>1. CASE StaticCall(p)
  <2>1. pc[p] # "idle" /\ UNCHANGED <<setup, store, known, late>> /\ isStatic(calls[p].name)
    BY <1>1 DEF StaticCall, At
  <2>2. CASE calls[p].op = "get"
    <3>1. Answer(p, "ok", {StaticObject(KeyOf(p))})
      BY <1>1, <2>2 DEF StaticCall, KeyOf
    <3> QED
      BY <2>1, <2>2, <3>1 DEF Returns, Found
  <2>3. CASE calls[p].op # "get"
    BY <1>1, <2>1, <2>3 DEF StaticCall, Returns
  <2> QED
    BY <2>2, <2>3
<1>2. CASE Unreachable(p)
  BY <1>2 DEF Unreachable, Returns
<1> QED
  BY <1>1, <1>2

\* The in-memory storage.
LEMMA MemorySteps ==
    ASSUME Inv, NEW p \in Procs, MemoryLock(p) \/ MemoryMethod(p)
    PROVE  MethodStep(p)
<1>1. CASE MemoryLock(p)
  BY <1>1 DEF MemoryLock, Called, At, Locks, MethodStep
<1>2. CASE MemoryMethod(p)
  <2> DEFINE s == CallSlot(p)
  <2>1. pc[p] = "locked" /\ UNCHANGED <<setup, late>>
    BY <1>2 DEF MemoryMethod, MemoryCreate, MemoryGet, MemoryList, MemoryDelete, MemoryUpdate,
                MemoryUnlock, At
  <2>2. /\ s = KeyOf(p) /\ s = Slot(KeyOf(p)) /\ s \in Names /\ ~Hashed
        /\ Creating <=> kind = "Keys"
        /\ calls[p].op # "list" => ~isStatic(calls[p].name)
    BY <2>1, CallFacts DEF Inv, Callers, InCall, Creating
  <2> HIDE DEF s
  <2>3. CASE MemoryCreate(p)
    <3>1. calls[p].op = "create"
      BY <2>3 DEF MemoryCreate, At
    <3>2. CASE store[s] # NoObject
      BY <2>1, <2>2, <2>3, <3>1, <3>2 DEF MemoryCreate, Keep, Returns, Refused, MethodStep, s
    <3>3. CASE store[s] = NoObject
      <4>1. Writes("create", KeyOf(p), p, Created(p, calls[p].name))
        BY <2>1, <2>2, <3>3, CallFacts DEF Writes, KeyOf
      <4> QED
        BY <2>1, <2>2, <2>3, <3>1, <3>3, <4>1 DEF MemoryCreate, Commits, MethodStep, s
    <3> QED
      BY <3>2, <3>3
  <2>4. CASE MemoryGet(p)
    <3>1. calls[p].op = "get" /\ UNCHANGED <<store, known>>
      BY <2>4 DEF MemoryGet, At, Keep
    <3>2. CASE store[s] = NoObject /\ kind # "Keys"
      BY <2>1, <2>2, <2>4, <3>1, <3>2 DEF MemoryGet, Returns, Refused, MethodStep, s
    <3>3. CASE store[s] # NoObject
      <4>1. Found(p, store[s]) /\ Answer(p, "ok", {store[s]})
        BY <2>2, <2>4, <3>1, <3>3 DEF MemoryGet, Found, s
      <4> QED
        BY <2>1, <3>1, <4>1, SMTT(30) DEF Returns, MethodStep
    <3>4. CASE store[s] = NoObject /\ kind = "Keys"
      <4>1. Found(p, ZeroObject) /\ Answer(p, "ok", {ZeroObject})
        BY <2>2, <2>4, <3>1, <3>4 DEF MemoryGet, Found, s
      <4> QED
        BY <2>1, <3>1, <4>1 DEF Returns, MethodStep
    <3> QED
      BY <3>2, <3>3, <3>4
  <2>5. CASE MemoryList(p)
    BY <2>1, <2>5 DEF MemoryList, At, Keep, Returns, MethodStep
  <2>6. CASE MemoryDelete(p)
    <3>1. calls[p].op = "delete"
      BY <2>6 DEF MemoryDelete, At
    <3>2. CASE store[s] = NoObject
      BY <2>1, <2>2, <2>6, <3>1, <3>2 DEF MemoryDelete, Keep, Returns, Refused, MethodStep, s
    <3>3. CASE store[s] # NoObject
      <4>1. Writes("delete", KeyOf(p), p, NoObject)
        BY <2>2 DEF Writes
      <4> QED
        BY <2>1, <2>2, <2>6, <3>1, <3>3, <4>1 DEF MemoryDelete, Commits, MethodStep, s
    <3> QED
      BY <3>2, <3>3
  <2>7. CASE MemoryUpdate(p)
    <3>1. calls[p].op \in {"update", "updateFails", "updatePanics"}
      BY <2>7 DEF MemoryUpdate, At
    <3>2. CASE store[s] = NoObject /\ kind # "Keys"
      BY <2>1, <2>2, <2>7, <3>1, <3>2 DEF MemoryUpdate, Keep, Returns, Refused, MethodStep, s
    <3>3. CASE ~(store[s] = NoObject /\ kind # "Keys") /\ calls[p].op = "updateFails"
      BY <2>1, <2>2, <2>7, <3>3 DEF MemoryUpdate, Keep, Returns, MethodStep
    <3>4. CASE ~(store[s] = NoObject /\ kind # "Keys") /\ calls[p].op = "updatePanics"
      <4>1. Refused(p, "panic") /\ Answer(p, "panic", {}) /\ UNCHANGED <<store, known>>
        BY <2>2, <2>7, <3>4 DEF MemoryUpdate, Keep, Refused, s
      <4> QED
        BY <2>1, <2>2, <3>4, <4>1 DEF Returns, MethodStep
    <3>5. CASE ~(store[s] = NoObject /\ kind # "Keys") /\ calls[p].op = "update"
      <4> DEFINE old == IF store[KeyOf(p)] = NoObject THEN ZeroObject ELSE store[KeyOf(p)]
      <4>1. Writes("update", KeyOf(p), p, Updated(old, p))
        BY <2>2, <3>5 DEF Writes
      <4>2. Put(s, Updated(old, p)) /\ Answer(p, "ok", {})
        BY <2>2, <2>7, <3>5 DEF MemoryUpdate
      <4> HIDE DEF old
      <4> QED
        BY <2>1, <2>2, <3>5, <4>1, <4>2 DEF Commits, MethodStep, s
    <3> QED
      BY <3>1, <3>2, <3>3, <3>4, <3>5
  <2> QED
    BY <1>2, <2>3, <2>4, <2>5, <2>6, <2>7 DEF MemoryMethod
<1> QED
  BY <1>1, <1>2

\* The etcd storage.
LEMMA EtcdSteps ==
    ASSUME Inv, NEW p \in Procs, EtcdMethod(p)
    PROVE  MethodStep(p)
<1> DEFINE s == CallSlot(p)
<1>1. backend = "etcd" /\ UNCHANGED setup /\ pc[p] \in {"called", "read"}
  BY DEF EtcdMethod, txnCreate, getKey, EtcdList, deleteKey, txnUpdateRead, txnUpdatePut, At, Called
<1>2. /\ s = EtcdKey(p) /\ s = Slot(KeyOf(p)) /\ s \in Names /\ ~Hashed
      /\ Creating /\ kind \in Kinds /\ calls[p].name \in Names
      /\ seen[p] \in MaybeObjects /\ store[s] \in MaybeObjects
  BY <1>1, CallFacts DEF Creating
<1>3. \A o \in WholeObjects : EtcdCopy(o) = o
  BY <1>2, CopiesAreWhole
<1> HIDE DEF s
<1>4. CASE txnCreate(p)
  <2> DEFINE o == Created(p, calls[p].name)
  <2>1. calls[p].op = "create" /\ ~isStatic(calls[p].name)
    BY <1>4 DEF txnCreate, Called, At
  <2>2. o \in WholeObjects
    BY <1>2, ObjectFacts
  <2>3. Request(p, s, o, store[s] = NoObject, "alreadyExists")
    BY <1>2, <1>3, <1>4, <2>2 DEF txnCreate
  <2>4. o \in MaybeObjects /\ \E n \in Names : o = Created(p, n) /\ Key(kind, n) = KeyOf(p)
    BY <1>2, <2>2 DEF KeyOf, MaybeObjects
  <2> HIDE DEF o
  <2>5. store[s] = NoObject => Writes("create", KeyOf(p), p, o)
    BY <1>2, <2>4 DEF Writes
  <2>6. MayWrite(p, o)
    BY <2>1, <2>4 DEF MayWrite
  <2>7. CASE store[s] = NoObject
    BY <1>1, <2>1, <2>3, <2>5, <2>6, <2>7 DEF Request, Commits, GivesUp, MethodStep, s
  <2>8. CASE store[s] # NoObject
    BY <1>1, <2>1, <2>3, <2>6, <2>8 DEF Request, Keep, Returns, Refused, GivesUp, MethodStep, s
  <2> QED
    BY <2>7, <2>8
<1>5. CASE getKey(p)
  <2>1. calls[p].op = "get" /\ ~isStatic(calls[p].name) /\ UNCHANGED <<setup, store, known, late>>
    BY <1>5 DEF getKey, Called, At
  <2>2. CASE store[s] # NoObject
    <3>1. Found(p, store[s]) /\ Answer(p, "ok", {store[s]})
      BY <1>2, <1>3, <1>5, <2>1, <2>2 DEF getKey, Found, MaybeObjects, s
    <3> QED
      BY <1>1, <2>1, <3>1 DEF Returns, MethodStep
  <2>3. CASE store[s] = NoObject /\ kind = "Keys"
    <3>1. Found(p, ZeroObject) /\ Answer(p, "ok", {ZeroObject})
      BY <1>2, <1>5, <2>1, <2>3 DEF getKey, Found, s
    <3> QED
      BY <1>1, <2>1, <3>1 DEF Returns, MethodStep
  <2>4. CASE store[s] = NoObject /\ kind # "Keys"
    BY <1>1, <1>2, <1>5, <2>1, <2>4 DEF getKey, Returns, Refused, MethodStep, s
  <2> QED
    BY <2>2, <2>3, <2>4
<1>6. CASE EtcdList(p)
  <2>1. {EtcdCopy(o) : o \in Stored} = Stored
    BY <1>3, SMT DEF Inv, Types, Stored, MaybeObjects
  <2> QED
    BY <1>1, <1>6, <2>1 DEF EtcdList, Called, At, Returns, MethodStep
<1>7. CASE deleteKey(p)
  <2>1. calls[p].op = "delete" /\ ~isStatic(calls[p].name)
    BY <1>7 DEF deleteKey, Called, At
  <2>2. Request(p, s, NoObject, store[s] # NoObject, "notFound")
    BY <1>2, <1>7 DEF deleteKey
  <2>3. Writes("delete", KeyOf(p), p, NoObject) /\ MayWrite(p, NoObject)
    BY <1>2, <2>1 DEF Writes, MayWrite, MaybeObjects
  <2>4. CASE store[s] # NoObject
    BY <1>1, <2>1, <2>2, <2>3, <2>4 DEF Request, Commits, GivesUp, MethodStep, s
  <2>5. CASE store[s] = NoObject
    BY <1>1, <2>1, <2>2, <2>3, <2>5 DEF Request, Keep, Returns, Refused, GivesUp, MethodStep, s
  <2> QED
    BY <2>4, <2>5
<1>8. CASE txnUpdateRead(p)
  <2>1. /\ pc[p] = "called" /\ calls[p].op \in {"update", "updateFails", "updatePanics"}
        /\ ~isStatic(calls[p].name) /\ UNCHANGED <<setup, late>>
    BY <1>8 DEF txnUpdateRead, Called, At
  <2>2. CASE calls[p].op = "updateFails"
    BY <1>8, <2>1, <2>2, SMTT(30) DEF txnUpdateRead, Keep, Returns, MethodStep
  <2>3. CASE calls[p].op = "updatePanics"
    <3>1. Refused(p, "panic") /\ Answer(p, "panic", {}) /\ UNCHANGED <<store, known>>
      BY <1>2, <1>8, <2>3 DEF txnUpdateRead, Keep, Refused
    <3> QED
      BY <2>1, <3>1 DEF Returns, MethodStep
  <2>4. CASE calls[p].op = "update"
    BY <1>2, <1>8, <2>1, <2>4 DEF txnUpdateRead, Reads, MethodStep, s
  <2> QED
    BY <2>1, <2>2, <2>3, <2>4
<1>9. CASE txnUpdatePut(p)
  <2> DEFINE old == IF seen[p] = NoObject THEN ZeroObject ELSE seen[p]
             o   == Updated(old, p)
  <2>1. calls[p].op = "update" /\ pc[p] = "read" /\ ~isStatic(calls[p].name)
    BY <1>9 DEF txnUpdatePut, At, Inv, Callers, InCall
  <2>2. old \in WholeObjects /\ o \in WholeObjects
    BY <1>2, ObjectFacts DEF MaybeObjects
  <2>3. PICK same : same = IF seen[p] = NoObject THEN store[s] = NoObject ELSE p \in known[s]
    OBVIOUS
  <2>4. Request(p, s, o, same, "error")
    BY <1>2, <1>3, <1>9, <2>2, <2>3 DEF txnUpdatePut
  <2>5. seen[p] # NoObject /\ p \in known[s] => Writes("update", KeyOf(p), p, o)
    BY <1>2, <2>1 DEF Writes, Inv, Callers, InCall, s
  <2>6. seen[p] = NoObject /\ store[s] = NoObject => Writes("update", KeyOf(p), p, o)
    BY <1>2, <2>1 DEF Writes, s
  <2>7. seen[p] = NoObject => o = Updated(ZeroObject, p)
    OBVIOUS
  <2> HIDE DEF o
  <2>8. MayWrite(p, o)
    BY <1>2, <2>1, <2>2, <2>5, <2>7 DEF MayWrite, MaybeObjects, s
  <2>9. CASE same
    <3>1. Writes("update", KeyOf(p), p, o)
      BY <2>3, <2>5, <2>6, <2>9
    <3> QED
      BY <1>1, <2>1, <2>4, <2>8, <2>9, <3>1 DEF Request, Commits, GivesUp, MethodStep, s
  <2>10. CASE ~same
    BY <1>1, <2>1, <2>4, <2>8, <2>10 DEF Request, Keep, Returns, GivesUp, MethodStep, s
  <2> QED
    BY <2>9, <2>10
<1> QED
  BY <1>4, <1>5, <1>6, <1>7, <1>8, <1>9 DEF EtcdMethod

\* The Kubernetes storage.
LEMMA K8sSteps ==
    ASSUME Inv, NEW p \in Procs, K8sMethod(p)
    PROVE  MethodStep(p)
<1> DEFINE s == CallSlot(p)
<1>1. backend = "kubernetes" /\ UNCHANGED setup /\ pc[p] \in {"called", "read"}
  BY SMTT(30) DEF K8sMethod, K8sCreate, K8sGet, K8sList, K8sDeleteGet, K8sDelete, K8sUpdateGet,
         K8sUpdatePut, At, Called
<1>2. /\ s = K8sSlot(p) /\ s = Slot(KeyOf(p)) /\ s \in Names /\ (Creating <=> kind = "Keys")
      /\ kind \in Kinds /\ KeyOf(p) \in Names /\ Key(kind, KeyOf(p)) = KeyOf(p)
      /\ seen[p] \in MaybeObjects /\ store[s] \in MaybeObjects
      /\ Hashed => KeyOf(p) = calls[p].name
      /\ ~Collision(p) => (Hashed => store[s].name = KeyOf(p))
  BY <1>1, CallFacts DEF Creating, Collision, Encoded, Hashed, KeyOf
<1>3. \A o \in WholeObjects : K8sCopy(o) = o
  BY <1>2, CopiesAreWhole
<1> HIDE DEF s
<1>4. CASE K8sCreate(p)
  <2> DEFINE o == Created(p, KeyOf(p))
  <2>1. calls[p].op = "create" /\ ~isStatic(calls[p].name)
    BY <1>4 DEF K8sCreate, Called, At
  <2>2. o \in WholeObjects
    BY <1>2, ObjectFacts
  <2>3. Request(p, s, o, store[s] = NoObject, "alreadyExists")
    BY <1>2, <1>3, <1>4, <2>2 DEF K8sCreate, KeyOf
  <2>4. o \in MaybeObjects /\ \E n \in Names : o = Created(p, n) /\ Key(kind, n) = KeyOf(p)
    BY <1>2, <2>2 DEF MaybeObjects
  <2> HIDE DEF o
  <2>5. store[s] = NoObject => Writes("create", KeyOf(p), p, o)
    BY <1>2, <2>4 DEF Writes
  <2>6. MayWrite(p, o)
    BY <2>1, <2>4 DEF MayWrite
  <2>7. CASE store[s] = NoObject
    BY <1>1, <2>1, <2>3, <2>5, <2>6, <2>7, SMTT(30) DEF Request, Commits, GivesUp, MethodStep, s
  <2>8. CASE store[s] # NoObject
    BY <1>1, <2>1, <2>3, <2>6, <2>8 DEF Request, Keep, Returns, Refused, GivesUp, MethodStep, s
  <2> QED
    BY <2>7, <2>8
<1>5. CASE K8sGet(p)
  <2>1. calls[p].op = "get" /\ ~isStatic(calls[p].name) /\ UNCHANGED <<setup, store, known, late>>
    BY <1>5 DEF K8sGet, Called, At
  <2>2. CASE store[s] # NoObject /\ ~Collision(p)
    <3>1. Found(p, store[s]) /\ Answer(p, "ok", {store[s]})
      BY <1>2, <1>3, <1>5, <2>1, <2>2 DEF K8sGet, Found, MaybeObjects, s
    <3> QED
      BY <1>1, <2>1, <3>1 DEF Returns, MethodStep
  <2>3. CASE store[s] # NoObject /\ Collision(p)
    BY <1>1, <1>2, <1>5, <2>1, <2>3 DEF K8sGet, Returns, MethodStep
  <2>4. CASE store[s] = NoObject
    BY <1>1, <1>2, <1>5, <2>1, <2>4 DEF K8sGet, Returns, Refused, MethodStep, s
  <2> QED
    BY <2>2, <2>3, <2>4
<1>6. CASE K8sList(p)
  <2>1. {K8sCopy(o) : o \in Stored} = Stored
    BY <1>3, SMT DEF Inv, Types, Stored, MaybeObjects
  <2> QED
    BY <1>1, <1>6, <2>1 DEF K8sList, Called, At, Returns, MethodStep
<1>7. CASE K8sDeleteGet(p)
  <2>1. /\ calls[p].op = "delete" /\ pc[p] = "called" /\ ~isStatic(calls[p].name)
        /\ UNCHANGED <<setup, late>>
    BY <1>7 DEF K8sDeleteGet, Called, At
  <2>2. CASE store[s] = NoObject
    BY <1>2, <1>7, <2>1, <2>2 DEF K8sDeleteGet, Keep, Returns, Refused, MethodStep, s
  <2>3. CASE store[s] # NoObject /\ Collision(p)
    BY <1>2, <1>7, <2>1, <2>3 DEF K8sDeleteGet, Keep, Returns, MethodStep
  <2>4. CASE store[s] # NoObject /\ ~Collision(p)
    BY <1>2, <1>7, <2>1, <2>4, SMTT(30) DEF K8sDeleteGet, Reads, MethodStep, s
  <2> QED
    BY <2>2, <2>3, <2>4
<1>8. CASE K8sDelete(p)
  <2>1. calls[p].op = "delete" /\ ~isStatic(calls[p].name)
    BY <1>8 DEF K8sDelete, Called, At, Inv, Callers, InCall
  <2>2. Request(p, s, NoObject, store[s] # NoObject, "notFound")
    BY <1>2, <1>8 DEF K8sDelete
  <2>3. Writes("delete", KeyOf(p), p, NoObject) /\ MayWrite(p, NoObject)
    BY <1>2, <2>1 DEF Writes, MayWrite, MaybeObjects
  <2>4. CASE store[s] # NoObject
    BY <1>1, <2>1, <2>2, <2>3, <2>4, SMTT(30) DEF Request, Commits, GivesUp, MethodStep, s
  <2>5. CASE store[s] = NoObject
    BY <1>1, <2>1, <2>2, <2>3, <2>5 DEF Request, Keep, Returns, Refused, GivesUp, MethodStep, s
  <2> QED
    BY <2>4, <2>5
<1>9. CASE K8sUpdateGet(p)
  <2>1. /\ pc[p] = "called" /\ calls[p].op \in {"update", "updateFails", "updatePanics"}
        /\ ~isStatic(calls[p].name) /\ UNCHANGED <<setup, late>>
    BY <1>9 DEF K8sUpdateGet, Called, At
  <2>2. CASE store[s] = NoObject /\ kind # "Keys"
    BY <1>2, <1>9, <2>1, <2>2 DEF K8sUpdateGet, Keep, Returns, Refused, MethodStep, s
  <2>3. CASE store[s] # NoObject /\ Collision(p)
    BY <1>2, <1>9, <2>1, <2>3 DEF K8sUpdateGet, Keep, Returns, MethodStep
  <2>4. CASE ~(store[s] = NoObject /\ kind # "Keys") /\ ~(store[s] # NoObject /\ Collision(p))
    <3>1. CASE calls[p].op = "updateFails"
      BY <1>2, <1>9, <2>1, <2>4, <3>1, SMTT(30) DEF K8sUpdateGet, Keep, Returns, MethodStep
    <3>2. (store[s] = NoObject => Creating) /\ (Hashed => store[s].name = KeyOf(p))
      BY <1>2, <2>4 DEF Hashed
    <3>3. CASE calls[p].op = "updatePanics"
      <4>1. Refused(p, "panic") /\ Answer(p, "panic", {}) /\ UNCHANGED <<store, known>>
        BY <1>2, <1>9, <2>4, <3>2, <3>3 DEF K8sUpdateGet, Keep, Refused, s
      <4> QED
        BY <2>1, <4>1 DEF Returns, MethodStep
    <3>4. CASE calls[p].op = "update"
      BY <1>2, <1>9, <2>1, <2>4, <3>2, <3>4 DEF K8sUpdateGet, Reads, MethodStep, s
    <3> QED
      BY <2>1, <3>1, <3>3, <3>4
  <2> QED
    BY <2>2, <2>3, <2>4
<1>10. CASE K8sUpdatePut(p)
  <2> DEFINE old   == IF seen[p] = NoObject THEN ZeroObject ELSE seen[p]
             o     == Updated(old, p)
             first == seen[p] = NoObject
  <2>1. calls[p].op = "update" /\ pc[p] = "read" /\ ~isStatic(calls[p].name)
    BY <1>10 DEF K8sUpdatePut, At, Inv, Callers, InCall
  <2>2. old \in WholeObjects /\ o \in WholeObjects
    BY <1>2, ObjectFacts DEF MaybeObjects
  <2>3. Request(p, s, o, IF first THEN store[s] = NoObject ELSE p \in known[s],
                IF first THEN "alreadyExists"
                ELSE IF store[s] = NoObject THEN "notFound" ELSE "error")
    BY <1>2, <1>3, <1>10, <2>2, SMTT(30) DEF K8sUpdatePut, MaybeObjects
  <2>4. p \in known[s] => Writes("update", KeyOf(p), p, o)
    BY <1>2, <2>1, SMTT(30) DEF Writes, Inv, Callers, InCall, s
  <2>5. first => kind = "Keys"
    BY <1>2, <2>1 DEF Inv, Callers, InCall
  <2>6. first /\ store[s] = NoObject => Writes("update", KeyOf(p), p, o)
    BY <1>2, <2>5 DEF Writes, Hashed
  <2>7. ~first /\ store[s] = NoObject => ~Creating
    BY <1>2, <2>1 DEF Inv, Callers, InCall, s
  <2>a. first => o = Updated(ZeroObject, p)
    OBVIOUS
  <2> HIDE DEF o
  <2>8. MayWrite(p, o)
    BY <1>2, <2>1, <2>2, <2>4, <2>5, <2>a DEF MayWrite, MaybeObjects, s
  <2>9. CASE first /\ store[s] = NoObject
    BY <1>1, <2>1, <2>3, <2>6, <2>8, <2>9 DEF Request, Commits, GivesUp, MethodStep, s
  <2>10. CASE first /\ store[s] # NoObject
    BY <1>1, <2>1, <2>3, <2>5, <2>8, <2>10 DEF Request, Keep, Returns, GivesUp, MethodStep, s
  <2>11. CASE ~first /\ p \in known[s]
    BY <1>1, <2>1, <2>3, <2>4, <2>8, <2>11 DEF Request, Commits, GivesUp, MethodStep, s
  <2>12. CASE ~first /\ p \notin known[s] /\ store[s] = NoObject
    BY <1>1, <2>1, <2>3, <2>7, <2>8, <2>12, SMTT(30)
       DEF Request, Keep, Returns, Refused, GivesUp, MethodStep, s
  <2>13. CASE ~first /\ p \notin known[s] /\ store[s] # NoObject
    BY <1>1, <2>1, <2>3, <2>8, <2>13 DEF Request, Keep, Returns, GivesUp, MethodStep, s
  <2> QED
    BY <2>9, <2>10, <2>11, <2>12, <2>13, SMTT(30)
<1> QED
  BY <1>4, <1>5, <1>6, <1>7, <1>8, <1>9, <1>10 DEF K8sMethod

\* The SQL storages.
LEMMA SQLSteps ==
    ASSUME Inv, NEW p \in Procs, SQLMethod(p)
    PROVE  MethodStep(p)
<1> DEFINE s == CallSlot(p)
<1>1. backend \in {"postgres", "sqlite3"} /\ UNCHANGED setup /\ pc[p] \in {"called", "read"}
  BY SMTT(30) DEF SQLMethod, SQLCreate, SQLGet, SQLList, SQLDelete, SQLBegin, SQLCommit, Execute,
         Connected, At, Called
<1>2. /\ s = KeyOf(p) /\ s = Slot(KeyOf(p)) /\ s \in Names /\ ~Hashed
      /\ Creating <=> kind = "Keys"
      /\ kind \in Kinds /\ KeyOf(p) \in Names /\ Key(kind, KeyOf(p)) = KeyOf(p)
      /\ seen[p] \in MaybeObjects /\ store[s] \in MaybeObjects
  BY <1>1, CallFacts DEF Creating
<1>3. \A o \in WholeObjects : Selected(o) = o /\ Copy(kind, o, SQLTables[kind].insert) = o
  BY <1>2, CopiesAreWhole, ZenonT(30)
<1> HIDE DEF s
<1>4. CASE SQLCreate(p)
  <2> DEFINE o == Created(p, KeyOf(p))
  <2>1. calls[p].op = "create" /\ ~isStatic(calls[p].name)
    BY <1>4 DEF SQLCreate, Connected, Called, At
  <2>2. o \in WholeObjects
    BY <1>2, ObjectFacts
  <2>3. Execute(p, o, store[s] = NoObject, "alreadyExists")
    BY <1>2, <1>3, <1>4, <2>2 DEF SQLCreate, KeyOf
  <2>4. store[s] = NoObject => Writes("create", KeyOf(p), p, o)
    BY <1>2 DEF Writes
  <2> HIDE DEF o
  <2>5. CASE store[s] = NoObject
    BY <1>1, <1>2, <2>1, <2>3, <2>4, <2>5, ZenonT(30) DEF Execute, Commits, MethodStep, s
  <2>6. CASE store[s] # NoObject
    BY <1>1, <2>1, <2>3, <2>6, SMTT(30) DEF Execute, Keep, Returns, Refused, MethodStep, s
  <2> QED
    BY <2>5, <2>6
<1>5. CASE SQLGet(p)
  <2>1. calls[p].op = "get" /\ ~isStatic(calls[p].name) /\ UNCHANGED <<setup, store, known, late>>
    BY <1>5 DEF SQLGet, Connected, Called, At
  <2>2. CASE store[s] # NoObject
    <3>1. Found(p, store[s]) /\ Answer(p, "ok", {store[s]})
      BY <1>2, <1>3, <1>5, <2>1, <2>2 DEF SQLGet, Found, MaybeObjects, s
    <3> QED
      BY <1>1, <2>1, <3>1 DEF Returns, MethodStep
  <2>3. CASE store[s] = NoObject
    BY <1>1, <1>2, <1>5, <2>1, <2>3 DEF SQLGet, Returns, Refused, MethodStep, s
  <2> QED
    BY <2>2, <2>3
<1>6. CASE SQLList(p)
  <2>1. {Selected(o) : o \in Stored} = Stored
    BY <1>3, SMT DEF Inv, Types, Stored, MaybeObjects
  <2> QED
    BY <1>1, <1>6, <2>1 DEF SQLList, Connected, Called, At, Returns, MethodStep
<1>7. CASE SQLDelete(p)
  <2>1. calls[p].op = "delete" /\ ~isStatic(calls[p].name)
    BY <1>7 DEF SQLDelete, Connected, Called, At
  <2>2. Execute(p, NoObject, store[s] # NoObject, "notFound")
    BY <1>2, <1>7 DEF SQLDelete
  <2>3. Writes("delete", KeyOf(p), p, NoObject)
    BY <1>2 DEF Writes
  <2>4. CASE store[s] # NoObject
    BY <1>1, <1>2, <2>1, <2>2, <2>3, <2>4, ZenonT(30) DEF Execute, Commits, MethodStep, s
  <2>5. CASE store[s] = NoObject
    BY <1>1, <2>1, <2>2, <2>5 DEF Execute, Keep, Returns, Refused, MethodStep, s
  <2> QED
    BY <2>4, <2>5
<1>8. CASE SQLBegin(p)
  <2>1. /\ pc[p] = "called" /\ calls[p].op \in {"update", "updateFails", "updatePanics"}
        /\ ~isStatic(calls[p].name) /\ UNCHANGED <<setup, late>>
    BY <1>8 DEF SQLBegin, Connected, Called, At
  <2>2. CASE store[s] = NoObject /\ kind # "Keys"
    BY <1>2, <1>8, <2>1, <2>2 DEF SQLBegin, Keep, Returns, Refused, MethodStep, s
  <2>3. CASE ~(store[s] = NoObject /\ kind # "Keys") /\ calls[p].op = "updateFails"
    BY <1>2, <1>8, <2>1, <2>3 DEF SQLBegin, Keep, Returns, MethodStep
  <2>4. CASE ~(store[s] = NoObject /\ kind # "Keys") /\ calls[p].op = "updatePanics"
    <3>1. Refused(p, "panic") /\ Answer(p, "panic", {}) /\ UNCHANGED <<store, known>>
      BY <1>2, <1>8, <2>4 DEF SQLBegin, Keep, Refused, s
    <3> QED
      BY <2>1, <3>1 DEF Returns, MethodStep
  <2>5. CASE ~(store[s] = NoObject /\ kind # "Keys") /\ calls[p].op = "update"
    BY <1>2, <1>8, <2>1, <2>5, ZenonT(30) DEF SQLBegin, Reads, MethodStep, s
  <2> QED
    BY <2>1, <2>2, <2>3, <2>4, <2>5
<1>9. CASE SQLCommit(p)
  <2> DEFINE old == IF seen[p] = NoObject THEN ZeroObject ELSE seen[p]
             o   == Updated(old, p)
  <2>1. calls[p].op = "update" /\ pc[p] = "read" /\ ~isStatic(calls[p].name)
    BY <1>9 DEF SQLCommit, At, Inv, Callers, InCall
  <2>2. old \in WholeObjects /\ o \in WholeObjects /\ o.name = old.name
    BY <1>2, ObjectFacts DEF MaybeObjects
  <2>3. kind # "AuthCode"
    BY <1>1, <2>1, CallFacts, SMT DEF Operations
  <2>4. seen[p] # NoObject => SetColumns(seen[p], o) = o
    BY <1>2, <2>2, <2>3, CopiesAreWhole
  <2>5. Copy(kind, o, SQLTables[kind].insert) = o
    BY <1>3, <2>2
  <2>6. old = IF seen[p] = NoObject THEN ZeroObject ELSE Selected(seen[p])
    BY <1>2, <1>3 DEF MaybeObjects
  <2>7. Execute(p, o, p \in known[s], "error")
    BY <1>2, <1>9, <2>4, <2>5, <2>6 DEF SQLCommit
  <2>8. p \in known[s] => Writes("update", KeyOf(p), p, o)
    BY <1>2, <2>1 DEF Writes, Inv, Callers, InCall, s
  <2> HIDE DEF o
  <2>9. CASE p \in known[s]
    BY <1>1, <1>2, <2>1, <2>7, <2>8, <2>9, ZenonT(30) DEF Execute, Commits, MethodStep, s
  <2>10. CASE p \notin known[s]
    BY <1>1, <2>1, <2>7, <2>10 DEF Execute, Keep, Returns, MethodStep
  <2> QED
    BY <2>9, <2>10
<1> QED
  BY <1>4, <1>5, <1>6, <1>7, <1>8, <1>9 DEF SQLMethod

\* Every step inside a method is one of these.
LEMMA StepCases ==
    ASSUME Inv, NEW p \in Procs, Step(p)
    PROVE  MethodStep(p)
BY StaticSteps, MemorySteps, EtcdSteps, K8sSteps, SQLSteps DEF Step, MethodStep

-----------------------------------------------------------------------------
(* The steps keep the invariant.                                           *)

\* Names do not change.
LEMMA SameNames ==
    ASSUME UNCHANGED setup
    PROVE  /\ Hashed' = Hashed /\ Creating' = Creating /\ UNCHANGED <<backend, kind, static>>
           /\ \A n : Slot(n)' = Slot(n) /\ isStatic(n)' = isStatic(n)
           /\ \A r : Purpose(r)' = Purpose(r)
BY DEF setup, Hashed, Folded, Creating, Slot, isStatic, Purpose

\* A call goes on while nothing happens to its object.
LEMMA SameCall ==
    ASSUME UNCHANGED setup, NEW q \in Procs, InCall(q),
           calls'[q] = calls[q], pc'[q] = pc[q], seen'[q] = seen[q],
           pc[q] = "read" =>
               /\ q \in known'[CallSlot(q)] => q \in known[CallSlot(q)]
               /\ store'[CallSlot(q)] = store[CallSlot(q)]
    PROVE  InCall(q)'
<1>1. CallSlot(q)' = CallSlot(q)
  BY SameNames DEF CallSlot
<1>2. (pc[q] = "read" =>
          /\ seen[q] = NoObject => Creating
          /\ Hashed => seen[q].name = calls[q].name
          /\ q \in known[CallSlot(q)] => store[CallSlot(q)] = seen[q]
          /\ kind = "Keys" /\ seen[q] # NoObject => store[CallSlot(q)] # NoObject)'
  BY <1>1, SameNames DEF InCall
<1> QED
  BY <1>2, SameNames DEF InCall

\* A late request is the same while nothing happens to its object.
LEMMA SameRequest ==
    ASSUME UNCHANGED setup, NEW r, Sent(r),
           r \in known'[r.slot] => r \in known[r.slot] /\ store'[r.slot] = store[r.slot]
    PROVE  Sent(r)'
<1>1. (r.op = "update" /\ ~r.first /\ r \in known[r.slot]
          => Writes("update", Key(kind, r.name), r.by, r.value))'
  <2> SUFFICES ASSUME r.op = "update", ~r.first, r \in known'[r.slot]
               PROVE  Writes("update", Key(kind, r.name), r.by, r.value)'
    OBVIOUS
  <2>1. /\ Writes("update", Key(kind, r.name), r.by, r.value)
        /\ r.slot = Slot(Key(kind, r.name)) /\ store'[r.slot] = store[r.slot]
    BY DEF Sent
  <2> QED
    BY <2>1, SameNames DEF Writes
<1> QED
  BY <1>1, SameNames DEF Sent

\* Purposes remain distinct while no request is sent.
LEMMA SameDistinct ==
    ASSUME Distinct, UNCHANGED setup, late' \subseteq late,
           \A s \in Names : known'[s] \subseteq Procs \cup {r \in late' : r.slot = s}
    PROVE  Distinct'
BY SameNames DEF Distinct

\* What changes when p returns.
LEMMA AnswerState ==
    ASSUME Inv, NEW p \in Procs, NEW answer, NEW value, answer # "pending",
           Answer(p, answer, value)
    PROVE  /\ calls' = [q \in Procs |-> calls'[q]]
           /\ pc' \in [Procs -> {"idle", "called", "locked", "read"}]
           /\ seen' \in [Procs -> MaybeObjects]
           /\ calls'[p].answer # "pending" /\ pc'[p] = "idle"
           /\ \A q \in Procs : q # p => calls'[q] = calls[q] /\ pc'[q] = pc[q] /\ seen'[q] = seen[q]
<1> DEFINE c == [NoCall EXCEPT !.answer = answer, !.value = {Standard(o) : o \in value}]
<1>1. c.answer = answer
  BY DEF NoCall
<1> HIDE DEF c
<1>2. calls' = [calls EXCEPT ![p] = c]
  BY DEF Answer, c
<1>3. calls = [q \in Procs |-> calls[q]]
  BY DEF Inv, Types
<1>4. /\ calls' = [q \in Procs |-> calls'[q]] /\ calls'[p] = c
      /\ \A q \in Procs : q # p => calls'[q] = calls[q]
  BY <1>2, <1>3
<1>5. /\ pc' \in [Procs -> {"idle", "called", "locked", "read"}] /\ seen' \in [Procs -> MaybeObjects]
      /\ pc'[p] = "idle"
      /\ \A q \in Procs : q # p => pc'[q] = pc[q] /\ seen'[q] = seen[q]
  BY DEF Answer, Inv, Types, MaybeObjects
<1> QED
  BY <1>1, <1>4, <1>5

\* A call returns without a write.
LEMMA ReturnsInv ==
    ASSUME Inv, NEW p \in Procs, Returns(p)
    PROVE  Inv'
<1>1. /\ UNCHANGED <<setup, store, known, late>>
      /\ \E a, v : a # "pending" /\ Answer(p, a, v)
  BY DEF Returns
<1>2. /\ calls' = [q \in Procs |-> calls'[q]]
      /\ pc' \in [Procs -> {"idle", "called", "locked", "read"}]
      /\ seen' \in [Procs -> MaybeObjects]
      /\ calls'[p].answer # "pending" /\ pc'[p] = "idle"
      /\ \A q \in Procs : q # p => calls'[q] = calls[q] /\ pc'[q] = pc[q] /\ seen'[q] = seen[q]
  BY <1>1, AnswerState
<1>3. Types'
  BY <1>1, <1>2 DEF Inv, Types, setup
<1>4. Stores'
  BY <1>1, SameNames, SMT DEF Inv, Stores
<1>5. Callers'
  <2>1. InCall(p)'
    BY <1>2 DEF InCall
  <2>2. \A q \in Procs : q # p => InCall(q)'
    BY <1>1, <1>2, SameCall DEF Inv, Callers
  <2> QED
    BY <2>1, <2>2 DEF Callers
<1>6. Requesters'
  BY <1>1, SameRequest DEF Inv, Requesters
<1>7. Distinct'
  BY <1>1, SameDistinct DEF Inv, Distinct
<1> QED
  BY <1>3, <1>4, <1>5, <1>6, <1>7 DEF Inv

\* A write of the object that has to be written keeps objects in their slots.
LEMMA PutStores ==
    ASSUME Inv, NEW k \in Names, Key(kind, k) = k, k \notin static, NEW by \in Procs, NEW op,
           NEW o, Writes(op, k, by, o), Put(Slot(k), o), UNCHANGED setup
    PROVE  /\ store' \in [Names -> MaybeObjects] /\ known' = [s \in Names |-> known'[s]]
           /\ Stores'
<1>1. /\ o \in MaybeObjects
      /\ o # NoObject => IF Hashed THEN o.name = k
                         ELSE o.name = NoName \/ Slot(Key(kind, o.name)) = Slot(k)
  BY WritesObjects
<1>2. Slot(k) \in Names /\ Slot(k) \notin static /\ (Hashed => Slot(k) = SessionHash[k])
  <2>1. Hashed \/ Folded => static = {}
    BY DEF Hashed, Folded, Inv, Types
  <2> QED
    BY <2>1, SlotFacts
<1>3. /\ store' \in [Names -> MaybeObjects] /\ known' = [s \in Names |-> known'[s]]
      /\ \A s \in Names : store'[s] = IF s = Slot(k) THEN o ELSE store[s]
  BY <1>1, <1>2 DEF Put, Inv, Types
<1>4. Stores'
  <2> SUFFICES ASSUME NEW s \in Names, store'[s] # NoObject
               PROVE  /\ s \notin static
                      /\ IF Hashed
                         THEN store'[s].name \in Names /\ SessionHash[store'[s].name] = s
                         ELSE store'[s].name = NoName \/ Slot(Key(kind, store'[s].name)) = s
    BY SameNames, SMT DEF Stores
  <2>1. CASE s = Slot(k)
    BY <1>1, <1>2, <1>3, <2>1
  <2>2. CASE s # Slot(k)
    BY <1>3, <2>2 DEF Inv, Stores
  <2> QED
    BY <2>1, <2>2
<1> QED
  BY <1>3, <1>4

\* A write makes what calls and late requests know about the slot useless.
LEMMA PutOthers ==
    ASSUME Inv, NEW s \in Names, NEW o, Put(s, o), UNCHANGED setup,
           kind = "Keys" => o # NoObject
    PROVE  /\ \A q \in Procs : calls'[q] = calls[q] /\ pc'[q] = pc[q] /\ seen'[q] = seen[q]
                                => InCall(q)'
           /\ late' \subseteq late /\ (\A r \in late \ late' : r.slot = s)
                  => Requesters' /\ Distinct'
<1>1. \A t \in Names : /\ store'[t] = IF t = s THEN o ELSE store[t]
                       /\ known'[t] = IF t = s THEN {} ELSE known[t]
  BY DEF Put, Inv, Types
<1>2. ASSUME NEW q \in Procs, calls'[q] = calls[q], pc'[q] = pc[q], seen'[q] = seen[q]
      PROVE  InCall(q)'
  <2>1. CallSlot(q)' = CallSlot(q) /\ (pc[q] # "idle" => CallSlot(q) \in Names)
    BY <1>2, SameNames, CallFacts DEF CallSlot
  <2>2. InCall(q)
    BY DEF Inv, Callers
  <2>3. CASE pc[q] = "read" /\ CallSlot(q) = s
    <3>1. q \notin known'[s] /\ store'[s] = o
      BY <1>1
    <3> QED
      BY <1>2, <2>1, <2>2, <2>3, <3>1, SameNames, SMT DEF InCall
  <2>4. CASE ~(pc[q] = "read" /\ CallSlot(q) = s)
    BY <1>1, <1>2, <2>1, <2>2, <2>4, SameCall
  <2> QED
    BY <2>3, <2>4
<1>3. ASSUME late' \subseteq late, \A r \in late \ late' : r.slot = s
      PROVE  Requesters' /\ Distinct'
  <2>1. ASSUME NEW r \in late' PROVE Sent(r)'
    <3>1. r \in late /\ r.slot \in Names
      BY <1>3 DEF Inv, Types, LateRequests
    <3>2. Sent(r)
      BY <3>1 DEF Inv, Requesters
    <3> QED
      BY <1>1, <3>1, <3>2, SameRequest
  <2>2. \A t \in Names : known'[t] \subseteq Procs \cup {r \in late' : r.slot = t}
    BY <1>1, <1>3, SMT DEF Inv, Distinct
  <2> QED
    BY <1>3, <2>1, <2>2, SameDistinct DEF Inv, Requesters
<1> QED
  BY <1>2, <1>3

\* An update never removes an object.
LEMMA UpdatesAreObjects ==
    ASSUME Inv, NEW k \in Names, NEW by \in Procs, NEW o, Writes("update", k, by, o)
    PROVE  o # NoObject
<1> DEFINE old == IF store[Slot(k)] = NoObject THEN ZeroObject ELSE store[Slot(k)]
<1>1. Slot(k) \in Names /\ kind \in Kinds
  BY SlotFacts DEF Inv, Types
<1>2. old \in WholeObjects
  BY <1>1, ObjectFacts DEF Inv, Types, MaybeObjects
<1>3. o = Updated(old, by)
  BY DEF Writes
<1> HIDE DEF old
<1> QED
  BY <1>1, <1>2, <1>3, ObjectFacts

\* A call writes and returns.
LEMMA CommitsInv ==
    ASSUME Inv, NEW p \in Procs, NEW o, Commits(p, o)
    PROVE  Inv'
<1>1. /\ pc[p] # "idle" /\ ~isStatic(calls[p].name) /\ Writes(calls[p].op, KeyOf(p), p, o)
      /\ Put(CallSlot(p), o) /\ UNCHANGED <<setup, late>>
      /\ \E a, v : a # "pending" /\ Answer(p, a, v)
  BY DEF Commits
<1>2. /\ calls' = [q \in Procs |-> calls'[q]]
      /\ pc' \in [Procs -> {"idle", "called", "locked", "read"}]
      /\ seen' \in [Procs -> MaybeObjects]
      /\ calls'[p].answer # "pending" /\ pc'[p] = "idle"
      /\ \A q \in Procs : q # p => calls'[q] = calls[q] /\ pc'[q] = pc[q] /\ seen'[q] = seen[q]
  BY <1>1, AnswerState
<1>3. /\ CallSlot(p) = Slot(KeyOf(p)) /\ CallSlot(p) \in Names /\ KeyOf(p) \in Names
      /\ Key(kind, KeyOf(p)) = KeyOf(p) /\ KeyOf(p) \notin static /\ kind \in Kinds
      /\ calls[p].op \in Operations[kind]
  BY <1>1, CallFacts
<1>4. store' \in [Names -> MaybeObjects] /\ known' = [s \in Names |-> known'[s]] /\ Stores'
  BY <1>1, <1>3, PutStores
<1>5. kind = "Keys" => o # NoObject
  <2>1. kind = "Keys" => calls[p].op = "update"
    BY <1>1, <1>3, SMT DEF Operations, Writes
  <2> QED
    BY <1>1, <1>3, <2>1, UpdatesAreObjects
<1>6. Types'
  BY <1>1, <1>2, <1>4 DEF Inv, Types, setup
<1>7. Callers'
  <2>1. InCall(p)'
    BY <1>2 DEF InCall
  <2>2. \A q \in Procs : q # p => InCall(q)'
    BY <1>1, <1>2, <1>3, <1>5, PutOthers, SMTT(30)
  <2> QED
    BY <2>1, <2>2 DEF Callers
<1>8. Requesters' /\ Distinct'
  BY <1>1, <1>3, <1>5, PutOthers
<1> QED
  BY <1>4, <1>6, <1>7, <1>8 DEF Inv

\* A late request arrives.
LEMMA ArriveInv ==
    ASSUME Inv, NEW r \in late, Arrive(r)
    PROVE  Inv'
<1> DEFINE k == Key(kind, r.name)
<1>0. /\ UNCHANGED <<setup, calls, pc, seen>> /\ late' = late \ {r}
      /\ r \in LateRequests /\ r.slot = Slot(k) /\ k \notin static /\ r.op \in Operations[kind]
      /\ kind \in Kinds
  BY DEF Arrive, Inv, Types, Requesters, Sent, isStatic
<1>1. k \in Names /\ Key(kind, k) = k /\ r.by \in Procs /\ r.slot \in Names
  BY <1>0, KeyFacts DEF LateRequests
<1>2. CASE Accepted(r) /\ Put(r.slot, r.value)
  <2>1. Writes(r.op, k, r.by, r.value)
    BY <1>2, ArriveWrites
  <2>2. store' \in [Names -> MaybeObjects] /\ known' = [s \in Names |-> known'[s]] /\ Stores'
    BY <1>0, <1>1, <1>2, <2>1, PutStores
  <2>3. kind = "Keys" => r.value # NoObject
    <3>1. kind = "Keys" => r.op = "update"
      BY <1>0, <1>2, SMT DEF Operations, Accepted
    <3> QED
      BY <1>1, <2>1, <3>1, UpdatesAreObjects
  <2>4. Types'
    BY <1>0, <2>2 DEF Inv, Types, setup
  <2>5. Callers'
    BY <1>0, <1>1, <1>2, <2>3, PutOthers DEF Callers
  <2>6. Requesters' /\ Distinct'
    BY <1>0, <1>1, <1>2, <2>3, PutOthers
  <2> QED
    BY <2>2, <2>4, <2>5, <2>6 DEF Inv
<1>3. CASE known' = [known EXCEPT ![r.slot] = @ \ {r}] /\ UNCHANGED store
  <2>1. \A s \in Names : known'[s] \subseteq known[s] /\ (s = r.slot => r \notin known'[s])
    BY <1>1, <1>3 DEF Inv, Types
  <2>2. Types'
    BY <1>0, <1>1, <1>3, ZenonT(30) DEF Inv, Types, setup
  <2>3. Stores'
    BY <1>0, <1>3, SameNames, SMT DEF Inv, Stores
  <2>4. Callers'
    <3> SUFFICES ASSUME NEW q \in Procs PROVE InCall(q)'
      BY DEF Callers
    <3>1. InCall(q) /\ (pc[q] # "idle" => CallSlot(q) \in Names)
      BY CallFacts DEF Inv, Callers
    <3> QED
      BY <1>0, <1>3, <2>1, <3>1, SameCall
  <2>5. Requesters'
    <3>1. \A q \in late' : q \in late /\ q.slot \in Names /\ Sent(q)
      BY <1>0 DEF Inv, Types, LateRequests, Requesters
    <3> QED
      BY <1>0, <1>3, <2>1, <3>1, SameRequest DEF Requesters
  <2>6. Distinct'
    <3>1. \A t \in Names : known'[t] \subseteq Procs \cup {q \in late' : q.slot = t}
      BY <1>0, <2>1, SMT DEF Inv, Distinct
    <3> QED
      BY <1>0, <3>1, SameDistinct DEF Inv
  <2> QED
    BY <2>2, <2>3, <2>4, <2>5, <2>6 DEF Inv
<1> QED
  BY <1>2, <1>3 DEF Arrive

\* A caller is not a request.
LEMMA CallersAreNoRequests ==
    ASSUME Inv
    PROVE  \A p \in Procs : p \notin LateRequests
<1>1. kind \in Kinds
  BY DEF Inv, Types
<1>2. MaybeObjects \subseteq Objects(kind) \cup {NoObject}
  BY DEF MaybeObjects, WholeObjects, Objects
<1>3. LateRequests \subseteq Requests(kind)
  BY <1>2 DEF LateRequests, Requests
<1> QED
  BY <1>1, <1>3, CallersAssumption

\* A call gives up after it has sent a request.
LEMMA GivesUpInv ==
    ASSUME Inv, NEW p \in Procs, NEW o, GivesUp(p, o)
    PROVE  Inv'
<1>a. PICK s : s = CallSlot(p)
  OBVIOUS
<1>b. PICK r : r = [op |-> calls[p].op, name |-> calls[p].name, slot |-> s, by |-> p, value |-> o,
                    first |-> seen[p] = NoObject]
  OBVIOUS
<1>1. /\ pc[p] # "idle" /\ ~isStatic(calls[p].name) /\ MayWrite(p, o)
      /\ late' = late \cup {r} /\ \A q \in late : Purpose(q) # Purpose(r)
      /\ known' = [known EXCEPT ![s] = IF p \in @ THEN (@ \ {p}) \cup {r} ELSE @]
      /\ Answer(p, "error", {}) /\ UNCHANGED <<setup, store>>
  BY <1>a, <1>b DEF GivesUp
<1>2. /\ calls' = [q \in Procs |-> calls'[q]]
      /\ pc' \in [Procs -> {"idle", "called", "locked", "read"}]
      /\ seen' \in [Procs -> MaybeObjects]
      /\ calls'[p].answer # "pending" /\ pc'[p] = "idle"
      /\ \A q \in Procs : q # p => calls'[q] = calls[q] /\ pc'[q] = pc[q] /\ seen'[q] = seen[q]
  BY <1>1, AnswerState, SMTT(30)
<1>3. /\ s = Slot(KeyOf(p)) /\ s \in Names /\ calls[p].name \in Names
      /\ calls[p].op \in Operations[kind]
      /\ KeyOf(p) = Key(kind, calls[p].name)
  BY <1>1, <1>a, CallFacts DEF KeyOf
<1>4. /\ r \in LateRequests /\ r.op = calls[p].op /\ r.name = calls[p].name /\ r.slot = s
      /\ r.by = p /\ r.value = o /\ r.first = (seen[p] = NoObject)
  BY <1>1, <1>3, <1>b, SMTT(30) DEF MayWrite, LateRequests
<1>5. r \notin late /\ r \notin Procs
  BY <1>1, <1>4, CallersAreNoRequests
<1>6. \A t \in Names : known'[t] = IF t = s /\ p \in known[s] THEN (known[s] \ {p}) \cup {r}
                                   ELSE known[t]
  BY <1>1, <1>3 DEF Inv, Types
<1>7. Types'
  BY <1>1, <1>2, <1>3, <1>4 DEF Inv, Types, setup
<1>8. Stores'
  BY <1>1, SameNames, SMT DEF Inv, Stores
<1>9. Callers'
  <2>1. InCall(p)'
    BY <1>2 DEF InCall
  <2>2. ASSUME NEW q \in Procs, q # p PROVE InCall(q)'
    <3>1. InCall(q) /\ (pc[q] # "idle" => CallSlot(q) \in Names)
      BY CallFacts DEF Inv, Callers
    <3>2. \A t \in Names : q \in known'[t] => q \in known[t]
      BY <1>5, <1>6
    <3> QED
      BY <1>1, <1>2, <2>2, <3>1, <3>2, SameCall, SMTT(30)
  <2> QED
    BY <2>1, <2>2 DEF Callers
<1>10. Requesters'
  <2>1. Sent(r)'
    <3>1. r \in known'[s] => p \in known[s]
      BY <1>3, <1>4, <1>5, <1>6, SMTT(30) DEF Inv, Distinct
    <3>2. /\ r.op = "update" /\ r.first => Creating /\ r.value = Updated(ZeroObject, r.by)
          /\ r.op = "update" /\ ~r.first /\ p \in known[s]
                => Writes("update", Key(kind, r.name), r.by, r.value)
      <4>1. /\ calls[p].op = "update" /\ seen[p] = NoObject
                  => Creating /\ o = Updated(ZeroObject, p)
            /\ calls[p].op = "update" /\ seen[p] # NoObject /\ p \in known[s]
                  => Writes("update", KeyOf(p), p, o)
        BY <1>1, <1>a DEF MayWrite
      <4> QED
        BY <1>3, <1>4, <4>1
    <3>3. Writes("update", Key(kind, r.name), r.by, r.value)
            => Writes("update", Key(kind, r.name), r.by, r.value)'
      BY <1>1, SameNames, ZenonT(30) DEF Writes
    <3>4. /\ r.op = "create" => \E n \in Names : /\ r.value = Created(r.by, n)
                                                /\ Key(kind, n) = Key(kind, r.name)
          /\ r.op = "delete" => r.value = NoObject
      BY <1>1, <1>3, <1>4, SMTT(30) DEF MayWrite
    <3>5. /\ r.slot = Slot(Key(kind, r.name)) /\ ~isStatic(r.name)
          /\ r.op \in Operations[kind]
      BY <1>1, <1>3, <1>4
    <3> QED
      BY <1>1, <1>4, <3>1, <3>2, <3>3, <3>4, <3>5, SameNames, SMTT(30) DEF Sent
  <2>2. ASSUME NEW q \in late PROVE Sent(q)'
    <3>1. Sent(q) /\ q.slot \in Names /\ q # r
      BY <1>5 DEF Inv, Types, Requesters, LateRequests
    <3>2. q \in known'[q.slot] => q \in known[q.slot]
      BY <1>6, <3>1, SMTT(30)
    <3> QED
      BY <1>1, <3>1, <3>2, SameRequest
  <2> QED
    BY <1>1, <2>1, <2>2, SMTT(30) DEF Requesters
<1>11. Distinct'
  <2>1. \A t \in Names : known'[t] \subseteq Procs \cup {q \in late' : q.slot = t}
    BY <1>1, <1>4, <1>6, SMTT(30) DEF Inv, Distinct
  <2>2. \A q1, q2 \in late' : Purpose(q1) = Purpose(q2) => q1 = q2
    BY <1>1 DEF Inv, Distinct
  <2> QED
    BY <1>1, <2>1, <2>2, SameNames, SMT DEF Distinct
<1> QED
  BY <1>7, <1>8, <1>9, <1>10, <1>11 DEF Inv

\* A call reads the object that it is going to write.
LEMMA ReadsInv ==
    ASSUME Inv, NEW p \in Procs, Reads(p)
    PROVE  Inv'
<1> DEFINE s == CallSlot(p)
<1>1. /\ pc[p] = "called" /\ ~isStatic(calls[p].name) /\ UNCHANGED <<setup, late, store, calls>>
      /\ store[s] = NoObject => Creating
      /\ Hashed => store[s].name = calls[p].name
  BY SMTT(30) DEF Reads, Read
<1>2. s \in Names /\ store[s] \in MaybeObjects
  BY <1>1, CallFacts
<1>3. /\ known' = [t \in Names |-> known'[t]]
      /\ \A t \in Names : known'[t] = IF t = s THEN known[t] \cup {p} ELSE known[t]
      /\ pc' \in [Procs -> {"idle", "called", "locked", "read"}]
      /\ seen' \in [Procs -> MaybeObjects]
      /\ pc'[p] = "read" /\ seen'[p] = store[s]
      /\ \A q \in Procs : q # p => pc'[q] = pc[q] /\ seen'[q] = seen[q]
  BY <1>2 DEF Reads, Read, Inv, Types
<1>4. Types'
  BY <1>1, <1>3 DEF Inv, Types, setup
<1>5. Stores'
  BY <1>1, SameNames, SMT DEF Inv, Stores
<1>6. Callers'
  <2> SUFFICES ASSUME NEW q \in Procs PROVE InCall(q)'
    BY SMTT(30) DEF Callers
  <2>1. InCall(q) /\ CallSlot(q)' = CallSlot(q) /\ (pc[q] # "idle" => CallSlot(q) \in Names)
    BY <1>1, SameNames, CallFacts, SMTT(30) DEF CallSlot, Inv, Callers
  <2>2. CASE q = p
    BY <1>1, <1>3, <2>1, <2>2, SameNames, SMT DEF InCall
  <2>3. CASE q # p
    BY <1>1, <1>3, <2>1, <2>3, SameCall, SMT
  <2> QED
    BY <2>2, <2>3
<1>7. Requesters'
  <2>1. ASSUME NEW q \in late PROVE Sent(q)'
    <3>1. Sent(q) /\ q.slot \in Names /\ q # p
      BY CallersAreNoRequests, SMT DEF Inv, Types, Requesters, LateRequests
    <3> QED
      BY <1>1, <1>3, <3>1, SameRequest, SMT
  <2> QED
    BY <1>1, <2>1 DEF Requesters
<1>8. Distinct'
  <2>1. \A t \in Names : known'[t] \subseteq Procs \cup {q \in late : q.slot = t}
    BY <1>3, SMT DEF Inv, Distinct
  <2> QED
    BY <1>1, <2>1, SameDistinct DEF Inv
<1> QED
  BY <1>4, <1>5, <1>6, <1>7, <1>8 DEF Inv

\* A call takes the mutex.
LEMMA LocksInv ==
    ASSUME Inv, NEW p \in Procs, Locks(p)
    PROVE  Inv'
<1>1. /\ backend = "memory" /\ pc[p] = "called"
      /\ calls[p].op = "list" \/ ~isStatic(calls[p].name)
      /\ UNCHANGED <<setup, store, known, calls, seen, late>>
  BY DEF Locks
<1>2. /\ pc' \in [Procs -> {"idle", "called", "locked", "read"}] /\ pc'[p] = "locked"
      /\ \A q \in Procs : q # p => pc'[q] = pc[q]
  BY DEF Locks, Inv, Types
<1>3. Types'
  BY <1>1, <1>2 DEF Inv, Types, setup
<1>4. Stores'
  BY <1>1, SameNames, SMTT(30) DEF Inv, Stores
<1>5. Callers'
  <2> SUFFICES ASSUME NEW q \in Procs PROVE InCall(q)'
    BY DEF Callers
  <2>1. InCall(q) /\ CallSlot(q)' = CallSlot(q)
    BY <1>1, SameNames, SMTT(30) DEF CallSlot, Inv, Callers
  <2>2. CASE q = p
    BY <1>1, <1>2, <2>1, <2>2, SameNames, SMTT(30) DEF InCall
  <2>3. CASE q # p
    BY <1>1, <1>2, <2>1, <2>3, SameCall, SMTT(30)
  <2> QED
    BY <2>2, <2>3
<1>6. Requesters'
  BY <1>1, SameRequest, SMTT(30) DEF Inv, Requesters
<1>7. Distinct'
  BY <1>1, SameDistinct, SMTT(30) DEF Inv, Distinct
<1> QED
  BY <1>3, <1>4, <1>5, <1>6, <1>7 DEF Inv

\* A caller enters a method.
LEMMA InvokeInv ==
    ASSUME Inv, NEW p \in Procs, Invocation(p)
    PROVE  Inv'
<1>1. PICK op \in Operations[kind], n \in UsedNames[kind] : Invoke(p, op, n)
  BY SMTT(30) DEF Invocation
<1> DEFINE c == [op |-> op, name |-> n, answer |-> "pending", value |-> {}]
<1>2. /\ UNCHANGED <<setup, store, seen, late>> /\ calls' = [calls EXCEPT ![p] = c]
      /\ known' = [s \in Names |-> known[s] \ {p}]
      /\ pc' = [pc EXCEPT ![p] = "called"]
  BY <1>1 DEF Invoke
<1>3. c.op = op /\ c.name = n /\ c.answer = "pending" /\ n \in Names
  BY <1>1, StoragesAssumption DEF Inv, Types
<1> HIDE DEF c
<1>4. /\ calls' = [q \in Procs |-> calls'[q]] /\ calls'[p] = c
      /\ \A q \in Procs : q # p => calls'[q] = calls[q]
  <2>1. calls = [q \in Procs |-> calls[q]]
    BY DEF Inv, Types
  <2> QED
    BY <1>2, <2>1
<1>5. /\ pc' \in [Procs -> {"idle", "called", "locked", "read"}] /\ pc'[p] = "called"
      /\ \A q \in Procs : q # p => pc'[q] = pc[q]
      /\ known' = [s \in Names |-> known'[s]] /\ \A s \in Names : known'[s] = known[s] \ {p}
  BY <1>2 DEF Inv, Types
<1>6. Types'
  BY <1>2, <1>4, <1>5, SMTT(30) DEF Inv, Types, setup
<1>7. Stores'
  <2>1. /\ store' = store /\ static' = static /\ kind' = kind /\ Hashed' = Hashed
        /\ \A m : Slot(m)' = Slot(m)
    BY <1>2, SameNames
  <2> QED
    BY <2>1, SMT DEF Inv, Stores
<1>8. Callers'
  <2>1. InCall(p)'
    BY <1>1, <1>2, <1>3, <1>4, <1>5, SameNames DEF InCall
  <2>2. ASSUME NEW q \in Procs, q # p PROVE InCall(q)'
    <3>1. InCall(q) /\ (pc[q] # "idle" => CallSlot(q) \in Names)
      BY CallFacts DEF Inv, Callers
    <3> QED
      BY <1>2, <1>4, <1>5, <2>2, <3>1, SameCall, SMTT(30)
  <2> QED
    BY <2>1, <2>2 DEF Callers
<1>9. Requesters'
  <2>1. ASSUME NEW q \in late PROVE Sent(q)'
    <3>1. Sent(q) /\ q.slot \in Names
      BY DEF Inv, Types, Requesters, LateRequests
    <3> QED
      BY <1>2, <1>5, <3>1, SameRequest
  <2> QED
    BY <1>2, <2>1, SMTT(30) DEF Requesters
<1>10. Distinct'
  <2>1. \A t \in Names : known'[t] \subseteq Procs \cup {q \in late : q.slot = t}
    BY <1>5, SMT DEF Inv, Distinct
  <2> QED
    BY <1>2, <2>1, SameDistinct DEF Inv
<1> QED
  BY <1>6, <1>7, <1>8, <1>9, <1>10, SMTT(30) DEF Inv

\* Every step preserves the invariant.
LEMMA NextInv == Inv /\ [Next]_callVars => Inv'
<1> SUFFICES ASSUME Inv, [Next]_callVars PROVE Inv'
  OBVIOUS
<1>1. ASSUME NEW p \in Procs, Invocation(p) PROVE Inv'
  BY <1>1, InvokeInv
<1>2. ASSUME NEW p \in Procs, Step(p) PROVE Inv'
  BY <1>2, StepCases, ReturnsInv, CommitsInv, GivesUpInv, ReadsInv, LocksInv DEF MethodStep
<1>3. ASSUME NEW r \in late, Arrive(r) PROVE Inv'
  BY <1>3, ArriveInv
<1>4. CASE UNCHANGED callVars
  <2>1. UNCHANGED <<setup, store, known, calls, pc, seen, late>>
    BY <1>4 DEF callVars
  <2>2. Types' /\ Stores'
    BY <2>1, SameNames, SMT DEF Inv, Types, Stores, setup
  <2>3. Callers'
    BY <2>1, SameCall DEF Inv, Callers
  <2>4. Requesters'
    BY <2>1, SameRequest DEF Inv, Requesters
  <2>5. Distinct'
    BY <2>1, SameDistinct DEF Inv, Distinct
  <2> QED
    BY <2>2, <2>3, <2>4, <2>5 DEF Inv
<1> QED
  BY <1>1, <1>2, <1>3, <1>4 DEF Next

\* The invariant holds in every reachable state.
THEOREM StoragesInvariant == Spec => []Inv
<1>1. Init => Inv
  BY InitInv
<1>2. Inv /\ [Next]_callVars => Inv'
  BY NextInv
<1> QED
  BY <1>1, <1>2, PTL DEF Spec

=============================================================================
