---------------------------- MODULE EtcdStorage ----------------------------
(***************************************************************************)
(* The etcd storage (storage/etcd/etcd.go).  Objects are JSON values;      *)
(* create and update are etcd transactions that compare a revision, and an *)
(* update reads the value first, in a request of its own.                  *)
(***************************************************************************)
EXTENDS StorageCalls

\* Fields copied to and from the JSON structs of storage/etcd/types.go.  The
\* other kinds are stored as their storage structs.
EtcdClaims ==
    {"Claims.UserID", "Claims.Username", "Claims.Email", "Claims.EmailVerified",
     "Claims.Groups"}

EtcdAuthCode ==
    {"ClientID", "RedirectURI", "ConnectorID", "ConnectorData", "Nonce", "Scopes", "Expiry"}
        \cup EtcdClaims

EtcdAuthRequest ==
    {"ClientID", "ResponseTypes", "Scopes", "RedirectURI", "Nonce", "State",
     "ForceApprovalPrompt", "Expiry", "LoggedIn", "ConnectorID", "ConnectorData"}
        \cup EtcdClaims

EtcdRefreshToken ==
    {"Token", "CreatedAt", "LastUsed", "ClientID", "ConnectorID", "ConnectorData",
     "Scopes", "Nonce"} \cup EtcdClaims

EtcdOfflineSessions == {"Refresh"}

EtcdFields ==
    [Fields EXCEPT !.AuthRequest = EtcdAuthRequest, !.AuthCode = EtcdAuthCode,
                   !.RefreshToken = EtcdRefreshToken,
                   !.OfflineSessions = EtcdOfflineSessions]

EtcdCopy(o) == Copy(kind, o, EtcdFields[kind])

\* keyEmail and keySession lower the case, keyID does not.
EtcdKey(p) ==
    IF kind = "OfflineSessions" THEN LowerCase[calls[p].name] ELSE Key(kind, calls[p].name)

-----------------------------------------------------------------------------
\* txnCreate: put the value if the key was never created.
txnCreate(p) ==
    /\ Called(p, "etcd", {"create"})
    /\ Request(p, EtcdKey(p), EtcdCopy(Created(p, calls[p].name)),
               store[EtcdKey(p)] = NoObject, "alreadyExists")
    /\ UNCHANGED <<setup, holder>>

\* getKey, and GetKeys, which takes a missing value for the zero value.
getKey(p) ==
    /\ Called(p, "etcd", {"get"})
    /\ IF store[EtcdKey(p)] # NoObject THEN Answer(p, "ok", {EtcdCopy(store[EtcdKey(p)])})
       ELSE IF kind = "Keys" THEN Answer(p, "ok", {ZeroObject})
       ELSE Answer(p, "notFound", {})
    /\ UNCHANGED <<setup, store, known, late, holder>>

\* Everything under the prefix of the kind.
EtcdList(p) ==
    /\ Called(p, "etcd", {"list"})
    /\ Answer(p, "ok", StaticList({EtcdCopy(o) : o \in Stored}))
    /\ UNCHANGED <<setup, store, known, late, holder>>

deleteKey(p) ==
    /\ Called(p, "etcd", {"delete"})
    /\ Request(p, EtcdKey(p), NoObject, store[EtcdKey(p)] # NoObject, "notFound")
    /\ UNCHANGED <<setup, holder>>

\* txnUpdate: read the value and its revision, which is 0 if there is none,
\* and call the updater.
txnUpdateRead(p) ==
    /\ Called(p, "etcd", {"update", "updateFails", "updatePanics"})
    /\ CASE calls[p].op = "updateFails"  -> Keep /\ Answer(p, "error", {})
         [] calls[p].op = "updatePanics" -> Keep /\ Answer(p, "panic", {})
         [] OTHER -> Read(p, EtcdKey(p))
    /\ UNCHANGED <<setup, late, holder>>

\* Mutant: the value is put whatever the revision is.
txnUpdatePutBlind(p) ==
    LET old == IF seen[p] = NoObject THEN ZeroObject ELSE seen[p]
    IN  /\ backend = "etcd"
        /\ At(p, "read", {"update"})
        /\ Request(p, EtcdKey(p), EtcdCopy(Updated(EtcdCopy(old), p)), TRUE, "error")
        /\ UNCHANGED <<setup, holder>>

\* Then put the new value if the revision is the same: 0, if there was no value
\* and there is none, whatever happened in between.
txnUpdatePut(p) ==
    LET old == IF seen[p] = NoObject THEN ZeroObject ELSE seen[p]
    IN  /\ backend = "etcd"
        /\ At(p, "read", {"update"})
        /\ Request(p, EtcdKey(p), EtcdCopy(Updated(EtcdCopy(old), p)),
                   IF seen[p] = NoObject THEN store[EtcdKey(p)] = NoObject
                   ELSE p \in known[EtcdKey(p)], "error")
        /\ UNCHANGED <<setup, holder>>

EtcdMethod(p) ==
    \/ txnCreate(p) \/ getKey(p) \/ EtcdList(p) \/ deleteKey(p)
    \/ txnUpdateRead(p) \/ txnUpdatePut(p)

=============================================================================
