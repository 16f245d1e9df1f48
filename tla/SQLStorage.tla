----------------------------- MODULE SQLStorage -----------------------------
(***************************************************************************)
(* The SQL storages (storage/sql): "postgres", whose update transactions   *)
(* are SERIALIZABLE and rolled back in a deferred call, and "sqlite3" on   *)
(* ":memory:", where all calls share one connection and a transaction is   *)
(* rolled back only when its function returns an error.                    *)
(***************************************************************************)
EXTENDS StorageCalls

SQLClaims ==
    {"Claims.UserID", "Claims.Username", "Claims.Email", "Claims.EmailVerified",
     "Claims.Groups"}

\* The columns that the statements on each table write and read, apart from the
\* key columns.
SQLAuthRequest ==
    LET cols == {"ClientID", "ResponseTypes", "Scopes", "RedirectURI", "Nonce", "State",
                 "ForceApprovalPrompt", "LoggedIn", "ConnectorID", "ConnectorData", "Expiry"}
                    \cup SQLClaims
    IN  [insert |-> cols, update |-> cols, select |-> cols]

SQLAuthCode ==
    LET cols == {"ClientID", "Scopes", "Nonce", "RedirectURI", "ConnectorID",
                 "ConnectorData", "Expiry"} \cup SQLClaims
    IN  [insert |-> cols, update |-> {}, select |-> cols]

SQLRefreshToken ==
    LET cols == {"ClientID", "Scopes", "Nonce", "ConnectorID", "ConnectorData", "Token",
                 "CreatedAt", "LastUsed"} \cup SQLClaims
    IN  [insert |-> cols, update |-> cols, select |-> cols]

SQLKeys ==
    LET cols == {"VerificationKeys", "SigningKey", "SigningKeyPub", "NextRotation"}
    IN  [insert |-> cols, update |-> cols, select |-> cols]

SQLClient ==
    LET cols == {"Secret", "RedirectURIs", "TrustedPeers", "Public", "Name", "LogoURL"}
    IN  [insert |-> cols, update |-> cols, select |-> cols]

SQLPassword ==
    LET cols == {"Hash", "Username", "UserID"}
    IN  [insert |-> cols, update |-> cols, select |-> cols]

SQLOfflineSessions ==
    LET cols == {"Refresh"} IN [insert |-> cols, update |-> cols, select |-> cols]

SQLConnector ==
    LET cols == {"Type", "Name", "ResourceVersion", "Config"}
    IN  [insert |-> cols, update |-> cols, select |-> cols]

SQLTables ==
    [AuthRequest |-> SQLAuthRequest, AuthCode |-> SQLAuthCode,
     RefreshToken |-> SQLRefreshToken, Client |-> SQLClient, Password |-> SQLPassword,
     OfflineSessions |-> SQLOfflineSessions, Connector |-> SQLConnector, Keys |-> SQLKeys]

Selected(o) == Copy(kind, o, SQLTables[kind].select)

\* A row with the columns of an update statement set from the object o.
SetColumns(row, o) == [Copy(kind, o, SQLTables[kind].update) EXCEPT !.name = row.name]

-----------------------------------------------------------------------------
\* SetMaxOpenConns(1): a statement outside a transaction needs the connection
\* to be free, and leaves it free.
Connected(p, ops) ==
    \/ Called(p, "postgres", ops)
    \/ Called(p, "sqlite3", ops) /\ holder = Nobody

\* The outcome of a statement or a commit that changes the row.  The answer of
\* postgres can get lost on the way.
Execute(p, o, cond, refusal) ==
    /\ IF cond THEN Put(KeyOf(p), o) ELSE Keep
    /\ \/ Answer(p, IF cond THEN "ok" ELSE refusal, {})
       \/ backend = "postgres" /\ Answer(p, "error", {})
    /\ UNCHANGED <<setup, late>>

\* Insert; a violated primary key is ErrAlreadyExists.
SQLCreate(p) ==
    /\ Connected(p, {"create"})
    /\ Execute(p, Copy(kind, Created(p, Key(kind, calls[p].name)), SQLTables[kind].insert),
               store[KeyOf(p)] = NoObject, "alreadyExists")
    /\ UNCHANGED holder

SQLGet(p) ==
    /\ Connected(p, {"get"})
    /\ IF store[KeyOf(p)] = NoObject THEN Answer(p, "notFound", {})
                                 ELSE Answer(p, "ok", {Selected(store[KeyOf(p)])})
    /\ UNCHANGED <<setup, store, known, late, holder>>

SQLList(p) ==
    /\ Connected(p, {"list"})
    /\ Answer(p, "ok", StaticList({Selected(o) : o \in Stored}))
    /\ UNCHANGED <<setup, store, known, late, holder>>

\* The number of rows affected tells whether there was one.
SQLDelete(p) ==
    /\ Connected(p, {"delete"})
    /\ Execute(p, NoObject, store[KeyOf(p)] # NoObject, "notFound")
    /\ UNCHANGED holder

\* ExecTx: begin a transaction, which keeps the connection, select the row and
\* call the updater.  The transaction is rolled back if the updater fails; if
\* it panics, only executeTx of postgres rolls it back.
SQLBegin(p) ==
    /\ Connected(p, {"update", "updateFails", "updatePanics"})
    /\ LET missing == store[KeyOf(p)] = NoObject /\ kind # "Keys"
           op      == calls[p].op
       IN  /\ IF missing THEN Keep /\ Answer(p, "notFound", {})
              ELSE CASE op = "updateFails"  -> Keep /\ Answer(p, "error", {})
                     [] op = "updatePanics" -> Keep /\ Answer(p, "panic", {})
                     [] OTHER               -> Read(p, KeyOf(p))
           /\ holder' = IF backend = "postgres" \/ missing THEN holder
                        ELSE CASE op = "update"       -> p
                               [] op = "updateFails"  -> holder
                               [] op = "updatePanics" -> Abandoned
    /\ UNCHANGED <<setup, late>>

\* Update the row and commit.  The first update of the keys inserts the row.
\* Postgres refuses to commit if another transaction changed the row meanwhile.
SQLCommit(p) ==
    LET old == IF seen[p] = NoObject THEN ZeroObject ELSE Selected(seen[p])
        new == Updated(old, p)
    IN  /\ backend \in {"postgres", "sqlite3"}
        /\ At(p, "read", {"update"})
        /\ Execute(p, IF seen[p] = NoObject THEN Copy(kind, new, SQLTables[kind].insert)
                                                  ELSE SetColumns(seen[p], new),
                   p \in known[KeyOf(p)], "error")
        /\ holder' = IF holder = p THEN Nobody ELSE holder

SQLMethod(p) ==
    SQLCreate(p) \/ SQLGet(p) \/ SQLList(p) \/ SQLDelete(p) \/ SQLBegin(p) \/ SQLCommit(p)

=============================================================================
