---------------------------- MODULE TokenEndpoint ----------------------------
(***************************************************************************)
(* The token endpoint of dex (handleAuthCode and handleRefreshToken in     *)
(* server/handlers.go) and the RevokeRefresh call of the admin API         *)
(* (server/api.go), for one user of one connector: their refresh tokens,   *)
(* one per client, and the OfflineSessions object that refers to them.     *)
(*                                                                         *)
(* A handler is a sequence of storage calls.  Each call is one step, so    *)
(* that concurrent requests interleave between the calls, and a call may   *)
(* fail.  storage.NewID never repeats: the refresh token that exchange e   *)
(* creates has the ID e, and the secret that request r puts into a refresh *)
(* token is r.                                                             *)
(***************************************************************************)
EXTENDS Naturals

CONSTANTS
    Clients,
    Codes,          \* authorization codes issued to the user's clients
    OfflineCodes,   \* those with offline_access, from a connector that refreshes
    Exchanges,      \* requests that redeem a code
    Refreshes,      \* requests that redeem a refresh token
    Revocations,    \* calls of RevokeRefresh
    Code,           \* the code each exchange presents
    Client,         \* the client that makes, or is named by, each request
    None,           \* no refresh token
    Scenarios,      \* which of the requests are made, and on which kind of storage
    MaxFaults       \* bound on failed storage calls and on crashes

Requests == Exchanges \cup Refreshes \cup Revocations

ASSUME TokenAssumption ==
    /\ Exchanges \cap (Refreshes \cup Revocations) = {}
    /\ Refreshes \cap Revocations = {}
    /\ None \notin Requests
    /\ OfflineCodes \subseteq Codes
    /\ Code \in [Exchanges -> Codes]
    /\ Client \in [Requests -> Clients]
    /\ Scenarios \subseteq [made : SUBSET Requests, serial : BOOLEAN]
    /\ MaxFaults \in Nat

VARIABLES
    serial,     \* updates run one at a time (memory, sqlite3), or
                \* optimistically (etcd, kubernetes, postgres)
    codes,      \* auth codes in storage
    refresh,    \* RefreshToken.Token of each refresh token in storage
    session,    \* the OfflineSessions object and its revision
    pc,         \* the next step of each request
    id,         \* the refresh token a request has looked up
    secret,     \* RefreshToken.Token as presented to a refresh request
    txn,        \* what an update of the session read and will write
    issued,     \* refresh tokens sent to clients
    stale,      \* history: refreshes begun with a token no longer referenced
    faults      \* faults that happened

vars == <<serial, codes, refresh, session, pc, id, secret, txn, issued, stale, faults>>

-----------------------------------------------------------------------------
RefreshID == Exchanges \cup {None}

Secret == Requests \cup {None}

\* OfflineSessions.Refresh: the token each client's reference names.
Refs == [Clients -> RefreshID]

NoRefs == [c \in Clients |-> None]

Session == [exists : BOOLEAN, refs : Refs, rev : Nat]

Txn == [refs : Refs, rev : Nat]

NoTxn == [refs |-> NoRefs, rev |-> 0]

Init ==
    /\ \E s \in Scenarios :
          /\ serial = s.serial
          /\ codes = {Code[e] : e \in s.made \cap Exchanges}
          /\ pc = [r \in Requests |-> IF r \in s.made THEN "idle" ELSE "failed"]
    /\ refresh = [e \in Exchanges |-> None]
    /\ session = [exists |-> FALSE, refs |-> NoRefs, rev |-> 0]
    /\ id = [r \in Requests |-> None]
    /\ secret = [r \in Refreshes |-> None]
    /\ txn = [r \in Requests |-> NoTxn]
    /\ issued = {}
    /\ stale = {}
    /\ faults = 0

-----------------------------------------------------------------------------
(* How a request goes on.                                                  *)

\* The steps during which deleteToken's deferred function is in place.
Guarded == {"getSession", "createSession", "deleteOld", "begin", "commit"}

\* Mutant: the deferred deletion of the new refresh token is left out.
OnErrorWithoutCleanup(r) == "failed"

\* A request whose storage call failed answers with an error; an exchange
\* that has created a refresh token first deletes it again.
OnError(r) == IF r \in Exchanges /\ pc[r] \in Guarded THEN "cleanup" ELSE "failed"

Fault == faults < MaxFaults /\ faults' = faults + 1

\* The storage call of this step took effect.  Its answer may get lost, which
\* the request takes for an error.
Goto(r, next) ==
    \/ pc' = [pc EXCEPT ![r] = next] /\ UNCHANGED faults
    \/ pc' = [pc EXCEPT ![r] = OnError(r)] /\ Fault

Fail(r) == pc' = [pc EXCEPT ![r] = OnError(r)] /\ UNCHANGED faults

\* Requests refused before they change anything: unknown client, expired code,
\* redirect_uri mismatch, unauthorized scope, failing connector, no keys.
Refuse(r) ==
    /\ pc[r] = "idle"
    /\ Fail(r)
    /\ UNCHANGED <<serial, codes, refresh, session, id, secret, txn, issued, stale>>

-----------------------------------------------------------------------------
(* UpdateOfflineSessions reads the object, runs the updater on what it read *)
(* and writes the result, provided that nothing was written in between.    *)

Begin(r, newRefs) ==
    /\ serial => \A q \in Requests : pc[q] # "commit"
    /\ pc' = [pc EXCEPT ![r] = "commit"]
    /\ txn' = [txn EXCEPT ![r] = [refs |-> newRefs, rev |-> session.rev]]
    /\ UNCHANGED <<serial, codes, refresh, session, secret, issued, stale, faults>>

AfterCommit(r) ==
    CASE r \in Exchanges -> "respond"
      [] r \in Refreshes -> "updateRefresh"
      [] OTHER -> "deleteRefresh"

\* Mutant: the object is written whatever happened since it was read.
CommitUnchecked(r) ==
    /\ pc[r] = "commit"
    /\ session' = [session EXCEPT !.refs = txn[r].refs, !.rev = @ + 1]
    /\ Goto(r, AfterCommit(r))
    /\ txn' = [txn EXCEPT ![r] = NoTxn]
    /\ UNCHANGED <<serial, codes, refresh, id, secret, issued, stale>>

Commit(r) ==
    /\ pc[r] = "commit"
    /\ IF txn[r].rev = session.rev
       THEN /\ session' = [session EXCEPT !.refs = txn[r].refs, !.rev = @ + 1]
            /\ Goto(r, AfterCommit(r))
       ELSE UNCHANGED session /\ Fail(r)
    /\ txn' = [txn EXCEPT ![r] = NoTxn]
    /\ UNCHANGED <<serial, codes, refresh, id, secret, issued, stale>>

\* DeleteRefresh of the refresh token i; it fails if there is none.
DeleteRefresh(r, i, next) ==
    /\ IF refresh[i] # None
       THEN refresh' = [refresh EXCEPT ![i] = None] /\ Goto(r, next)
       ELSE UNCHANGED refresh /\ Fail(r)
    /\ UNCHANGED <<serial, codes, session, id, secret, txn, issued, stale>>

-----------------------------------------------------------------------------
(* handleAuthCode.                                                         *)

GetAuthCode(e) ==
    /\ pc[e] = "idle"
    /\ Code[e] \in codes
    /\ pc' = [pc EXCEPT ![e] = "deleteCode"]
    /\ UNCHANGED <<serial, codes, refresh, session, id, secret, txn, issued, stale, faults>>

AfterCode(e) == IF Code[e] \in OfflineCodes THEN "createRefresh" ELSE "respondPlain"

\* Mutant: deleting a code that is already gone is not an error.
DeleteAuthCodeIgnored(e) ==
    /\ pc[e] = "deleteCode"
    /\ codes' = codes \ {Code[e]}
    /\ Goto(e, AfterCode(e))
    /\ UNCHANGED <<serial, refresh, session, id, secret, txn, issued, stale>>

DeleteAuthCode(e) ==
    /\ pc[e] = "deleteCode"
    /\ IF Code[e] \in codes THEN Goto(e, AfterCode(e)) ELSE Fail(e)
    /\ codes' = codes \ {Code[e]}
    /\ UNCHANGED <<serial, refresh, session, id, secret, txn, issued, stale>>

\* The connector cannot be opened: the error is written to the response, and
\* the handler goes on as if no refresh token had been asked for.
ConnectorError(e) ==
    /\ pc[e] = "createRefresh"
    /\ Fault
    /\ pc' = [pc EXCEPT ![e] = "respondPlain"]
    /\ UNCHANGED <<serial, codes, refresh, session, id, secret, txn, issued, stale>>

CreateRefresh(e) ==
    /\ pc[e] = "createRefresh"
    /\ refresh' = [refresh EXCEPT ![e] = e]
    /\ Goto(e, "getSession")
    /\ UNCHANGED <<serial, codes, session, id, secret, txn, issued, stale>>

GetOfflineSessions(e) ==
    /\ pc[e] = "getSession"
    /\ id' = [id EXCEPT ![e] = session.refs[Client[e]]]
    /\ pc' = [pc EXCEPT ![e] =
                IF ~session.exists THEN "createSession"
                ELSE IF session.refs[Client[e]] # None THEN "deleteOld" ELSE "begin"]
    /\ UNCHANGED <<serial, codes, refresh, session, secret, txn, issued, stale, faults>>

CreateOfflineSessions(e) ==
    /\ pc[e] = "createSession"
    /\ IF session.exists
       THEN UNCHANGED session /\ Fail(e)
       ELSE /\ session' = [exists |-> TRUE, rev |-> session.rev + 1,
                           refs |-> [NoRefs EXCEPT ![Client[e]] = e]]
            /\ Goto(e, "respond")
    /\ UNCHANGED <<serial, codes, refresh, id, secret, txn, issued, stale>>

\* Mutant: the previous login's token is left in storage.
DeleteOldRefreshSkipped(e) ==
    /\ pc[e] = "deleteOld"
    /\ Goto(e, "begin")
    /\ UNCHANGED <<serial, codes, refresh, session, id, secret, txn, issued, stale>>

\* The token of the client's previous login goes before its reference does.
DeleteOldRefresh(e) == pc[e] = "deleteOld" /\ DeleteRefresh(e, id[e], "begin")

\* Mutant: the reference to the previous login's token is kept.
UpdateSessionKeepsOld(e) ==
    /\ pc[e] = "begin"
    /\ Begin(e, [session.refs EXCEPT ![Client[e]] = IF @ = None THEN e ELSE @])
    /\ UNCHANGED id

UpdateSession(e) ==
    /\ pc[e] = "begin"
    /\ Begin(e, [session.refs EXCEPT ![Client[e]] = e])
    /\ UNCHANGED id

\* The deferred function; its own failure is only logged.
DeleteNewRefresh(e) == pc[e] = "cleanup" /\ DeleteRefresh(e, e, "failed")

HandleAuthCode(e) ==
    \/ GetAuthCode(e) \/ DeleteAuthCode(e) \/ ConnectorError(e)
    \/ CreateRefresh(e) \/ GetOfflineSessions(e) \/ CreateOfflineSessions(e)
    \/ DeleteOldRefresh(e) \/ UpdateSession(e) \/ DeleteNewRefresh(e)

-----------------------------------------------------------------------------
(* handleRefreshToken.  A client may present any token it was ever sent,   *)
(* again and again.                                                        *)

GetRefresh(f, t) ==
    /\ pc[f] = "idle"
    /\ refresh[t.id] = t.secret
    /\ Client[t.id] = Client[f]
    /\ id' = [id EXCEPT ![f] = t.id]
    /\ secret' = [secret EXCEPT ![f] = t.secret]
    /\ pc' = [pc EXCEPT ![f] = "begin"]
    /\ stale' = IF session.refs[Client[f]] = t.id THEN stale ELSE stale \cup {f}
    /\ UNCHANGED <<serial, codes, refresh, session, txn, issued, faults>>

Ref(f) == session.refs[Client[f]]

\* Mutant: the updater does not compare the reference with the token.
UpdateLastUsedUnchecked(f) ==
    /\ pc[f] = "begin"
    /\ Begin(f, session.refs)
    /\ UNCHANGED id

\* Mutant: the updater writes the client's reference anew.
UpdateLastUsedRestores(f) ==
    /\ pc[f] = "begin"
    /\ Begin(f, [session.refs EXCEPT ![Client[f]] = id[f]])
    /\ UNCHANGED id

\* The updater sets LastUsed, once the session is seen to refer to this token.
\* Without a reference it dereferences a nil pointer and the handler panics.
UpdateLastUsed(f) ==
    /\ pc[f] = "begin"
    /\ IF Ref(f) = id[f]
       THEN Begin(f, session.refs)
       ELSE /\ pc' = [pc EXCEPT ![f] = IF Ref(f) = None THEN "panic" ELSE "failed"]
            /\ UNCHANGED <<serial, codes, refresh, session, secret, txn, issued, stale, faults>>
    /\ UNCHANGED id

\* Mutant: the updater does not look whether the secret was claimed meanwhile.
UpdateRefreshTokenUnchecked(f) ==
    /\ pc[f] = "updateRefresh"
    /\ IF refresh[id[f]] # None
       THEN refresh' = [refresh EXCEPT ![id[f]] = f] /\ Goto(f, "respond")
       ELSE UNCHANGED refresh /\ Fail(f)
    /\ UNCHANGED <<serial, codes, session, id, secret, txn, issued, stale>>

\* Every update writes a new secret, so an update that finds the presented one
\* is also one that the storage accepts.
UpdateRefreshToken(f) ==
    /\ pc[f] = "updateRefresh"
    /\ IF refresh[id[f]] = secret[f]
       THEN refresh' = [refresh EXCEPT ![id[f]] = f] /\ Goto(f, "respond")
       ELSE UNCHANGED refresh /\ Fail(f)
    /\ UNCHANGED <<serial, codes, session, id, secret, txn, issued, stale>>

HandleRefreshToken(f) ==
    (\E t \in issued : GetRefresh(f, t)) \/ UpdateLastUsed(f) \/ UpdateRefreshToken(f)

\* Mutant: the answer names the token the session referred to before.
WriteAccessTokenOldID(r) ==
    /\ pc[r] \in {"respond", "respondPlain"}
    /\ pc' = [pc EXCEPT ![r] = "ok"]
    /\ issued' = issued \cup
          IF pc[r] = "respondPlain" THEN {} ELSE {[id |-> id[r], secret |-> r]}
    /\ UNCHANGED <<serial, codes, refresh, session, id, secret, txn, stale, faults>>

\* writeAccessToken, with the refresh token or, for an exchange that asked for
\* none, without.
WriteAccessToken(r) ==
    /\ pc[r] \in {"respond", "respondPlain"}
    /\ pc' = [pc EXCEPT ![r] = "ok"]
    /\ issued' = issued \cup
          IF pc[r] = "respondPlain" THEN {}
          ELSE {[id |-> IF r \in Exchanges THEN r ELSE id[r], secret |-> r]}
    /\ UNCHANGED <<serial, codes, refresh, session, id, secret, txn, stale, faults>>

-----------------------------------------------------------------------------
(* RevokeRefresh: first the reference goes, then the token.                *)

RemoveRef(v) ==
    /\ pc[v] = "idle"
    /\ session.exists /\ Ref(v) # None
    /\ Begin(v, [session.refs EXCEPT ![Client[v]] = None])
    /\ id' = [id EXCEPT ![v] = Ref(v)]

DeleteRevoked(v) == pc[v] = "deleteRefresh" /\ DeleteRefresh(v, id[v], "ok")

RevokeRefresh(v) == RemoveRef(v) \/ DeleteRevoked(v)

-----------------------------------------------------------------------------
(* The environment.                                                        *)

\* A code expires and startGarbageCollection's loop removes it.
GarbageCollect(c) ==
    /\ c \in codes
    /\ codes' = codes \ {c}
    /\ UNCHANGED <<serial, refresh, session, pc, id, secret, txn, issued, stale, faults>>

Finished == {"ok", "failed", "panic"}

\* A storage call fails without having had an effect.
StorageError(r) ==
    /\ pc[r] \notin Finished \cup {"idle", "respond", "respondPlain"}
    /\ pc' = [pc EXCEPT ![r] = OnError(r)]
    /\ Fault
    /\ UNCHANGED <<serial, codes, refresh, session, id, secret, txn, issued, stale>>

\* The server stops in the middle of a request; nothing deferred runs.
Crash(r) ==
    /\ pc[r] \notin Finished \cup {"idle"}
    /\ pc' = [pc EXCEPT ![r] = "failed"]
    /\ Fault
    /\ UNCHANGED <<serial, codes, refresh, session, id, secret, txn, issued, stale>>

Next ==
    \/ \E r \in Requests : Refuse(r) \/ Commit(r) \/ StorageError(r) \/ Crash(r)
    \/ \E e \in Exchanges : HandleAuthCode(e)
    \/ \E f \in Refreshes : HandleRefreshToken(f)
    \/ \E r \in Exchanges \cup Refreshes : WriteAccessToken(r)
    \/ \E v \in Revocations : RevokeRefresh(v)
    \/ \E c \in Codes : GarbageCollect(c)

Spec == Init /\ [][Next]_vars

-----------------------------------------------------------------------------
(* Properties.                                                             *)

\* Type correctness of the stored objects and of every request's state.
TypeOK ==
    /\ serial \in BOOLEAN
    /\ codes \subseteq Codes
    /\ refresh \in [Exchanges -> Secret]
    /\ session \in Session
    /\ pc \in [Requests -> Guarded \cup Finished \cup
                 {"idle", "deleteCode", "createRefresh", "respond", "respondPlain",
                  "cleanup", "updateRefresh", "deleteRefresh"}]
    /\ id \in [Requests -> RefreshID]
    /\ secret \in [Refreshes -> Secret]
    /\ txn \in [Requests -> Txn]
    /\ issued \subseteq [id : Exchanges, secret : Requests]
    /\ stale \subseteq Refreshes
    /\ faults \in 0 .. MaxFaults

\* An authorization code buys tokens at most once, however many requests
\* present it together: DeleteAuthCode fails for all but one of them.
CodeRedeemedOnce ==
    \A d, e \in Exchanges :
        d # e /\ Code[d] = Code[e] => ~(pc[d] = "ok" /\ pc[e] = "ok")

\* A refresh token value is exchanged at most once ("we'll still reject any
\* attempts to claim a refresh_token twice"), whatever fails or is retried.
RefreshTokenClaimedOnce ==
    \A f, g \in Refreshes :
        f # g /\ id[f] = id[g] /\ secret[f] = secret[g] => ~(pc[f] = "ok" /\ pc[g] = "ok")

\* Once a token's reference has left the session, because the user revoked it
\* or logged in again, no refresh that begins later succeeds, even while the
\* token itself is still in storage.
UnreferencedTokensAreDead == \A f \in stale : pc[f] # "ok"

\* Updates of the shared OfflineSessions object never undo one another: a
\* client's reference changes only by a request made for that client.
ReferencesAreIndependent ==
    [][\A c \in Clients : session'.refs[c] # session.refs[c] =>
          \E r \in Requests : Client[r] = c /\ pc'[r] # pc[r]]_vars

\* Revocation is final: once the session has ceased to refer to a token that a
\* client was sent, no refresh, login or revocation that began before, and no
\* retry, makes it refer to that token again.
RevocationIsFinal ==
    [][\A t \in issued :
          session.refs[Client[t.id]] # t.id => session'.refs[Client[t.id]] # t.id]_vars

Running(r) == pc[r] \notin Finished

\* Unless a storage call fails or a server stops, no refresh token is forgotten:
\* each one in storage was sent to the client, or the request that created it is
\* still running and will hand it out or, having failed, delete it.
StoredTokensAreKnown ==
    faults = 0 =>
        \A e \in Exchanges : refresh[e] # None => Running(e) \/ e \in {t.id : t \in issued}

\* On a storage that runs updates one at a time, unless a call fails or a server
\* stops, a reference leads to a stored refresh token, or a request that has
\* deleted the token is about to replace the reference.
ReferencesResolve ==
    serial /\ faults = 0 =>
        \A c \in Clients : session.refs[c] # None =>
            \/ refresh[session.refs[c]] # None
            \/ \E e \in Exchanges : id[e] = session.refs[c] /\ pc[e] \in {"begin", "commit"}

\* The comment on RevokeRefresh in api.proto: "each user-client pair can have
\* only one refresh token at a time", here while no request is running.
OneRefreshTokenPerClient ==
    (\A r \in Requests : pc[r] \in Finished \cup {"idle"}) =>
        \A d, e \in Exchanges :
            refresh[d] # None /\ refresh[e] # None /\ Client[d] = Client[e] => d = e

\* No two logins of one client are between the creation of their refresh tokens
\* and the session's reference to them.
Apart ==
    \A d, e \in Exchanges : d # e /\ Client[d] = Client[e] =>
        ~(pc[d] \in Guarded /\ pc[e] \in Guarded)

\* What that comment needs: as long as the logins of a client do not overlap,
\* no storage call fails and no server stops, each client has one refresh token
\* at most, whatever revocations and logins of other clients come in between.
OneTokenIfApart == [](faults = 0 /\ Apart) => []OneRefreshTokenPerClient

=============================================================================
