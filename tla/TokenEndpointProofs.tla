------------------------- MODULE TokenEndpointProofs -------------------------
(***************************************************************************)
(* The token endpoint redeems codes and refresh tokens at most once,       *)
(* refuses tokens that the session no longer refers to, and keeps the      *)
(* references of different clients apart, and a token once revoked or      *)
(* replaced stays so: for any requests, on either kind of storage,         *)
(* whatever fails.  If nothing fails, a stored token is known to a client  *)
(* or about to be, a client whose logins do not overlap has one refresh    *)
(* token, and on a serial storage references resolve.                      *)
(***************************************************************************)
EXTENDS TokenEndpoint, TLAPS

\* Leaves are for Zenon, unless they cite SMT.
USE Zenon

\* The steps an exchange takes once it has deleted its code.
Redeeming == Guarded \cup {"createRefresh", "cleanup", "respond", "respondPlain", "ok"}

\* An exchange that deleted its code was the only one to do so.
CodesGoOnce ==
    /\ \A e \in Exchanges : pc[e] \in Redeeming => Code[e] \notin codes
    /\ \A d, e \in Exchanges :
          d # e /\ Code[d] = Code[e] => ~(pc[d] \in Redeeming /\ pc[e] \in Redeeming)

\* r has not been written anywhere as a secret.
Unused(r) ==
    /\ \A e \in Exchanges : refresh[e] # r
    /\ \A f \in Refreshes : secret[f] # r
    /\ \A t \in issued : t.secret # r

\* The steps before request r writes its secret.
Early(r) ==
    IF r \in Exchanges THEN {"idle", "deleteCode", "createRefresh"}
    ELSE IF r \in Refreshes THEN {"idle", "begin", "commit", "updateRefresh"}
    ELSE {}

\* A request writes its secret once, and late.
SecretsAreFresh == \A r \in Requests : pc[r] \in Early(r) => Unused(r)

Claimed(f) == pc[f] \in {"respond", "respondPlain", "ok"}

\* A refresh request past its lookup works with a token that was issued, and a
\* secret that it has claimed is gone from storage.
ClaimedSecretsAreGone ==
    /\ \A f \in Refreshes : pc[f] \notin {"idle", "failed"} =>
          id[f] \in Exchanges /\ secret[f] \in Requests
    /\ \A f \in Refreshes : Claimed(f) => refresh[id[f]] # secret[f]
    /\ \A f, g \in Refreshes : f # g /\ id[f] = id[g] /\ secret[f] = secret[g] =>
          ~(Claimed(f) /\ Claimed(g))

\* Refresh tokens are known to clients only once their exchange has finished.
IssuedAfterExchange ==
    /\ \A t \in issued : pc[t.id] = "ok"
    /\ \A f \in Refreshes : pc[f] \notin {"idle", "failed"} => pc[id[f]] = "ok"

\* What the updater of request r makes of the references refs.
Updated(r, refs) ==
    IF r \in Exchanges THEN [refs EXCEPT ![Client[r]] = r]
    ELSE IF r \in Refreshes THEN refs
    ELSE [refs EXCEPT ![Client[r]] = None]

\* An update that will be accepted writes what its updater makes of the
\* current object.
TransactionsAreCurrent ==
    /\ ~session.exists => session.refs = NoRefs
    /\ \A r \in Requests : pc[r] = "commit" =>
          /\ txn[r].rev <= session.rev
          /\ txn[r].rev = session.rev => txn[r].refs = Updated(r, session.refs)
    /\ \A r \in Exchanges \cup Revocations :
          pc[r] \in {"deleteOld", "begin", "commit"} => session.exists

\* A refresh that began with a token that is not referenced gets no further.
StaleRefreshesStop ==
    \A f \in stale :
        /\ pc[f] \in {"begin", "failed", "panic"}
        /\ pc[f] = "begin" => session.refs[Client[f]] # id[f]

IInv ==
    /\ TypeOK
    /\ CodesGoOnce
    /\ SecretsAreFresh
    /\ ClaimedSecretsAreGone
    /\ IssuedAfterExchange
    /\ TransactionsAreCurrent
    /\ StaleRefreshesStop

-----------------------------------------------------------------------------
Steps == Guarded \cup Finished \cup
           {"idle", "deleteCode", "createRefresh", "respond", "respondPlain",
            "cleanup", "updateRefresh", "deleteRefresh"}

\* A step of request r moves r alone: to the step next, or, if the answer of the
\* storage call got lost, to where an error leads it.
LEMMA GotoMoves ==
    ASSUME TypeOK, NEW r \in Requests, NEW next \in Steps, Goto(r, next)
    PROVE  /\ pc' \in [Requests -> Steps]
           /\ faults' \in 0 .. MaxFaults
           /\ \A q \in Requests : q # r => pc'[q] = pc[q]
           /\ pc'[r] \in {next, "failed", "cleanup"}
           /\ pc'[r] = "cleanup" /\ next # "cleanup" => r \in Exchanges /\ pc[r] \in Guarded
<1>1. OnError(r) \in {"failed", "cleanup"}
  BY DEF OnError
<1>2. OnError(r) = "cleanup" => r \in Exchanges /\ pc[r] \in Guarded
  BY DEF OnError
<1>3. OnError(r) \in Steps
  BY <1>1 DEF Steps, Finished
<1>4. pc \in [Requests -> Steps] /\ faults \in 0 .. MaxFaults
  BY DEF TypeOK, Steps
<1> USE <1>1, <1>2, <1>3, <1>4
<1>5. CASE pc' = [pc EXCEPT ![r] = next] /\ UNCHANGED faults
  <2>1. pc'[r] = next /\ \A q \in Requests : q # r => pc'[q] = pc[q]
    BY <1>5
  <2> QED
    BY <1>5, <2>1
<1>6. CASE pc' = [pc EXCEPT ![r] = OnError(r)] /\ Fault
  <2>1. pc'[r] = OnError(r) /\ \A q \in Requests : q # r => pc'[q] = pc[q]
    BY <1>6
  <2>2. faults' \in 0 .. MaxFaults
    BY <1>6, TokenAssumption, SMT DEF Fault
  <2> QED
    BY <1>6, <2>1, <2>2
<1> QED
  BY <1>5, <1>6 DEF Goto

\* A request that fails moves alone, to "failed" or to its clean-up.
LEMMA FailMoves ==
    ASSUME TypeOK, NEW r \in Requests, Fail(r)
    PROVE  /\ pc' \in [Requests -> Steps]
           /\ faults' \in 0 .. MaxFaults
           /\ \A q \in Requests : q # r => pc'[q] = pc[q]
           /\ pc'[r] \in {"failed", "cleanup"}
           /\ pc'[r] = "cleanup" => r \in Exchanges /\ pc[r] \in Guarded
<1>1. OnError(r) \in {"failed", "cleanup"}
  BY DEF OnError
<1>2. OnError(r) = "cleanup" => r \in Exchanges /\ pc[r] \in Guarded
  BY DEF OnError
<1>3. OnError(r) \in Steps
  BY <1>1 DEF Steps, Finished
<1>4. pc \in [Requests -> Steps] /\ faults \in 0 .. MaxFaults
  BY DEF TypeOK, Steps
<1>5. pc' = [pc EXCEPT ![r] = OnError(r)] /\ faults' = faults
  BY DEF Fail
<1>6. pc'[r] = OnError(r) /\ \A q \in Requests : q # r => pc'[q] = pc[q]
  BY <1>4, <1>5
<1> QED
  BY <1>1, <1>2, <1>3, <1>4, <1>5, <1>6

-----------------------------------------------------------------------------
\* The three kinds of request are apart, and each has its client.
LEMMA Domains ==
    /\ \A e \in Exchanges : e \in Requests /\ e \notin Refreshes /\ e \notin Revocations
    /\ \A f \in Refreshes : f \in Requests /\ f \notin Exchanges /\ f \notin Revocations
    /\ \A v \in Revocations : v \in Requests /\ v \notin Exchanges /\ v \notin Refreshes
    /\ \A r \in Requests : Client[r] \in Clients /\ r # None
    /\ \A e \in Exchanges : e # None /\ Code[e] \in Codes
BY TokenAssumption DEF Requests

\* The bound on faults.
LEMMA FaultType ==
    ASSUME TypeOK, Fault PROVE faults' \in 0 .. MaxFaults
<1>1. faults \in 0 .. MaxFaults
  BY DEF TypeOK
<1> QED
  BY <1>1, TokenAssumption, SMT DEF Fault

\* The parts of the session object and of an update's record of it.
LEMMA SessionType ==
    ASSUME TypeOK
    PROVE  /\ session \in Session /\ session.refs \in Refs
           /\ session.rev \in Nat /\ session.rev + 1 \in Nat
           /\ \A r \in Requests : txn[r].refs \in Refs /\ txn[r].rev \in Nat
<1>1. session \in Session /\ txn \in [Requests -> Txn]
  BY DEF TypeOK
<1>2. session.refs \in Refs /\ session.rev \in Nat
  BY <1>1 DEF Session
<1>3. \A r \in Requests : txn[r].refs \in Refs /\ txn[r].rev \in Nat
  BY <1>1 DEF Txn
<1> QED
  BY <1>1, <1>2, <1>3, SMT

\* DeleteRefresh keeps the types.
LEMMA DeleteRefreshType ==
    ASSUME TypeOK, NEW r \in Requests, NEW i, NEW next \in Steps,
           DeleteRefresh(r, i, next)
    PROVE  TypeOK'
<1>1. refresh' \in [Exchanges -> Secret]
  BY DEF DeleteRefresh, TypeOK, Secret
<1>2. pc' \in [Requests -> Steps] /\ faults' \in 0 .. MaxFaults
  BY GotoMoves, FailMoves DEF DeleteRefresh
<1> QED
  BY <1>1, <1>2 DEF DeleteRefresh, TypeOK, Steps

\* The start of an update keeps the types.
LEMMA BeginType ==
    ASSUME TypeOK, NEW r \in Requests, NEW newRefs \in Refs, Begin(r, newRefs),
           id' \in [Requests -> RefreshID]
    PROVE  TypeOK'
<1>1. txn' \in [Requests -> Txn]
  BY DEF Begin, TypeOK, Txn, Session
<1>2. pc' \in [Requests -> Steps]
  BY DEF Begin, TypeOK, Steps, Guarded
<1> QED
  BY <1>1, <1>2 DEF Begin, TypeOK, Steps

\* Every step keeps the types.
LEMMA TypeInductive == IInv /\ [Next]_vars => TypeOK'
<1> SUFFICES ASSUME TypeOK, ClaimedSecretsAreGone, [Next]_vars PROVE TypeOK'
  BY DEF IInv
<1> USE Domains
<1>a. pc \in [Requests -> Steps] /\ session.refs \in Refs /\ session.rev \in Nat
  BY DEF TypeOK, Steps, Session
<1>b. NoRefs \in Refs
  BY DEF NoRefs, Refs, RefreshID
<1>1. ASSUME NEW r \in Requests, Refuse(r) PROVE TypeOK'
  <2>1. pc' \in [Requests -> Steps] /\ faults' \in 0 .. MaxFaults
    BY <1>1, FailMoves DEF Refuse
  <2> QED
    BY <1>1, <2>1 DEF Refuse, TypeOK, Steps
<1>2. ASSUME NEW r \in Requests, Commit(r) PROVE TypeOK'
  <2>1. AfterCommit(r) \in Steps
    BY DEF AfterCommit, Steps
  <2>2. pc' \in [Requests -> Steps] /\ faults' \in 0 .. MaxFaults
    BY <1>2, <2>1, GotoMoves, FailMoves DEF Commit
  <2>3. session' \in Session
    <3>1. txn[r].refs \in Refs
      BY DEF TypeOK, Txn
    <3>2. session' \in {session, [session EXCEPT !.refs = txn[r].refs, !.rev = @ + 1]}
      BY <1>2 DEF Commit
    <3>3. session \in Session /\ session.rev + 1 \in Nat
      BY SessionType
    <3>4. [session EXCEPT !.refs = txn[r].refs, !.rev = @ + 1] \in Session
      BY <3>1, <3>3 DEF Session
    <3> QED
      BY <3>2, <3>3, <3>4
  <2>4. txn' \in [Requests -> Txn]
    BY <1>2, <1>b DEF Commit, TypeOK, Txn, NoTxn
  <2> QED
    BY <1>2, <2>2, <2>3, <2>4 DEF Commit, TypeOK, Steps
<1>3. ASSUME NEW r \in Requests, StorageError(r) \/ Crash(r) PROVE TypeOK'
  <2>1. OnError(r) \in Steps /\ "failed" \in Steps
    BY DEF OnError, Steps, Finished
  <2>2. pc' \in [Requests -> Steps]
    <3>1. pc' \in {[pc EXCEPT ![r] = OnError(r)], [pc EXCEPT ![r] = "failed"]}
      BY <1>3 DEF StorageError, Crash
    <3> QED
      BY <1>a, <2>1, <3>1
  <2>3. faults' \in 0 .. MaxFaults
    BY <1>3, FaultType DEF StorageError, Crash
  <2> QED
    BY <1>3, <2>2, <2>3 DEF StorageError, Crash, TypeOK, Steps
<1>4. ASSUME NEW e \in Exchanges, GetAuthCode(e) PROVE TypeOK'
  BY <1>4 DEF GetAuthCode, TypeOK
<1>5. ASSUME NEW e \in Exchanges, DeleteAuthCode(e) PROVE TypeOK'
  <2>1. AfterCode(e) \in Steps
    BY DEF AfterCode, Steps
  <2>2. pc' \in [Requests -> Steps] /\ faults' \in 0 .. MaxFaults
    BY <1>5, <2>1, GotoMoves, FailMoves DEF DeleteAuthCode
  <2> QED
    BY <1>5, <2>2 DEF DeleteAuthCode, TypeOK, Steps
<1>6. ASSUME NEW e \in Exchanges, ConnectorError(e) PROVE TypeOK'
  <2>1. faults' \in 0 .. MaxFaults
    BY <1>6, FaultType DEF ConnectorError
  <2>2. pc' \in [Requests -> Steps]
    BY <1>6, <1>a DEF ConnectorError, Steps
  <2> QED
    BY <1>6, <2>1, <2>2 DEF ConnectorError, TypeOK, Steps
<1>7. ASSUME NEW e \in Exchanges, CreateRefresh(e) PROVE TypeOK'
  <2>1. "getSession" \in Steps
    BY DEF Steps, Guarded
  <2>2. pc' \in [Requests -> Steps] /\ faults' \in 0 .. MaxFaults
    BY <1>7, <2>1, GotoMoves DEF CreateRefresh
  <2>3. refresh' \in [Exchanges -> Secret]
    BY <1>7 DEF CreateRefresh, TypeOK, Secret
  <2> QED
    BY <1>7, <2>2, <2>3 DEF CreateRefresh, TypeOK, Steps
<1>8. ASSUME NEW e \in Exchanges, GetOfflineSessions(e) PROVE TypeOK'
  <2>1. id' \in [Requests -> RefreshID]
    BY <1>8, <1>a DEF GetOfflineSessions, TypeOK, Refs
  <2>2. pc' \in [Requests -> Steps]
    BY <1>8, <1>a DEF GetOfflineSessions, Steps, Guarded
  <2> QED
    BY <1>8, <2>1, <2>2 DEF GetOfflineSessions, TypeOK, Steps
<1>9. ASSUME NEW e \in Exchanges, CreateOfflineSessions(e) PROVE TypeOK'
  <2>1. "respond" \in Steps
    BY DEF Steps
  <2>2. pc' \in [Requests -> Steps] /\ faults' \in 0 .. MaxFaults
    BY <1>9, <2>1, GotoMoves, FailMoves DEF CreateOfflineSessions
  <2>3. [NoRefs EXCEPT ![Client[e]] = e] \in Refs
    BY <1>b DEF Refs, RefreshID
  <2>4. session' \in Session
    <3>1. session' \in {session, [exists |-> TRUE, rev |-> session.rev + 1,
                                   refs |-> [NoRefs EXCEPT ![Client[e]] = e]]}
      BY <1>9 DEF CreateOfflineSessions
    <3>2. session \in Session /\ session.rev + 1 \in Nat
      BY SessionType
    <3>3. [exists |-> TRUE, rev |-> session.rev + 1,
           refs |-> [NoRefs EXCEPT ![Client[e]] = e]] \in Session
      BY <2>3, <3>2 DEF Session
    <3> QED
      BY <3>1, <3>2, <3>3
  <2> QED
    BY <1>9, <2>2, <2>4 DEF CreateOfflineSessions, TypeOK, Steps
<1>10. ASSUME NEW e \in Exchanges, DeleteOldRefresh(e) PROVE TypeOK'
  BY <1>10, DeleteRefreshType DEF DeleteOldRefresh, Steps, Guarded
<1>11. ASSUME NEW e \in Exchanges, UpdateSession(e) PROVE TypeOK'
  <2>1. [session.refs EXCEPT ![Client[e]] = e] \in Refs
    BY <1>a DEF Refs, RefreshID
  <2> QED
    BY <1>11, <2>1, BeginType DEF UpdateSession, TypeOK
<1>12. ASSUME NEW e \in Exchanges, DeleteNewRefresh(e) PROVE TypeOK'
  BY <1>12, DeleteRefreshType DEF DeleteNewRefresh, Steps, Finished
<1>13. ASSUME NEW f \in Refreshes, NEW t \in issued, GetRefresh(f, t) PROVE TypeOK'
  <2>1. t.id \in RefreshID /\ t.secret \in Secret
    BY DEF TypeOK, RefreshID, Secret
  <2>2. id' \in [Requests -> RefreshID] /\ secret' \in [Refreshes -> Secret]
    BY <1>13, <2>1 DEF GetRefresh, TypeOK
  <2>3. pc' \in [Requests -> Steps] /\ stale' \subseteq Refreshes
    BY <1>13, <1>a DEF GetRefresh, TypeOK, Steps, Guarded
  <2> QED
    BY <1>13, <2>2, <2>3 DEF GetRefresh, TypeOK, Steps
<1>14. ASSUME NEW f \in Refreshes, UpdateLastUsed(f) PROVE TypeOK'
  <2>1. CASE Ref(f) = id[f]
    BY <1>14, <1>a, <2>1, BeginType DEF UpdateLastUsed, TypeOK
  <2>2. CASE Ref(f) # id[f]
    <3>1. pc' \in [Requests -> Steps]
      BY <1>14, <1>a, <2>2 DEF UpdateLastUsed, Steps, Finished
    <3> QED
      BY <1>14, <2>2, <3>1 DEF UpdateLastUsed, TypeOK, Steps
  <2> QED
    BY <2>1, <2>2
<1>15. ASSUME NEW f \in Refreshes, UpdateRefreshToken(f) PROVE TypeOK'
  <2>1. "respond" \in Steps
    BY DEF Steps
  <2>2. pc' \in [Requests -> Steps] /\ faults' \in 0 .. MaxFaults
    BY <1>15, <2>1, GotoMoves, FailMoves DEF UpdateRefreshToken
  <2>3. refresh' \in [Exchanges -> Secret]
    BY <1>15 DEF UpdateRefreshToken, TypeOK, Secret
  <2> QED
    BY <1>15, <2>2, <2>3 DEF UpdateRefreshToken, TypeOK, Steps

<1>16. ASSUME NEW r \in Exchanges \cup Refreshes, WriteAccessToken(r) PROVE TypeOK'
  <2>1. pc' \in [Requests -> Steps]
    BY <1>16, <1>a DEF WriteAccessToken, Steps, Finished
  <2>2. r \in Refreshes /\ pc[r] = "respond" => id[r] \in Exchanges
    BY DEF ClaimedSecretsAreGone
  <2>3. issued' \subseteq [id : Exchanges, secret : Requests]
    <3>1. issued \subseteq [id : Exchanges, secret : Requests]
      BY DEF TypeOK
    <3>2. CASE pc[r] = "respondPlain"
      BY <1>16, <3>1, <3>2 DEF WriteAccessToken
    <3>3. CASE pc[r] = "respond"
      <4> DEFINE i == IF r \in Exchanges THEN r ELSE id[r]
      <4>1. i \in Exchanges /\ r \in Requests
        BY <2>2, <3>3
      <4>2. issued' = issued \cup {[id |-> i, secret |-> r]}
        BY <1>16, <3>3 DEF WriteAccessToken
      <4> HIDE DEF i
      <4>3. [id |-> i, secret |-> r] \in [id : Exchanges, secret : Requests]
        BY <4>1
      <4> QED
        BY <3>1, <4>2, <4>3
    <3> QED
      BY <1>16, <3>2, <3>3 DEF WriteAccessToken
  <2> QED
    BY <1>16, <2>1, <2>3 DEF WriteAccessToken, TypeOK, Steps
<1>17. ASSUME NEW v \in Revocations, RemoveRef(v) PROVE TypeOK'
  <2>1. [session.refs EXCEPT ![Client[v]] = None] \in Refs
    BY <1>a DEF Refs, RefreshID
  <2>2. id' \in [Requests -> RefreshID]
    BY <1>17, <1>a DEF RemoveRef, Ref, TypeOK, Refs
  <2> QED
    BY <1>17, <2>1, <2>2, BeginType DEF RemoveRef
<1>18. ASSUME NEW v \in Revocations, DeleteRevoked(v) PROVE TypeOK'
  BY <1>18, DeleteRefreshType DEF DeleteRevoked, Steps, Finished
<1>19. ASSUME NEW c \in Codes, GarbageCollect(c) PROVE TypeOK'
  BY <1>19 DEF GarbageCollect, TypeOK
<1>20. CASE UNCHANGED vars
  BY <1>20 DEF vars, TypeOK
<1> QED
  BY <1>1, <1>2, <1>3, <1>4, <1>5, <1>6, <1>7, <1>8, <1>9, <1>10, <1>11, <1>12,
     <1>13, <1>14, <1>15, <1>16, <1>17, <1>18, <1>19, <1>20
     DEF Next, HandleAuthCode, HandleRefreshToken, RevokeRefresh

-----------------------------------------------------------------------------
\* Request r alone moves: to one of the steps S, to "failed", or, if it is an
\* exchange that has created a refresh token, to its clean-up.
Moved(r, S) ==
    /\ \A q \in Requests : q # r => pc'[q] = pc[q]
    /\ \/ pc'[r] \in S
       \/ pc'[r] = "failed"
       \/ pc'[r] = "cleanup" /\ r \in Exchanges /\ pc[r] \in Guarded

\* Where each action takes the request that makes it.
LEMMA Moves ==
    ASSUME TypeOK
    PROVE  /\ \A r \in Requests :
                /\ Refuse(r) \/ StorageError(r) \/ Crash(r) => Moved(r, {})
                /\ Commit(r) => Moved(r, {AfterCommit(r)})
           /\ \A e \in Exchanges :
                /\ GetAuthCode(e) => Moved(e, {"deleteCode"})
                /\ DeleteAuthCode(e) => Moved(e, {"createRefresh", "respondPlain"})
                /\ ConnectorError(e) => Moved(e, {"respondPlain"})
                /\ CreateRefresh(e) => Moved(e, {"getSession"})
                /\ GetOfflineSessions(e) =>
                      Moved(e, {"createSession", "deleteOld", "begin"})
                /\ CreateOfflineSessions(e) => Moved(e, {"respond"})
                /\ DeleteOldRefresh(e) => Moved(e, {"begin"})
                /\ UpdateSession(e) => Moved(e, {"commit"})
                /\ DeleteNewRefresh(e) => Moved(e, {})
           /\ \A f \in Refreshes :
                /\ \A t \in issued : GetRefresh(f, t) => Moved(f, {"begin"})
                /\ UpdateLastUsed(f) => Moved(f, {"commit", "panic"})
                /\ UpdateRefreshToken(f) => Moved(f, {"respond"})
           /\ \A r \in Exchanges \cup Refreshes : WriteAccessToken(r) => Moved(r, {"ok"})
           /\ \A v \in Revocations :
                /\ RemoveRef(v) => Moved(v, {"commit"})
                /\ DeleteRevoked(v) => Moved(v, {"ok"})
<1> USE Domains
<1>a. pc \in [Requests -> Steps]
  BY DEF TypeOK, Steps
<1>b. ASSUME NEW r \in Requests, Fail(r) PROVE Moved(r, {})
  BY <1>a, <1>b DEF Fail, OnError, Moved
<1>c. ASSUME NEW r \in Requests, NEW next \in Steps, Goto(r, next) PROVE Moved(r, {next})
  BY <1>a, <1>c DEF Goto, OnError, Moved
<1>d. ASSUME NEW r \in Requests, NEW next, pc' = [pc EXCEPT ![r] = next]
      PROVE  Moved(r, {next})
  BY <1>a, <1>d DEF Moved
<1>e. ASSUME NEW r \in Requests, Moved(r, {}), NEW S PROVE Moved(r, S)
  BY <1>e DEF Moved
<1>f. ASSUME NEW r \in Requests, NEW p, Moved(r, {p}), NEW S, p \in S PROVE Moved(r, S)
  BY <1>f DEF Moved
<1>1. ASSUME NEW r \in Requests, Refuse(r) \/ StorageError(r) \/ Crash(r)
      PROVE  Moved(r, {})
  <2>1. CASE Refuse(r)
    BY <1>b, <2>1 DEF Refuse
  <2>2. CASE StorageError(r)
    BY <1>a, <2>2 DEF StorageError, OnError, Moved
  <2>3. CASE Crash(r)
    BY <1>a, <2>3 DEF Crash, Moved
  <2> QED
    BY <1>1, <2>1, <2>2, <2>3
<1>2. ASSUME NEW r \in Requests, Commit(r) PROVE Moved(r, {AfterCommit(r)})
  <2>1. AfterCommit(r) \in Steps
    BY DEF AfterCommit, Steps
  <2> QED
    BY <1>2, <1>b, <1>c, <1>e, <2>1 DEF Commit
<1>3. ASSUME NEW e \in Exchanges, GetAuthCode(e) PROVE Moved(e, {"deleteCode"})
  BY <1>3, <1>d DEF GetAuthCode
<1>4. ASSUME NEW e \in Exchanges, DeleteAuthCode(e)
      PROVE  Moved(e, {"createRefresh", "respondPlain"})
  <2>1. AfterCode(e) \in Steps /\ AfterCode(e) \in {"createRefresh", "respondPlain"}
    BY DEF AfterCode, Steps
  <2> QED
    BY <1>4, <1>b, <1>c, <1>e, <1>f, <2>1 DEF DeleteAuthCode
<1>5. ASSUME NEW e \in Exchanges, ConnectorError(e) PROVE Moved(e, {"respondPlain"})
  BY <1>5, <1>d DEF ConnectorError
<1>6. ASSUME NEW e \in Exchanges, CreateRefresh(e) PROVE Moved(e, {"getSession"})
  BY <1>6, <1>c DEF CreateRefresh, Steps, Guarded
<1>7. ASSUME NEW e \in Exchanges, GetOfflineSessions(e)
      PROVE  Moved(e, {"createSession", "deleteOld", "begin"})
  BY <1>7, <1>a DEF GetOfflineSessions, Moved
<1>8. ASSUME NEW e \in Exchanges, CreateOfflineSessions(e) PROVE Moved(e, {"respond"})
  BY <1>8, <1>b, <1>c, <1>e DEF CreateOfflineSessions, Steps
<1>9. ASSUME NEW e \in Exchanges, DeleteOldRefresh(e) PROVE Moved(e, {"begin"})
  BY <1>9, <1>b, <1>c, <1>e DEF DeleteOldRefresh, DeleteRefresh, Steps, Guarded
<1>10. ASSUME NEW e \in Exchanges, UpdateSession(e) PROVE Moved(e, {"commit"})
  BY <1>10, <1>d DEF UpdateSession, Begin
<1>11. ASSUME NEW e \in Exchanges, DeleteNewRefresh(e) PROVE Moved(e, {})
  <2>1. "failed" \in Steps
    BY DEF Steps, Finished
  <2>2. Moved(e, {"failed"})
    BY <1>11, <1>b, <1>c, <1>e, <2>1 DEF DeleteNewRefresh, DeleteRefresh
  <2> QED
    BY <2>2 DEF Moved
<1>12. ASSUME NEW f \in Refreshes, NEW t \in issued, GetRefresh(f, t)
       PROVE  Moved(f, {"begin"})
  BY <1>12, <1>d DEF GetRefresh
<1>13. ASSUME NEW f \in Refreshes, UpdateLastUsed(f) PROVE Moved(f, {"commit", "panic"})
  <2>1. \/ pc' = [pc EXCEPT ![f] = "commit"]
        \/ pc' = [pc EXCEPT ![f] = "panic"]
        \/ pc' = [pc EXCEPT ![f] = "failed"]
    BY <1>13 DEF UpdateLastUsed, Begin
  <2> QED
    BY <1>a, <2>1 DEF Moved
<1>14. ASSUME NEW f \in Refreshes, UpdateRefreshToken(f) PROVE Moved(f, {"respond"})
  BY <1>14, <1>b, <1>c, <1>e DEF UpdateRefreshToken, Steps
<1>15. ASSUME NEW r \in Exchanges \cup Refreshes, WriteAccessToken(r)
       PROVE  Moved(r, {"ok"})
  BY <1>15, <1>d DEF WriteAccessToken
<1>16. ASSUME NEW v \in Revocations, RemoveRef(v) PROVE Moved(v, {"commit"})
  BY <1>16, <1>d DEF RemoveRef, Begin
<1>17. ASSUME NEW v \in Revocations, DeleteRevoked(v) PROVE Moved(v, {"ok"})
  BY <1>17, <1>b, <1>c, <1>e DEF DeleteRevoked, DeleteRefresh, Steps, Finished
<1> QED
  BY <1>1, <1>2, <1>3, <1>4, <1>5, <1>6, <1>7, <1>8, <1>9, <1>10, <1>11, <1>12,
     <1>13, <1>14, <1>15, <1>16, <1>17

\* What a refresh has looked up is not touched by the other kinds of request.
LEMMA LookupsAreOwn ==
    ASSUME TypeOK, NEW f \in Refreshes
    PROVE  /\ \A e \in Exchanges : HandleAuthCode(e) => id'[f] = id[f]
           /\ \A v \in Revocations : RevokeRefresh(v) => id'[f] = id[f]
<1>1. ASSUME NEW e \in Exchanges, HandleAuthCode(e) PROVE id'[f] = id[f]
  <2>1. id' = id \/ id' = [id EXCEPT ![e] = session.refs[Client[e]]]
    BY <1>1 DEF HandleAuthCode, GetAuthCode, DeleteAuthCode, ConnectorError,
       CreateRefresh, GetOfflineSessions, CreateOfflineSessions, UpdateSession, Begin,
       DeleteOldRefresh, DeleteNewRefresh, DeleteRefresh
  <2>2. e # f
    BY Domains
  <2> QED
    BY <2>1, <2>2, Domains DEF TypeOK
<1>2. ASSUME NEW v \in Revocations, RevokeRefresh(v) PROVE id'[f] = id[f]
  <2>1. id' = id \/ id' = [id EXCEPT ![v] = Ref(v)]
    BY <1>2 DEF RevokeRefresh, RemoveRef, DeleteRevoked, DeleteRefresh
  <2>2. v # f
    BY Domains
  <2> QED
    BY <2>1, <2>2, Domains DEF TypeOK
<1> QED
  BY <1>1, <1>2

-----------------------------------------------------------------------------
\* A code stays gone, and only the exchange that deletes it goes on.
LEMMA CodesInductive == IInv /\ [Next]_vars => CodesGoOnce'
<1> SUFFICES ASSUME TypeOK, CodesGoOnce, [Next]_vars PROVE CodesGoOnce'
  BY DEF IInv
<1> USE Domains
<1>a. ASSUME NEW r \in Requests, NEW S, Moved(r, S), codes' = codes,
             r \notin Exchanges \/ pc[r] \in Redeeming \/ pc'[r] \notin Redeeming
      PROVE  CodesGoOnce'
  <2>1. \A e \in Exchanges : pc'[e] \in Redeeming => pc[e] \in Redeeming
    BY <1>a DEF Moved
  <2> QED
    BY <1>a, <2>1 DEF CodesGoOnce
<1>b. "failed" \notin Redeeming /\ "deleteCode" \notin Redeeming
  BY DEF Redeeming, Guarded
<1>c. Guarded \cup {"createRefresh", "cleanup", "respond", "respondPlain"} \subseteq Redeeming
  BY DEF Redeeming
<1>1. ASSUME NEW r \in Requests, Refuse(r) \/ StorageError(r) \/ Crash(r)
      PROVE  CodesGoOnce'
  <2>1. Moved(r, {}) /\ codes' = codes
    BY <1>1, Moves DEF Refuse, StorageError, Crash
  <2>2. pc[r] \in Redeeming \/ pc'[r] \notin Redeeming
    BY <2>1, <1>b, <1>c DEF Moved
  <2> QED
    BY <1>a, <2>1, <2>2
<1>2. ASSUME NEW r \in Requests, Commit(r) PROVE CodesGoOnce'
  <2>1. Moved(r, {AfterCommit(r)}) /\ codes' = codes /\ pc[r] = "commit"
    BY <1>2, Moves DEF Commit
  <2> QED
    BY <1>a, <1>c, <2>1 DEF Guarded
<1>3. ASSUME NEW e \in Exchanges, GetAuthCode(e) PROVE CodesGoOnce'
  <2>1. Moved(e, {"deleteCode"}) /\ codes' = codes /\ pc[e] \notin Guarded
    BY <1>3, Moves DEF GetAuthCode, Guarded
  <2>2. pc'[e] \notin Redeeming
    BY <1>b, <2>1 DEF Moved
  <2> QED
    BY <1>a, <2>1, <2>2
<1>4. ASSUME NEW e \in Exchanges, DeleteAuthCode(e) PROVE CodesGoOnce'
  <2>1. Moved(e, {"createRefresh", "respondPlain"}) /\ codes' = codes \ {Code[e]}
    BY <1>4, Moves DEF DeleteAuthCode
  <2>2. CASE Code[e] \in codes
    <3>1. \A d \in Exchanges : d # e /\ pc'[d] \in Redeeming =>
              pc[d] \in Redeeming /\ Code[d] # Code[e]
      BY <2>1, <2>2 DEF Moved, CodesGoOnce
    <3> QED
      BY <2>1, <3>1 DEF CodesGoOnce
  <2>3. CASE Code[e] \notin codes
    <3>1. pc'[e] = "failed" /\ codes' = codes
      BY <1>4, <2>3 DEF DeleteAuthCode, Fail, OnError, Guarded, TypeOK
    <3> QED
      BY <1>a, <1>b, <2>1, <3>1
  <2> QED
    BY <2>2, <2>3
<1>5. ASSUME NEW e \in Exchanges,
             \/ ConnectorError(e) \/ CreateRefresh(e) \/ GetOfflineSessions(e)
             \/ CreateOfflineSessions(e) \/ DeleteOldRefresh(e) \/ UpdateSession(e)
             \/ DeleteNewRefresh(e)
      PROVE  CodesGoOnce'
  <2>1. pc[e] \in Redeeming /\ codes' = codes
    BY <1>5, <1>c DEF ConnectorError, CreateRefresh, GetOfflineSessions, Guarded,
       CreateOfflineSessions, DeleteOldRefresh, UpdateSession, DeleteNewRefresh,
       DeleteRefresh, Begin
  <2>2. PICK S : Moved(e, S)
    BY <1>5, Moves
  <2> QED
    BY <1>a, <2>1, <2>2
<1>6. ASSUME NEW f \in Refreshes, HandleRefreshToken(f) PROVE CodesGoOnce'
  <2>1. PICK S : Moved(f, S)
    BY <1>6, Moves DEF HandleRefreshToken
  <2>2. codes' = codes
    BY <1>6 DEF HandleRefreshToken, GetRefresh, UpdateLastUsed, Begin, UpdateRefreshToken
  <2> QED
    BY <1>a, <2>1, <2>2
<1>7. ASSUME NEW r \in Exchanges \cup Refreshes, WriteAccessToken(r) PROVE CodesGoOnce'
  <2>1. Moved(r, {"ok"}) /\ codes' = codes /\ pc[r] \in Redeeming
    BY <1>7, <1>c, Moves DEF WriteAccessToken
  <2> QED
    BY <1>a, <2>1
<1>8. ASSUME NEW v \in Revocations, RevokeRefresh(v) PROVE CodesGoOnce'
  <2>1. PICK S : Moved(v, S)
    BY <1>8, Moves DEF RevokeRefresh
  <2>2. codes' = codes
    BY <1>8 DEF RevokeRefresh, RemoveRef, DeleteRevoked, DeleteRefresh, Begin
  <2> QED
    BY <1>a, <2>1, <2>2
<1>9. CASE \E c \in Codes : GarbageCollect(c)
  BY <1>9 DEF GarbageCollect, CodesGoOnce
<1>10. CASE UNCHANGED vars
  BY <1>10 DEF vars, CodesGoOnce
<1> QED
  BY <1>1, <1>2, <1>3, <1>4, <1>5, <1>6, <1>7, <1>8, <1>9, <1>10
     DEF Next, HandleAuthCode

-----------------------------------------------------------------------------
\* A secret is written nowhere before its own request writes it.
LEMMA SecretsInductive == IInv /\ [Next]_vars => SecretsAreFresh'
<1> SUFFICES ASSUME TypeOK, SecretsAreFresh, [Next]_vars PROVE SecretsAreFresh'
  BY DEF IInv
<1> USE Domains
<1>a. ASSUME NEW r \in Requests, NEW S, Moved(r, S),
             pc'[r] \in Early(r) => pc[r] \in Early(r),
             \A q \in Requests : (q # r \/ pc'[r] \in Early(r)) /\ Unused(q) => Unused(q)'
      PROVE  SecretsAreFresh'
  BY <1>a DEF Moved, SecretsAreFresh, Early
<1>b. ASSUME UNCHANGED <<refresh, secret, issued>> PROVE \A q : Unused(q) => Unused(q)'
  BY <1>b DEF Unused
<1>c. \A q \in Requests : "failed" \notin Early(q) /\ "cleanup" \notin Early(q)
  BY DEF Early
<1>d. ASSUME NEW i, refresh' = [refresh EXCEPT ![i] = None],
             UNCHANGED <<secret, issued>>
      PROVE  \A q \in Requests : Unused(q) => Unused(q)'
  BY <1>d DEF Unused, TypeOK
<1>1. ASSUME NEW r \in Requests, Refuse(r) \/ StorageError(r) \/ Crash(r)
      PROVE  SecretsAreFresh'
  <2>1. Moved(r, {}) /\ UNCHANGED <<refresh, secret, issued>>
    BY <1>1, Moves DEF Refuse, StorageError, Crash
  <2>2. pc'[r] \notin Early(r)
    BY <1>c, <2>1 DEF Moved
  <2> QED
    BY <1>a, <1>b, <2>1, <2>2
<1>2. ASSUME NEW r \in Requests, Commit(r) PROVE SecretsAreFresh'
  <2>1. Moved(r, {AfterCommit(r)}) /\ UNCHANGED <<refresh, secret, issued>> /\ pc[r] = "commit"
    BY <1>2, Moves DEF Commit
  <2>2. pc'[r] \in Early(r) => pc[r] \in Early(r)
    BY <2>1, <1>c DEF Moved, AfterCommit, Early
  <2> QED
    BY <1>a, <1>b, <2>1, <2>2
<1>3. ASSUME NEW e \in Exchanges, GetAuthCode(e) \/ DeleteAuthCode(e) PROVE SecretsAreFresh'
  <2>1. PICK S : Moved(e, S)
    BY <1>3, Moves
  <2>2. UNCHANGED <<refresh, secret, issued>> /\ pc[e] \in Early(e)
    BY <1>3 DEF GetAuthCode, DeleteAuthCode, Early
  <2> QED
    BY <1>a, <1>b, <2>1, <2>2
<1>4. ASSUME NEW e \in Exchanges, CreateRefresh(e) PROVE SecretsAreFresh'
  <2>1. Moved(e, {"getSession"})
    BY <1>4, Moves
  <2>2. pc'[e] \notin Early(e)
    BY <1>c, <2>1 DEF Moved, Early
  <2>3. \A q \in Requests : q # e /\ Unused(q) => Unused(q)'
    BY <1>4 DEF CreateRefresh, Unused, TypeOK
  <2> QED
    BY <1>a, <2>1, <2>2, <2>3
<1>5. ASSUME NEW e \in Exchanges,
             \/ ConnectorError(e) \/ GetOfflineSessions(e) \/ CreateOfflineSessions(e)
             \/ UpdateSession(e)
      PROVE  SecretsAreFresh'
  <2>1. Moved(e, {"respondPlain", "createSession", "deleteOld", "begin", "respond", "commit"})
    BY <1>5, Moves DEF Moved
  <2>2. UNCHANGED <<refresh, secret, issued>>
    BY <1>5 DEF ConnectorError, GetOfflineSessions, CreateOfflineSessions, UpdateSession, Begin
  <2>3. pc'[e] \notin Early(e)
    BY <1>c, <2>1 DEF Moved, Early
  <2> QED
    BY <1>a, <1>b, <2>1, <2>2, <2>3
<1>6. ASSUME NEW e \in Exchanges, DeleteOldRefresh(e) \/ DeleteNewRefresh(e)
      PROVE  SecretsAreFresh'
  <2>1. Moved(e, {"begin"})
    BY <1>6, Moves DEF Moved
  <2>2. PICK i : refresh' = refresh \/ refresh' = [refresh EXCEPT ![i] = None]
    BY <1>6 DEF DeleteOldRefresh, DeleteNewRefresh, DeleteRefresh
  <2>3. UNCHANGED <<secret, issued>>
    BY <1>6 DEF DeleteOldRefresh, DeleteNewRefresh, DeleteRefresh
  <2>4. \A q \in Requests : Unused(q) => Unused(q)'
    BY <1>b, <1>d, <2>2, <2>3
  <2>5. pc'[e] \notin Early(e)
    BY <1>c, <2>1 DEF Moved, Early
  <2> QED
    BY <1>a, <2>1, <2>4, <2>5
<1>7. ASSUME NEW f \in Refreshes, NEW t \in issued, GetRefresh(f, t) PROVE SecretsAreFresh'
  <2>1. Moved(f, {"begin"}) /\ pc[f] \in Early(f)
    BY <1>7, Moves DEF GetRefresh, Early
  <2>2. secret' = [secret EXCEPT ![f] = t.secret] /\ UNCHANGED <<refresh, issued>>
    BY <1>7 DEF GetRefresh
  <2>3. \A q \in Requests : Unused(q) => Unused(q)'
    BY <2>2 DEF Unused, TypeOK
  <2> QED
    BY <1>a, <2>1, <2>3
<1>8. ASSUME NEW f \in Refreshes, UpdateLastUsed(f) PROVE SecretsAreFresh'
  <2>1. Moved(f, {"commit", "panic"}) /\ pc[f] \in Early(f)
    BY <1>8, Moves DEF UpdateLastUsed, Early
  <2>2. UNCHANGED <<refresh, secret, issued>>
    BY <1>8 DEF UpdateLastUsed, Begin
  <2> QED
    BY <1>a, <1>b, <2>1, <2>2
<1>9. ASSUME NEW f \in Refreshes, UpdateRefreshToken(f) PROVE SecretsAreFresh'
  <2>1. Moved(f, {"respond"})
    BY <1>9, Moves
  <2>2. pc'[f] \notin Early(f)
    BY <1>c, <2>1 DEF Moved, Early
  <2>3. refresh' = refresh \/ refresh' = [refresh EXCEPT ![id[f]] = f]
    BY <1>9 DEF UpdateRefreshToken
  <2>4. UNCHANGED <<secret, issued>>
    BY <1>9 DEF UpdateRefreshToken
  <2>5. \A q \in Requests : q # f /\ Unused(q) => Unused(q)'
    BY <2>3, <2>4 DEF Unused, TypeOK
  <2> QED
    BY <1>a, <2>1, <2>2, <2>5
<1>10. ASSUME NEW r \in Exchanges \cup Refreshes, WriteAccessToken(r) PROVE SecretsAreFresh'
  <2>1. Moved(r, {"ok"}) /\ UNCHANGED <<refresh, secret>>
    BY <1>10, Moves DEF WriteAccessToken
  <2>2. pc'[r] \notin Early(r)
    BY <1>c, <2>1 DEF Moved, Early
  <2>3. \A t \in issued' : t \in issued \/ t.secret = r
    <3>1. CASE pc[r] = "respondPlain"
      BY <1>10, <3>1 DEF WriteAccessToken
    <3>2. CASE pc[r] # "respondPlain"
      <4>1. PICK i : issued' = issued \cup {[id |-> i, secret |-> r]}
        BY <1>10, <3>2 DEF WriteAccessToken
      <4> QED
        BY <4>1, SMT
    <3> QED
      BY <3>1, <3>2
  <2>4. \A q \in Requests : q # r /\ Unused(q) => Unused(q)'
    BY <2>1, <2>3 DEF Unused
  <2> QED
    BY <1>a, <2>1, <2>2, <2>4
<1>11. ASSUME NEW v \in Revocations, RevokeRefresh(v) PROVE SecretsAreFresh'
  <2>1. PICK S : Moved(v, S)
    BY <1>11, Moves DEF RevokeRefresh
  <2>2. PICK i : refresh' = refresh \/ refresh' = [refresh EXCEPT ![i] = None]
    BY <1>11 DEF RevokeRefresh, RemoveRef, Begin, DeleteRevoked, DeleteRefresh
  <2>3. UNCHANGED <<secret, issued>>
    BY <1>11 DEF RevokeRefresh, RemoveRef, Begin, DeleteRevoked, DeleteRefresh
  <2>4. \A q \in Requests : Unused(q) => Unused(q)'
    BY <1>b, <1>d, <2>2, <2>3
  <2>5. Early(v) = {}
    BY DEF Early
  <2> QED
    BY <1>a, <2>1, <2>4, <2>5
<1>12. CASE \E c \in Codes : GarbageCollect(c)
  BY <1>12 DEF GarbageCollect, SecretsAreFresh, Unused
<1>13. CASE UNCHANGED vars
  BY <1>13 DEF vars, SecretsAreFresh, Unused
<1> QED
  BY <1>1, <1>2, <1>3, <1>4, <1>5, <1>6, <1>7, <1>8, <1>9, <1>10, <1>11, <1>12, <1>13
     DEF Next, HandleAuthCode, HandleRefreshToken

-----------------------------------------------------------------------------
\* A claimed secret never comes back into storage.
LEMMA ClaimedInductive == IInv /\ [Next]_vars => ClaimedSecretsAreGone'
<1> SUFFICES ASSUME TypeOK, SecretsAreFresh, ClaimedSecretsAreGone, [Next]_vars
             PROVE  ClaimedSecretsAreGone'
  BY DEF IInv
<1> USE Domains
<1>a. ASSUME NEW r \in Requests, NEW S, Moved(r, S),
             \A f \in Refreshes : id'[f] = id[f] /\ secret'[f] = secret[f],
             \A f \in Refreshes : Claimed(f) => refresh'[id[f]] # secret[f],
             r \in Refreshes =>
                /\ pc'[r] \in {"respond", "respondPlain", "ok"} => Claimed(r)
                /\ pc'[r] = "failed" \/ pc[r] \notin {"idle", "failed"}
      PROVE  ClaimedSecretsAreGone'
  <2>1. \A f \in Refreshes : Claimed(f)' => Claimed(f)
    BY <1>a DEF Moved, Claimed
  <2>2. \A f \in Refreshes : pc'[f] \notin {"idle", "failed"} => pc[f] \notin {"idle", "failed"}
    BY <1>a DEF Moved
  <2> QED
    BY <1>a, <2>1, <2>2 DEF ClaimedSecretsAreGone
<1>b. \A f \in Refreshes : Claimed(f) =>
          id[f] \in Exchanges /\ secret[f] \in Requests /\ refresh[id[f]] # secret[f]
  BY DEF ClaimedSecretsAreGone, Claimed
<1>c. ASSUME NEW i, refresh' = refresh \/ refresh' = [refresh EXCEPT ![i] = None]
      PROVE  \A f \in Refreshes : Claimed(f) => refresh'[id[f]] # secret[f]
  BY <1>b, <1>c, SMT DEF TypeOK
<1>1. ASSUME NEW r \in Requests, Refuse(r) \/ StorageError(r) \/ Crash(r)
      PROVE  ClaimedSecretsAreGone'
  <2>1. Moved(r, {}) /\ UNCHANGED <<refresh, id, secret>>
    BY <1>1, Moves DEF Refuse, StorageError, Crash
  <2>2. r \in Refreshes => pc'[r] = "failed"
    BY <2>1 DEF Moved
  <2> QED
    BY <1>a, <1>c, <2>1, <2>2
<1>2. ASSUME NEW r \in Requests, Commit(r) PROVE ClaimedSecretsAreGone'
  <2>1. Moved(r, {AfterCommit(r)}) /\ UNCHANGED <<refresh, id, secret>> /\ pc[r] = "commit"
    BY <1>2, Moves DEF Commit
  <2>2. r \in Refreshes => pc'[r] \in {"updateRefresh", "failed"}
    BY <2>1 DEF Moved, AfterCommit
  <2> QED
    BY <1>a, <1>c, <2>1, <2>2
<1>3. ASSUME NEW e \in Exchanges,
             \/ GetAuthCode(e) \/ DeleteAuthCode(e) \/ ConnectorError(e)
             \/ GetOfflineSessions(e) \/ CreateOfflineSessions(e) \/ UpdateSession(e)
             \/ DeleteOldRefresh(e) \/ DeleteNewRefresh(e)
      PROVE  ClaimedSecretsAreGone'
  <2>1. PICK S : Moved(e, S)
    BY <1>3, Moves
  <2>2. PICK i : refresh' = refresh \/ refresh' = [refresh EXCEPT ![i] = None]
    BY <1>3 DEF GetAuthCode, DeleteAuthCode, ConnectorError, GetOfflineSessions,
       CreateOfflineSessions, UpdateSession, Begin, DeleteOldRefresh, DeleteNewRefresh,
       DeleteRefresh
  <2>3. secret' = secret /\ (id' = id \/ id' = [id EXCEPT ![e] = session.refs[Client[e]]])
    BY <1>3 DEF GetAuthCode, DeleteAuthCode, ConnectorError, GetOfflineSessions,
       CreateOfflineSessions, UpdateSession, Begin, DeleteOldRefresh, DeleteNewRefresh,
       DeleteRefresh
  <2>4. \A f \in Refreshes : id'[f] = id[f]
    BY <2>3 DEF TypeOK
  <2> QED
    BY <1>a, <1>c, <2>1, <2>2, <2>3, <2>4
<1>4. ASSUME NEW e \in Exchanges, CreateRefresh(e) PROVE ClaimedSecretsAreGone'
  <2>1. Moved(e, {"getSession"}) /\ UNCHANGED <<id, secret>>
    BY <1>4, Moves DEF CreateRefresh
  <2>2. Unused(e)
    BY <1>4 DEF CreateRefresh, SecretsAreFresh, Early
  <2>3. \A f \in Refreshes : Claimed(f) => refresh'[id[f]] # secret[f]
    BY <1>4, <1>b, <2>2 DEF CreateRefresh, Unused, TypeOK
  <2> QED
    BY <1>a, <2>1, <2>3
<1>5. ASSUME NEW f \in Refreshes, NEW t \in issued, GetRefresh(f, t)
      PROVE  ClaimedSecretsAreGone'
  <2>1. Moved(f, {"begin"}) /\ refresh' = refresh /\ ~Claimed(f)'
    BY <1>5, Moves DEF GetRefresh, Moved, Claimed
  <2>2. t.id \in Exchanges /\ t.secret \in Requests
    BY DEF TypeOK
  <2>3. id'[f] = t.id /\ secret'[f] = t.secret
    BY <1>5 DEF GetRefresh, TypeOK
  <2>4. \A g \in Refreshes : g # f => id'[g] = id[g] /\ secret'[g] = secret[g] /\ pc'[g] = pc[g]
    BY <1>5, <2>1 DEF GetRefresh, TypeOK, Moved
  <2>5. \A g \in Refreshes : Claimed(g)' => g # f /\ Claimed(g)
    BY <2>1, <2>4 DEF Claimed
  <2> QED
    BY <2>1, <2>2, <2>3, <2>4, <2>5, SMT DEF ClaimedSecretsAreGone
<1>6. ASSUME NEW f \in Refreshes, UpdateLastUsed(f) PROVE ClaimedSecretsAreGone'
  <2>1. Moved(f, {"commit", "panic"}) /\ UNCHANGED <<refresh, id, secret>> /\ pc[f] = "begin"
    BY <1>6, Moves DEF UpdateLastUsed, Begin
  <2>2. pc'[f] \in {"commit", "panic", "failed"}
    BY <2>1 DEF Moved
  <2> QED
    BY <1>a, <1>c, <2>1, <2>2
<1>7. ASSUME NEW f \in Refreshes, UpdateRefreshToken(f) PROVE ClaimedSecretsAreGone'
  <2>1. Moved(f, {"respond"}) /\ UNCHANGED <<id, secret>> /\ pc[f] = "updateRefresh"
    BY <1>7, Moves DEF UpdateRefreshToken
  <2>2. Unused(f) /\ id[f] \in Exchanges /\ secret[f] \in Requests
    BY <2>1 DEF SecretsAreFresh, Early, ClaimedSecretsAreGone
  <2>3. CASE refresh[id[f]] = secret[f]
    <3>1. refresh' = [refresh EXCEPT ![id[f]] = f]
      BY <1>7, <2>3 DEF UpdateRefreshToken
    <3>2. \A g \in Refreshes : secret[g] # f
      BY <2>2 DEF Unused
    <3>3. \A g \in Refreshes : Claimed(g) =>
              refresh'[id[g]] # secret[g] /\ ~(id[g] = id[f] /\ secret[g] = secret[f])
      BY <1>b, <2>3, <3>1, <3>2 DEF TypeOK
    <3>4. refresh'[id[f]] # secret[f]
      BY <2>2, <3>1, <3>2 DEF TypeOK
    <3>5. \A g \in Refreshes : g # f => (Claimed(g)' <=> Claimed(g))
      BY <2>1 DEF Moved, Claimed
    <3>6. \A g \in Refreshes : pc'[g] \notin {"idle", "failed"} =>
              id'[g] \in Exchanges /\ secret'[g] \in Requests
      BY <2>1, <2>2 DEF Moved, ClaimedSecretsAreGone
    <3> QED
      BY <2>1, <3>3, <3>4, <3>5, <3>6 DEF ClaimedSecretsAreGone
  <2>4. CASE refresh[id[f]] # secret[f]
    <3>1. pc'[f] = "failed" /\ refresh' = refresh
      BY <1>7, <2>4 DEF UpdateRefreshToken, Fail, OnError, TypeOK
    <3> QED
      BY <1>a, <1>c, <2>1, <3>1
  <2> QED
    BY <2>3, <2>4
<1>8. ASSUME NEW r \in Exchanges \cup Refreshes, WriteAccessToken(r)
      PROVE  ClaimedSecretsAreGone'
  <2>1. Moved(r, {"ok"}) /\ UNCHANGED <<refresh, id, secret>> /\ Claimed(r)
    BY <1>8, Moves DEF WriteAccessToken, Claimed
  <2>2. pc[r] \notin {"idle", "failed"}
    BY <2>1 DEF Claimed
  <2> QED
    BY <1>a, <1>c, <2>1, <2>2
<1>9. ASSUME NEW v \in Revocations, RevokeRefresh(v) PROVE ClaimedSecretsAreGone'
  <2>1. PICK S : Moved(v, S)
    BY <1>9, Moves DEF RevokeRefresh
  <2>2. PICK i : refresh' = refresh \/ refresh' = [refresh EXCEPT ![i] = None]
    BY <1>9 DEF RevokeRefresh, RemoveRef, Begin, DeleteRevoked, DeleteRefresh
  <2>3. secret' = secret /\ \A f \in Refreshes : id'[f] = id[f]
    BY <1>9, LookupsAreOwn
       DEF RevokeRefresh, RemoveRef, Begin, DeleteRevoked, DeleteRefresh
  <2> QED
    BY <1>a, <1>c, <2>1, <2>2, <2>3
<1>10. CASE \E c \in Codes : GarbageCollect(c)
  BY <1>10 DEF GarbageCollect, ClaimedSecretsAreGone, Claimed
<1>11. CASE UNCHANGED vars
  BY <1>11 DEF vars, ClaimedSecretsAreGone, Claimed
<1> QED
  BY <1>1, <1>2, <1>3, <1>4, <1>5, <1>6, <1>7, <1>8, <1>9, <1>10, <1>11
     DEF Next, HandleAuthCode, HandleRefreshToken

-----------------------------------------------------------------------------
\* A token that a client holds was handed out by an exchange that is over.
LEMMA IssuedInductive == IInv /\ [Next]_vars => IssuedAfterExchange'
<1> SUFFICES ASSUME TypeOK, ClaimedSecretsAreGone, IssuedAfterExchange, [Next]_vars
             PROVE  IssuedAfterExchange'
  BY DEF IInv
<1> USE Domains
<1>a. ASSUME NEW r \in Requests, NEW S, Moved(r, S), pc[r] # "ok",
             issued' = issued, \A f \in Refreshes : id'[f] = id[f],
             r \in Refreshes => pc'[r] = "failed" \/ pc[r] \notin {"idle", "failed"}
      PROVE  IssuedAfterExchange'
  <2>1. \A t \in issued : t.id \in Requests
    BY DEF TypeOK
  <2>2. \A f \in Refreshes : pc'[f] \notin {"idle", "failed"} =>
            pc[f] \notin {"idle", "failed"} /\ id[f] \in Exchanges
    BY <1>a DEF Moved, ClaimedSecretsAreGone
  <2>3. \A q \in Requests : pc[q] = "ok" => pc'[q] = "ok"
    BY <1>a DEF Moved
  <2> QED
    BY <1>a, <2>1, <2>2, <2>3 DEF IssuedAfterExchange
<1>1. ASSUME NEW r \in Requests, Refuse(r) \/ StorageError(r) \/ Crash(r)
      PROVE  IssuedAfterExchange'
  <2>1. Moved(r, {}) /\ UNCHANGED <<issued, id>> /\ pc[r] # "ok"
    BY <1>1, Moves DEF Refuse, StorageError, Crash, Finished
  <2>2. r \in Refreshes => pc'[r] = "failed"
    BY <2>1 DEF Moved
  <2> QED
    BY <1>a, <2>1, <2>2
<1>2. ASSUME NEW r \in Requests, Commit(r) PROVE IssuedAfterExchange'
  <2>1. Moved(r, {AfterCommit(r)}) /\ UNCHANGED <<issued, id>> /\ pc[r] = "commit"
    BY <1>2, Moves DEF Commit
  <2> QED
    BY <1>a, <2>1
<1>3. ASSUME NEW e \in Exchanges, HandleAuthCode(e) PROVE IssuedAfterExchange'
  <2>1. PICK S : Moved(e, S)
    BY <1>3, Moves DEF HandleAuthCode
  <2>2. issued' = issued /\ pc[e] # "ok"
    BY <1>3 DEF HandleAuthCode, GetAuthCode, DeleteAuthCode, ConnectorError, CreateRefresh,
       GetOfflineSessions, CreateOfflineSessions, UpdateSession, Begin, DeleteOldRefresh,
       DeleteNewRefresh, DeleteRefresh
  <2>4. \A f \in Refreshes : id'[f] = id[f]
    BY <1>3, LookupsAreOwn
  <2> QED
    BY <1>a, <2>1, <2>2, <2>4
<1>4. ASSUME NEW f \in Refreshes, NEW t \in issued, GetRefresh(f, t) PROVE IssuedAfterExchange'
  <2>1. Moved(f, {"begin"}) /\ issued' = issued /\ pc[f] = "idle"
    BY <1>4, Moves DEF GetRefresh
  <2>2. \A u \in issued : u.id \in Exchanges /\ pc[u.id] = "ok"
    BY DEF TypeOK, IssuedAfterExchange
  <2>3. id'[f] = t.id /\ \A g \in Refreshes : g # f => id'[g] = id[g]
    BY <1>4 DEF GetRefresh, TypeOK
  <2>4. \A q \in Requests : pc[q] = "ok" => pc'[q] = "ok"
    BY <2>1 DEF Moved
  <2>5. \A g \in Refreshes : g # f /\ pc'[g] \notin {"idle", "failed"} =>
            id[g] \in Exchanges /\ pc[id[g]] = "ok"
    BY <2>1 DEF Moved, ClaimedSecretsAreGone, IssuedAfterExchange
  <2> QED
    BY <2>1, <2>2, <2>3, <2>4, <2>5, SMT DEF IssuedAfterExchange
<1>5. ASSUME NEW f \in Refreshes, UpdateLastUsed(f) \/ UpdateRefreshToken(f)
      PROVE  IssuedAfterExchange'
  <2>1. PICK S : Moved(f, S)
    BY <1>5, Moves
  <2>2. UNCHANGED <<issued, id>> /\ pc[f] \in {"begin", "updateRefresh"}
    BY <1>5 DEF UpdateLastUsed, Begin, UpdateRefreshToken
  <2> QED
    BY <1>a, <2>1, <2>2
<1>6. ASSUME NEW r \in Exchanges \cup Refreshes, WriteAccessToken(r) PROVE IssuedAfterExchange'
  <2>1. Moved(r, {"ok"}) /\ id' = id /\ pc'[r] = "ok"
    BY <1>6, Moves DEF WriteAccessToken, TypeOK
  <2>2. \A q \in Requests : pc[q] = "ok" => pc'[q] = "ok"
    BY <2>1 DEF Moved
  <2>3. pc[r] \in {"respond", "respondPlain"}
    BY <1>6 DEF WriteAccessToken
  <2>4. \A f \in Refreshes : pc'[f] \notin {"idle", "failed"} =>
            id[f] \in Exchanges /\ pc[id[f]] = "ok"
    BY <2>1, <2>3 DEF Moved, ClaimedSecretsAreGone, IssuedAfterExchange
  <2>5. \A t \in issued : t.id \in Requests /\ pc[t.id] = "ok"
    BY DEF TypeOK, IssuedAfterExchange
  <2>6. CASE pc[r] = "respondPlain"
    BY <1>6, <2>1, <2>2, <2>4, <2>5, <2>6 DEF WriteAccessToken, IssuedAfterExchange
  <2>7. CASE pc[r] = "respond"
    <3> DEFINE i == IF r \in Exchanges THEN r ELSE id[r]
    <3>1. issued' = issued \cup {[id |-> i, secret |-> r]}
      BY <1>6, <2>7 DEF WriteAccessToken
    <3>2. pc'[i] = "ok"
      BY <2>1, <2>2, <2>4
    <3> HIDE DEF i
    <3>3. \A t \in issued' : t \in issued \/ t.id = i
      BY <3>1, SMT
    <3> QED
      BY <2>1, <2>2, <2>4, <2>5, <3>2, <3>3 DEF IssuedAfterExchange
  <2> QED
    BY <2>3, <2>6, <2>7
<1>7. ASSUME NEW v \in Revocations, RevokeRefresh(v) PROVE IssuedAfterExchange'
  <2>1. PICK S : Moved(v, S)
    BY <1>7, Moves DEF RevokeRefresh
  <2>2. issued' = issued /\ pc[v] # "ok" /\ \A f \in Refreshes : id'[f] = id[f]
    BY <1>7, LookupsAreOwn
       DEF RevokeRefresh, RemoveRef, Begin, DeleteRevoked, DeleteRefresh
  <2> QED
    BY <1>a, <2>1, <2>2
<1>8. CASE \E c \in Codes : GarbageCollect(c)
  BY <1>8 DEF GarbageCollect, IssuedAfterExchange
<1>9. CASE UNCHANGED vars
  BY <1>9 DEF vars, IssuedAfterExchange
<1> QED
  BY <1>1, <1>2, <1>3, <1>4, <1>5, <1>6, <1>7, <1>8, <1>9
     DEF Next, HandleRefreshToken

-----------------------------------------------------------------------------
\* An update is either overtaken by another or still right when it is written.
LEMMA TransactionsInductive == IInv /\ [Next]_vars => TransactionsAreCurrent'
<1> SUFFICES ASSUME TypeOK, TransactionsAreCurrent, [Next]_vars
             PROVE  TransactionsAreCurrent'
  BY DEF IInv
<1> USE Domains
<1> DEFINE Needs == {"deleteOld", "begin", "commit"}
<1>a. ASSUME NEW r \in Requests, NEW S, Moved(r, S), session' = session,
             \A q \in Requests : q # r => txn'[q] = txn[q],
             pc'[r] = "commit" =>
                txn'[r].rev = session.rev /\ txn'[r].refs = Updated(r, session.refs),
             r \in Exchanges \cup Revocations /\ pc'[r] \in Needs => session.exists
      PROVE  TransactionsAreCurrent'
  <2>1. session.rev <= session.rev
    BY SessionType, SMT
  <2>2. \A q \in Requests : q # r => pc'[q] = pc[q]
    BY <1>a DEF Moved
  <2>3. \A q \in Requests : pc'[q] = "commit" =>
            /\ txn'[q].rev <= session'.rev
            /\ txn'[q].rev = session'.rev => txn'[q].refs = Updated(q, session'.refs)
    BY <1>a, <2>1, <2>2 DEF TransactionsAreCurrent
  <2>4. \A q \in Exchanges \cup Revocations : pc'[q] \in Needs => session'.exists
    BY <1>a, <2>2 DEF TransactionsAreCurrent
  <2>5. ~session'.exists => session'.refs = NoRefs
    BY <1>a DEF TransactionsAreCurrent
  <2> QED
    BY <2>3, <2>4, <2>5 DEF TransactionsAreCurrent, Updated
<1>b. ASSUME NEW r \in Requests, NEW S, Moved(r, S), pc'[r] \notin Needs,
             session'.rev = session.rev + 1, session.exists => session'.exists,
             ~session'.exists => session'.refs = NoRefs,
             \A q \in Requests : q # r => txn'[q] = txn[q]
      PROVE  TransactionsAreCurrent'
  <2>1. \A q \in Requests : pc'[q] \in Needs => q # r /\ pc[q] = pc'[q]
    BY <1>b DEF Moved
  <2>2. \A q \in Requests : pc'[q] = "commit" => txn[q].rev <= session.rev /\ txn'[q] = txn[q]
    BY <1>b, <2>1 DEF TransactionsAreCurrent
  <2>3. \A n, k \in Nat : n <= k => n <= k + 1 /\ n # k + 1
    BY SMT
  <2>4. \A q \in Requests : pc'[q] = "commit" =>
            txn'[q].rev <= session'.rev /\ txn'[q].rev # session'.rev
    <3> SUFFICES ASSUME NEW q \in Requests, pc'[q] = "commit"
                 PROVE  txn'[q].rev <= session'.rev /\ txn'[q].rev # session'.rev
      OBVIOUS
    <3>1. txn[q].rev \in Nat /\ session.rev \in Nat
      BY SessionType
    <3>2. txn[q].rev <= session.rev + 1 /\ txn[q].rev # session.rev + 1
      BY <2>2, <2>3, <3>1
    <3> QED
      BY <1>b, <2>2, <3>2
  <2>5. \A q \in Exchanges \cup Revocations : pc'[q] \in Needs => session'.exists
    BY <1>b, <2>1 DEF TransactionsAreCurrent
  <2> QED
    BY <1>b, <2>4, <2>5 DEF TransactionsAreCurrent
<1>c. ASSUME NEW r \in Requests, NEW newRefs, Begin(r, newRefs)
      PROVE  /\ session' = session
             /\ \A q \in Requests : q # r => txn'[q] = txn[q]
             /\ txn'[r].rev = session.rev /\ txn'[r].refs = newRefs
  BY <1>c DEF Begin, TypeOK
<1>1. ASSUME NEW r \in Requests, Refuse(r) \/ StorageError(r) \/ Crash(r)
      PROVE  TransactionsAreCurrent'
  <2>1. Moved(r, {}) /\ UNCHANGED <<session, txn>>
    BY <1>1, Moves DEF Refuse, StorageError, Crash
  <2>2. pc'[r] \notin Needs
    BY <2>1 DEF Moved
  <2> QED
    BY <1>a, <2>1, <2>2
<1>2. ASSUME NEW r \in Requests, Commit(r) PROVE TransactionsAreCurrent'
  <2>1. Moved(r, {AfterCommit(r)}) /\ pc[r] = "commit"
    BY <1>2, Moves DEF Commit
  <2>2. pc'[r] \notin Needs
    BY <2>1 DEF Moved, AfterCommit
  <2>3. \A q \in Requests : q # r => txn'[q] = txn[q]
    BY <1>2 DEF Commit, TypeOK
  <2>4. CASE txn[r].rev = session.rev
    <3>1. session' = [session EXCEPT !.refs = txn[r].refs, !.rev = @ + 1]
      BY <1>2, <2>4 DEF Commit
    <3>2. /\ session'.rev = session.rev + 1 /\ session'.refs = txn[r].refs
          /\ session'.exists = session.exists
      BY <3>1, SessionType DEF Session
    <3>3. txn[r].refs = Updated(r, session.refs)
      BY <2>1, <2>4 DEF TransactionsAreCurrent
    <3>4. ~session.exists => r \in Refreshes /\ session.refs = NoRefs
      BY <2>1 DEF TransactionsAreCurrent, Requests
    <3>5. ~session'.exists => session'.refs = NoRefs
      BY <3>2, <3>3, <3>4 DEF Updated
    <3> QED
      BY <1>b, <2>1, <2>2, <2>3, <3>2, <3>5
  <2>5. CASE txn[r].rev # session.rev
    <3>1. session' = session
      BY <1>2, <2>5 DEF Commit
    <3> QED
      BY <1>a, <2>1, <2>2, <2>3, <3>1
  <2> QED
    BY <2>4, <2>5
<1>3. ASSUME NEW e \in Exchanges,
             \/ GetAuthCode(e) \/ DeleteAuthCode(e) \/ ConnectorError(e)
             \/ CreateRefresh(e) \/ DeleteNewRefresh(e)
      PROVE  TransactionsAreCurrent'
  <2>1. Moved(e, {"deleteCode", "createRefresh", "respondPlain", "getSession"})
    BY <1>3, Moves DEF Moved
  <2>2. UNCHANGED <<session, txn>>
    BY <1>3 DEF GetAuthCode, DeleteAuthCode, ConnectorError, CreateRefresh,
       DeleteNewRefresh, DeleteRefresh
  <2>3. pc'[e] \notin Needs
    BY <2>1 DEF Moved
  <2> QED
    BY <1>a, <2>1, <2>2, <2>3
<1>4. ASSUME NEW e \in Exchanges, GetOfflineSessions(e) PROVE TransactionsAreCurrent'
  <2>1. Moved(e, {"createSession", "deleteOld", "begin"}) /\ UNCHANGED <<session, txn>>
    BY <1>4, Moves DEF GetOfflineSessions
  <2>2. pc'[e] # "commit" /\ (~session.exists => pc'[e] = "createSession")
    BY <1>4 DEF GetOfflineSessions, TypeOK
  <2> QED
    BY <1>a, <2>1, <2>2
<1>5. ASSUME NEW e \in Exchanges, CreateOfflineSessions(e) PROVE TransactionsAreCurrent'
  <2>1. Moved(e, {"respond"}) /\ txn' = txn
    BY <1>5, Moves DEF CreateOfflineSessions
  <2>2. pc'[e] \notin Needs
    BY <2>1 DEF Moved
  <2>3. CASE session.exists
    <3>1. session' = session
      BY <1>5, <2>3 DEF CreateOfflineSessions
    <3> QED
      BY <1>a, <2>1, <2>2, <3>1
  <2>4. CASE ~session.exists
    <3>1. session' = [exists |-> TRUE, rev |-> session.rev + 1,
                      refs |-> [NoRefs EXCEPT ![Client[e]] = e]]
      BY <1>5, <2>4 DEF CreateOfflineSessions
    <3>2. session'.rev = session.rev + 1 /\ session'.exists
      BY <3>1
    <3> QED
      BY <1>b, <2>1, <2>2, <3>2
  <2> QED
    BY <2>3, <2>4
<1>6. ASSUME NEW e \in Exchanges, DeleteOldRefresh(e) PROVE TransactionsAreCurrent'
  <2>1. Moved(e, {"begin"}) /\ UNCHANGED <<session, txn>> /\ session.exists
    BY <1>6, Moves DEF DeleteOldRefresh, DeleteRefresh, TransactionsAreCurrent
  <2>2. pc'[e] # "commit"
    BY <2>1 DEF Moved
  <2> QED
    BY <1>a, <2>1, <2>2
<1>7. ASSUME NEW e \in Exchanges, UpdateSession(e) PROVE TransactionsAreCurrent'
  <2>1. Moved(e, {"commit"}) /\ Begin(e, [session.refs EXCEPT ![Client[e]] = e])
    BY <1>7, Moves DEF UpdateSession
  <2>2. Updated(e, session.refs) = [session.refs EXCEPT ![Client[e]] = e]
    BY DEF Updated
  <2>3. session.exists
    BY <1>7 DEF UpdateSession, TransactionsAreCurrent
  <2> QED
    <3>1. /\ session' = session
          /\ \A q \in Requests : q # e => txn'[q] = txn[q]
          /\ txn'[e].rev = session.rev /\ txn'[e].refs = Updated(e, session.refs)
      BY <1>c, <2>1, <2>2
    <3> QED
      BY <1>a, <2>1, <2>3, <3>1
<1>8. ASSUME NEW f \in Refreshes,
             UpdateRefreshToken(f) \/ \E t \in issued : GetRefresh(f, t)
      PROVE  TransactionsAreCurrent'
  <2>1. Moved(f, {"begin", "respond"}) /\ UNCHANGED <<session, txn>>
    BY <1>8, Moves DEF Moved, GetRefresh, UpdateRefreshToken
  <2>2. pc'[f] # "commit"
    BY <2>1 DEF Moved
  <2> QED
    BY <1>a, <2>1, <2>2
<1>9. ASSUME NEW f \in Refreshes, UpdateLastUsed(f) PROVE TransactionsAreCurrent'
  <2>1. Moved(f, {"commit", "panic"})
    BY <1>9, Moves
  <2>2. CASE Ref(f) = id[f]
    <3>1. Begin(f, session.refs) /\ Updated(f, session.refs) = session.refs
      BY <1>9, <2>2 DEF UpdateLastUsed, Updated
    <3> QED
      BY <1>a, <1>c, <2>1, <3>1
  <2>3. CASE Ref(f) # id[f]
    <3>1. UNCHANGED <<session, txn>> /\ pc'[f] # "commit"
      BY <1>9, <2>3 DEF UpdateLastUsed, TypeOK
    <3> QED
      BY <1>a, <2>1, <3>1
  <2> QED
    BY <2>2, <2>3
<1>10. ASSUME NEW r \in Exchanges \cup Refreshes, WriteAccessToken(r)
       PROVE  TransactionsAreCurrent'
  <2>1. Moved(r, {"ok"}) /\ UNCHANGED <<session, txn>>
    BY <1>10, Moves DEF WriteAccessToken
  <2>2. pc'[r] \notin Needs
    BY <2>1 DEF Moved
  <2> QED
    BY <1>a, <2>1, <2>2
<1>11. ASSUME NEW v \in Revocations, RemoveRef(v) PROVE TransactionsAreCurrent'
  <2>1. Moved(v, {"commit"}) /\ Begin(v, [session.refs EXCEPT ![Client[v]] = None])
    BY <1>11, Moves DEF RemoveRef
  <2>2. Updated(v, session.refs) = [session.refs EXCEPT ![Client[v]] = None]
    BY DEF Updated
  <2>3. session.exists
    BY <1>11 DEF RemoveRef
  <2> QED
    <3>1. /\ session' = session
          /\ \A q \in Requests : q # v => txn'[q] = txn[q]
          /\ txn'[v].rev = session.rev /\ txn'[v].refs = Updated(v, session.refs)
      BY <1>c, <2>1, <2>2
    <3> QED
      BY <1>a, <2>1, <2>3, <3>1
<1>12. ASSUME NEW v \in Revocations, DeleteRevoked(v) PROVE TransactionsAreCurrent'
  <2>1. Moved(v, {"ok"}) /\ UNCHANGED <<session, txn>>
    BY <1>12, Moves DEF DeleteRevoked, DeleteRefresh
  <2>2. pc'[v] \notin Needs
    BY <2>1 DEF Moved
  <2> QED
    BY <1>a, <2>1, <2>2
<1>13. CASE \E c \in Codes : GarbageCollect(c)
  BY <1>13 DEF GarbageCollect, TransactionsAreCurrent, Updated
<1>14. CASE UNCHANGED vars
  BY <1>14 DEF vars, TransactionsAreCurrent, Updated
<1> QED
  BY <1>1, <1>2, <1>3, <1>4, <1>5, <1>6, <1>7, <1>8, <1>9, <1>10, <1>11, <1>12, <1>13, <1>14
     DEF Next, HandleAuthCode, HandleRefreshToken, RevokeRefresh

-----------------------------------------------------------------------------
\* Request r writes the session: nothing but the reference of its own client,
\* which then leads to r's token, to none, or where it led before.
Writes(r) ==
    /\ pc'[r] # pc[r] /\ pc[r] \in {"commit", "createSession"}
    /\ \A q \in Requests : q # r => pc'[q] = pc[q]
    /\ UNCHANGED <<id, stale>>
    /\ \/ session'.refs = session.refs
       \/ session'.refs = [session.refs EXCEPT ![Client[r]] = None]
       \/ r \in Exchanges /\ session'.refs = [session.refs EXCEPT ![Client[r]] = r]

\* A step that changes the session is the write of one request.
LEMMA SessionWrites ==
    ASSUME TypeOK, TransactionsAreCurrent, [Next]_vars, session' # session
    PROVE  \E r \in Requests : Writes(r)
<1> USE Domains
<1>1. ASSUME NEW r \in Requests, Commit(r) PROVE Writes(r)
  <2>1. Moved(r, {AfterCommit(r)}) /\ pc[r] = "commit" /\ UNCHANGED <<id, stale>>
    BY <1>1, Moves DEF Commit
  <2>2. pc'[r] # pc[r] /\ \A q \in Requests : q # r => pc'[q] = pc[q]
    BY <2>1 DEF Moved, AfterCommit
  <2>3. session' = [session EXCEPT !.refs = txn[r].refs, !.rev = @ + 1]
        /\ txn[r].rev = session.rev
    BY <1>1 DEF Commit
  <2>4. session'.refs = txn[r].refs
    BY <2>3, SessionType DEF Session
  <2>5. txn[r].refs = Updated(r, session.refs)
    BY <2>1, <2>3 DEF TransactionsAreCurrent
  <2> QED
    <3>1. CASE r \in Exchanges
      BY <2>1, <2>2, <2>4, <2>5, <3>1 DEF Updated, Writes
    <3>2. CASE r \in Refreshes
      BY <2>1, <2>2, <2>4, <2>5, <3>2 DEF Updated, Writes
    <3>3. CASE r \in Revocations
      BY <2>1, <2>2, <2>4, <2>5, <3>3 DEF Updated, Writes
    <3> QED
      BY <3>1, <3>2, <3>3 DEF Requests
<1>2. ASSUME NEW e \in Exchanges, CreateOfflineSessions(e) PROVE Writes(e)
  <2>1. Moved(e, {"respond"}) /\ pc[e] = "createSession" /\ UNCHANGED <<id, stale>>
    BY <1>2, Moves DEF CreateOfflineSessions
  <2>2. pc'[e] # pc[e] /\ \A q \in Requests : q # e => pc'[q] = pc[q]
    BY <2>1 DEF Moved
  <2>3. session' = [exists |-> TRUE, rev |-> session.rev + 1,
                    refs |-> [NoRefs EXCEPT ![Client[e]] = e]] /\ ~session.exists
    BY <1>2 DEF CreateOfflineSessions
  <2>4. session'.refs = [session.refs EXCEPT ![Client[e]] = e]
    BY <2>3 DEF TransactionsAreCurrent
  <2> QED
    BY <2>1, <2>2, <2>4 DEF Writes
<1>3. (\E r \in Requests : Commit(r)) \/ (\E e \in Exchanges : CreateOfflineSessions(e))
  BY DEF Next, vars, HandleAuthCode, HandleRefreshToken, RevokeRefresh, Refuse, StorageError,
     Crash, GetAuthCode, DeleteAuthCode, ConnectorError, CreateRefresh, GetOfflineSessions,
     DeleteOldRefresh, DeleteNewRefresh, DeleteRefresh, UpdateSession, Begin, GetRefresh,
     UpdateLastUsed, UpdateRefreshToken, WriteAccessToken, RemoveRef, DeleteRevoked,
     GarbageCollect
<1> QED
  BY <1>1, <1>2, <1>3

\* A refresh that is behind the session's reference cannot catch up with it.
LEMMA StaleInductive == IInv /\ [Next]_vars => StaleRefreshesStop'
<1> SUFFICES ASSUME TypeOK, ClaimedSecretsAreGone, IssuedAfterExchange,
                    TransactionsAreCurrent, StaleRefreshesStop, [Next]_vars
             PROVE  StaleRefreshesStop'
  BY DEF IInv
<1> USE Domains
<1>a. \A f \in stale : f \in Refreshes /\ f \in Requests
  BY DEF TypeOK
<1>b. ASSUME NEW r \in Requests, NEW S, Moved(r, S), session' = session, stale' = stale,
             \A f \in Refreshes : id'[f] = id[f],
             r \in stale => pc'[r] \in {"failed", "panic"}
      PROVE  StaleRefreshesStop'
  BY <1>a, <1>b DEF Moved, StaleRefreshesStop
<1>1. CASE session' # session
  <2>1. PICK r \in Requests : Writes(r)
    BY <1>1, SessionWrites
  <2>2. \A f \in stale : f # r /\ pc'[f] = pc[f]
    BY <1>a, <2>1 DEF Writes, StaleRefreshesStop
  <2>3. \A f \in stale : pc[f] = "begin" => id[f] \in Exchanges /\ id[f] # r
    BY <1>a, <2>1 DEF Writes, ClaimedSecretsAreGone, IssuedAfterExchange
  <2>4. session.refs \in Refs
    BY SessionType
  <2>5. \A f \in stale : pc[f] = "begin" => session'.refs[Client[f]] # id[f]
    <3>1. \A f \in stale : pc[f] = "begin" =>
              /\ session.refs[Client[f]] # id[f] /\ id[f] # None
              /\ Client[f] \in Clients
      BY <1>a, <2>3 DEF StaleRefreshesStop
    <3>2. \A c \in Clients : session'.refs[c] \in {session.refs[c], None, r}
      BY <2>1, <2>4 DEF Writes, Refs
    <3> QED
      BY <2>3, <3>1, <3>2
  <2> QED
    BY <2>1, <2>2, <2>5 DEF Writes, StaleRefreshesStop
<1>2. CASE session' = session
  <2> USE <1>2
  <2>1. ASSUME NEW r \in Requests, Refuse(r) \/ StorageError(r) \/ Crash(r)
        PROVE  StaleRefreshesStop'
    <3>1. Moved(r, {}) /\ UNCHANGED <<stale, id>>
      BY <2>1, Moves DEF Refuse, StorageError, Crash
    <3>2. r \in stale => pc'[r] = "failed"
      BY <1>a, <3>1 DEF Moved
    <3> QED
      BY <1>b, <3>1, <3>2
  <2>2. ASSUME NEW r \in Requests, Commit(r) PROVE StaleRefreshesStop'
    <3>1. Moved(r, {AfterCommit(r)}) /\ UNCHANGED <<stale, id>> /\ pc[r] = "commit"
      BY <2>2, Moves DEF Commit
    <3>2. r \notin stale
      BY <3>1 DEF StaleRefreshesStop
    <3> QED
      BY <1>b, <3>1, <3>2
  <2>3. ASSUME NEW e \in Exchanges, HandleAuthCode(e) PROVE StaleRefreshesStop'
    <3>1. PICK S : Moved(e, S)
      BY <2>3, Moves DEF HandleAuthCode
    <3>2. stale' = stale
      BY <2>3 DEF HandleAuthCode, GetAuthCode, DeleteAuthCode, ConnectorError,
         CreateRefresh, GetOfflineSessions, CreateOfflineSessions, UpdateSession, Begin,
         DeleteOldRefresh, DeleteNewRefresh, DeleteRefresh
    <3>3. \A f \in Refreshes : id'[f] = id[f]
      BY <2>3, LookupsAreOwn
    <3> QED
      BY <1>a, <1>b, <3>1, <3>2, <3>3
  <2>4. ASSUME NEW f \in Refreshes, NEW t \in issued, GetRefresh(f, t)
        PROVE  StaleRefreshesStop'
    <3>1. pc'[f] = "begin" /\ id'[f] = t.id
          /\ \A g \in Requests : g # f => pc'[g] = pc[g] /\ id'[g] = id[g]
      BY <2>4 DEF GetRefresh, TypeOK
    <3>2. f \notin stale
      BY <2>4 DEF GetRefresh, StaleRefreshesStop
    <3>3. stale' \subseteq stale \cup {f} /\ (f \in stale' => session.refs[Client[f]] # t.id)
      BY <2>4, <3>2 DEF GetRefresh
    <3> QED
      BY <1>a, <3>1, <3>2, <3>3 DEF StaleRefreshesStop
  <2>5. ASSUME NEW f \in Refreshes, UpdateLastUsed(f) PROVE StaleRefreshesStop'
    <3>1. Moved(f, {"commit", "panic"}) /\ UNCHANGED <<stale, id>> /\ pc[f] = "begin"
      BY <2>5, Moves DEF UpdateLastUsed, Begin
    <3>2. f \in stale => Ref(f) # id[f]
      BY <3>1 DEF StaleRefreshesStop, Ref
    <3>3. f \in stale => pc'[f] \in {"failed", "panic"}
      BY <2>5, <3>2 DEF UpdateLastUsed, TypeOK
    <3> QED
      BY <1>b, <3>1, <3>3
  <2>6. ASSUME NEW f \in Refreshes, UpdateRefreshToken(f) PROVE StaleRefreshesStop'
    <3>1. Moved(f, {"respond"}) /\ UNCHANGED <<stale, id>> /\ f \notin stale
      BY <2>6, Moves DEF UpdateRefreshToken, StaleRefreshesStop
    <3> QED
      BY <1>b, <3>1
  <2>7. ASSUME NEW r \in Exchanges \cup Refreshes, WriteAccessToken(r)
        PROVE  StaleRefreshesStop'
    <3>1. Moved(r, {"ok"}) /\ UNCHANGED <<stale, id>> /\ r \notin stale
      BY <2>7, Moves DEF WriteAccessToken, StaleRefreshesStop
    <3> QED
      BY <1>b, <3>1
  <2>8. ASSUME NEW v \in Revocations, RevokeRefresh(v) PROVE StaleRefreshesStop'
    <3>1. PICK S : Moved(v, S)
      BY <2>8, Moves DEF RevokeRefresh
    <3>2. stale' = stale /\ \A f \in Refreshes : id'[f] = id[f]
      BY <2>8, LookupsAreOwn
         DEF RevokeRefresh, RemoveRef, Begin, DeleteRevoked, DeleteRefresh
    <3> QED
      BY <1>a, <1>b, <3>1, <3>2
  <2>9. CASE UNCHANGED vars \/ \E c \in Codes : GarbageCollect(c)
    BY <2>9 DEF vars, GarbageCollect, StaleRefreshesStop
  <2> QED
    BY <2>1, <2>2, <2>3, <2>4, <2>5, <2>6, <2>7, <2>8, <2>9
       DEF Next, HandleRefreshToken
<1> QED
  BY <1>1, <1>2

-----------------------------------------------------------------------------
\* The inductive invariant holds initially.
LEMMA InitIInv == Init => IInv
<1> SUFFICES ASSUME Init PROVE IInv
  OBVIOUS
<1> USE Domains
<1>a. NoRefs \in Refs /\ NoTxn \in Txn /\ 0 \in 0 .. MaxFaults
  BY TokenAssumption, SMT DEF NoRefs, Refs, RefreshID, NoTxn, Txn
<1>b. session \in Session
  BY <1>a DEF Init, Session
<1>c. PICK s \in Scenarios :
         /\ serial = s.serial /\ codes = {Code[e] : e \in s.made \cap Exchanges}
         /\ pc = [r \in Requests |-> IF r \in s.made THEN "idle" ELSE "failed"]
  BY DEF Init
<1>d. serial \in BOOLEAN /\ codes \subseteq Codes
  BY <1>c, TokenAssumption, SMT
<1>e. pc \in [Requests -> Finished \cup {"idle"}]
  BY <1>c DEF Finished
<1>1. TypeOK
  BY <1>a, <1>b, <1>d, <1>e DEF Init, TypeOK, Secret, RefreshID
<1>2. \A r \in Requests : pc[r] \in {"idle", "failed"}
  BY DEF Init
<1>3. CodesGoOnce
  BY <1>2 DEF CodesGoOnce, Redeeming, Guarded
<1>4. SecretsAreFresh
  BY DEF Init, SecretsAreFresh, Unused
<1>5. ClaimedSecretsAreGone /\ IssuedAfterExchange
  BY <1>2 DEF Init, ClaimedSecretsAreGone, Claimed, IssuedAfterExchange
<1>6. TransactionsAreCurrent
  BY <1>2 DEF Init, TransactionsAreCurrent
<1>7. StaleRefreshesStop
  BY DEF Init, StaleRefreshesStop
<1> QED
  BY <1>1, <1>3, <1>4, <1>5, <1>6, <1>7 DEF IInv

\* Every reachable state satisfies the inductive invariant.
THEOREM Invariance == Spec => []IInv
<1>1. IInv /\ [Next]_vars => IInv'
  BY TypeInductive, CodesInductive, SecretsInductive, ClaimedInductive, IssuedInductive,
     TransactionsInductive, StaleInductive DEF IInv
<1> QED
  BY <1>1, InitIInv, PTL DEF Spec

\* The stored objects and the requests' states are of their types throughout.
THEOREM TypeCorrect == Spec => []TypeOK
<1>1. IInv => TypeOK
  BY DEF IInv
<1> QED
  BY <1>1, Invariance, PTL

\* Of any number of concurrent exchanges of a code, at most one gets tokens:
\* DeleteAuthCode serves as the claim on it, whatever fails around it.
THEOREM CodesAreRedeemedOnce == Spec => []CodeRedeemedOnce
<1>1. IInv => CodeRedeemedOnce
  BY DEF IInv, CodesGoOnce, CodeRedeemedOnce, Redeeming
<1> QED
  BY <1>1, Invariance, PTL

\* Of any number of concurrent or repeated refreshes with the same token value,
\* at most one is answered: UpdateRefreshToken compares the value and replaces
\* it by one that was never used before.
THEOREM RefreshTokensAreClaimedOnce == Spec => []RefreshTokenClaimedOnce
<1>1. IInv => RefreshTokenClaimedOnce
  BY DEF IInv, ClaimedSecretsAreGone, Claimed, RefreshTokenClaimedOnce
<1> QED
  BY <1>1, Invariance, PTL

\* A refresh that begins when the session does not refer to its token is never
\* answered, although the token may be in storage for good.
THEOREM UnreferencedTokensStayDead == Spec => []UnreferencedTokensAreDead
<1>1. IInv => UnreferencedTokensAreDead
  BY DEF IInv, StaleRefreshesStop, UnreferencedTokensAreDead
<1> QED
  BY <1>1, Invariance, PTL

\* No update of the OfflineSessions object, which the user's clients share,
\* undoes the update of another client.
THEOREM ReferencesStayIndependent == Spec => ReferencesAreIndependent
<1> DEFINE Own == \A c \in Clients : session'.refs[c] # session.refs[c] =>
                     \E r \in Requests : Client[r] = c /\ pc'[r] # pc[r]
<1>1. IInv /\ [Next]_vars => [Own]_vars
  <2> SUFFICES ASSUME IInv, [Next]_vars PROVE Own
    OBVIOUS
  <2>1. CASE session' = session
    BY <2>1
  <2>2. CASE session' # session
    <3>1. PICK r \in Requests : Writes(r)
      BY <2>2, SessionWrites DEF IInv
    <3>2. session.refs \in Refs
      BY SessionType DEF IInv
    <3>3. \A c \in Clients : c # Client[r] => session'.refs[c] = session.refs[c]
      BY <3>1, <3>2 DEF Writes, Refs
    <3>4. pc'[r] # pc[r]
      BY <3>1 DEF Writes
    <3> QED
      BY <3>3, <3>4
  <2> QED
    BY <2>1, <2>2
<1> QED
  BY <1>1, Invariance, PTL DEF Spec, ReferencesAreIndependent

\* A token that a client was sent and that the session no longer refers to is
\* never referred to again, on either kind of storage: only the exchange that
\* created a token writes a reference to it, and that before it sends the token.
THEOREM RevocationStaysFinal == Spec => RevocationIsFinal
<1> DEFINE Final == \A t \in issued :
                       session.refs[Client[t.id]] # t.id => session'.refs[Client[t.id]] # t.id
<1>1. IInv /\ [Next]_vars => [Final]_vars
  <2> SUFFICES ASSUME IInv, [Next]_vars, NEW t \in issued,
                      session.refs[Client[t.id]] # t.id, session'.refs[Client[t.id]] = t.id
               PROVE  FALSE
    OBVIOUS
  <2>1. t.id \in Exchanges /\ t.id # None /\ Client[t.id] \in Clients /\ pc[t.id] = "ok"
    BY Domains DEF IInv, TypeOK, IssuedAfterExchange
  <2>2. PICK r \in Requests : Writes(r)
    BY SessionWrites DEF IInv
  <2>3. session.refs \in Refs
    BY SessionType DEF IInv
  <2>4. r # t.id
    BY <2>1, <2>2 DEF Writes
  <2> QED
    BY <2>1, <2>2, <2>3, <2>4 DEF Writes, Refs
<1> QED
  BY <1>1, Invariance, PTL DEF Spec, RevocationIsFinal

-----------------------------------------------------------------------------
(* As long as no storage call has failed and no server has stopped.        *)

\* The steps of an exchange from the creation of its refresh token to its end.
Holding == Guarded \cup {"cleanup", "respond"}

\* A refresh token stays in storage only while its exchange will answer or
\* clean up, or after it has answered.
TokensAreHandedOut ==
    faults = 0 =>
        \A e \in Exchanges : refresh[e] # None =>
            pc[e] \in Holding \/ \E t \in issued : t.id = e

\* While nothing has failed, every storage call does what it was called for.
LEMMA Undisturbed ==
    ASSUME TypeOK, faults' = 0
    PROVE  /\ ~Fault
           /\ \A r \in Requests : ~StorageError(r) /\ ~Crash(r)
           /\ \A e \in Exchanges : ~ConnectorError(e)
           /\ \A r, next : Goto(r, next) => pc' = [pc EXCEPT ![r] = next] /\ faults = 0
<1>1. faults \in Nat
  BY TokenAssumption, SMT DEF TypeOK
<1>2. ~Fault
  BY <1>1, SMT DEF Fault
<1> QED
  BY <1>2 DEF StorageError, Crash, ConnectorError, Goto

\* Faults are not undone.
LEMMA FaultsCount == TypeOK /\ [Next]_vars /\ faults' = 0 => faults = 0
<1> SUFFICES ASSUME TypeOK, [Next]_vars, faults' = 0 PROVE faults = 0
  OBVIOUS
<1>1. faults' = faults \/ Fault
  BY DEF Next, vars, HandleAuthCode, HandleRefreshToken, RevokeRefresh, Refuse,
     StorageError, Crash, GetAuthCode, DeleteAuthCode, ConnectorError, CreateRefresh,
     GetOfflineSessions, CreateOfflineSessions, DeleteOldRefresh, DeleteNewRefresh,
     DeleteRefresh, UpdateSession, Begin, GetRefresh, UpdateLastUsed, UpdateRefreshToken,
     WriteAccessToken, RemoveRef, DeleteRevoked, GarbageCollect, Commit, Goto, Fail
<1> QED
  BY <1>1, Undisturbed

\* An exchange that has created a refresh token goes on to answer or to delete
\* the token again.
LEMMA HandedOutInductive == IInv /\ TokensAreHandedOut /\ [Next]_vars => TokensAreHandedOut'
<1> SUFFICES ASSUME TypeOK, ClaimedSecretsAreGone, TokensAreHandedOut, [Next]_vars,
                    faults = 0, faults' = 0
             PROVE  TokensAreHandedOut'
  BY FaultsCount DEF IInv, TokensAreHandedOut
<1> USE Domains
<1>a. ASSUME NEW r \in Requests, NEW S, Moved(r, S), issued \subseteq issued',
             \A e \in Exchanges : refresh'[e] # None => e = r \/ refresh[e] # None,
             r \in Exchanges /\ refresh'[r] # None =>
                 \/ pc'[r] \in Holding
                 \/ \E t \in issued' : t.id = r
                 \/ pc[r] \notin Holding /\ refresh[r] # None
      PROVE  TokensAreHandedOut'
  <2>1. ASSUME NEW e \in Exchanges, refresh'[e] # None
        PROVE  pc'[e] \in Holding \/ \E t \in issued' : t.id = e
    <3>1. CASE e # r
      <4>1. pc'[e] = pc[e] /\ refresh[e] # None
        BY <1>a, <2>1, <3>1 DEF Moved
      <4> QED
        BY <1>a, <4>1 DEF TokensAreHandedOut
    <3>2. CASE e = r
      BY <1>a, <2>1, <3>2 DEF TokensAreHandedOut
    <3> QED
      BY <3>1, <3>2
  <2> QED
    BY <2>1 DEF TokensAreHandedOut
<1>b. Guarded \cup {"cleanup", "respond"} = Holding
  BY DEF Holding
<1>1. ASSUME NEW r \in Requests, Refuse(r) PROVE TokensAreHandedOut'
  <2>1. Moved(r, {}) /\ UNCHANGED <<refresh, issued>> /\ pc[r] = "idle"
    BY <1>1, Moves DEF Refuse
  <2>2. pc[r] \notin Holding
    BY <2>1 DEF Holding, Guarded
  <2> QED
    BY <1>a, <2>1, <2>2
<1>2. ASSUME NEW r \in Requests, Commit(r) PROVE TokensAreHandedOut'
  <2>1. Moved(r, {AfterCommit(r)}) /\ UNCHANGED <<refresh, issued>> /\ pc[r] = "commit"
    BY <1>2, Moves DEF Commit
  <2>2. ASSUME r \in Exchanges PROVE pc'[r] \in {"respond", "cleanup"}
    BY <1>2, <2>1, <2>2, Undisturbed, SMT DEF Commit, Fail, OnError, AfterCommit, Guarded, TypeOK
  <2> QED
    BY <1>a, <1>b, <2>1, <2>2
<1>3. ASSUME NEW r \in Requests, StorageError(r) \/ Crash(r) PROVE TokensAreHandedOut'
  BY <1>3, Undisturbed
<1>4. ASSUME NEW e \in Exchanges, GetAuthCode(e) \/ DeleteAuthCode(e)
      PROVE  TokensAreHandedOut'
  <2>1. PICK S : Moved(e, S)
    BY <1>4, Moves
  <2>2. UNCHANGED <<refresh, issued>> /\ pc[e] \in {"idle", "deleteCode"}
    BY <1>4 DEF GetAuthCode, DeleteAuthCode
  <2>3. pc[e] \notin Holding
    BY <2>2 DEF Holding, Guarded
  <2> QED
    BY <1>a, <2>1, <2>2, <2>3
<1>5. ASSUME NEW e \in Exchanges, ConnectorError(e) PROVE TokensAreHandedOut'
  BY <1>5, Undisturbed
<1>6. ASSUME NEW e \in Exchanges, CreateRefresh(e) PROVE TokensAreHandedOut'
  <2>1. Moved(e, {"getSession"}) /\ UNCHANGED issued
    BY <1>6, Moves DEF CreateRefresh
  <2>2. pc'[e] = "getSession"
    BY <1>6, Undisturbed, SMT DEF CreateRefresh, TypeOK
  <2>3. \A d \in Exchanges : refresh'[d] # None => d = e \/ refresh[d] # None
    BY <1>6 DEF CreateRefresh, TypeOK
  <2> QED
    BY <1>a, <1>b, <2>1, <2>2, <2>3 DEF Guarded
<1>7. ASSUME NEW e \in Exchanges,
             \/ GetOfflineSessions(e) \/ CreateOfflineSessions(e) \/ UpdateSession(e)
      PROVE  TokensAreHandedOut'
  <2>1. PICK S : Moved(e, S)
    BY <1>7, Moves
  <2>2. UNCHANGED <<refresh, issued>>
    BY <1>7 DEF GetOfflineSessions, CreateOfflineSessions, UpdateSession, Begin
  <2>3. pc'[e] \in Guarded \cup {"respond", "cleanup"}
    <3>1. CASE GetOfflineSessions(e)
      BY <3>1 DEF GetOfflineSessions, Guarded, TypeOK
    <3>2. CASE CreateOfflineSessions(e)
      BY <3>2, Undisturbed, SMT DEF CreateOfflineSessions, Fail, OnError, Guarded, TypeOK
    <3>3. CASE UpdateSession(e)
      BY <3>3 DEF UpdateSession, Begin, Guarded, TypeOK
    <3> QED
      BY <1>7, <3>1, <3>2, <3>3
  <2> QED
    BY <1>a, <1>b, <2>1, <2>2, <2>3
<1>8. ASSUME NEW e \in Exchanges, DeleteOldRefresh(e) PROVE TokensAreHandedOut'
  <2>1. Moved(e, {"begin"}) /\ UNCHANGED issued /\ pc[e] = "deleteOld"
    BY <1>8, Moves DEF DeleteOldRefresh, DeleteRefresh
  <2>2. pc'[e] \in {"begin", "cleanup"}
    BY <1>8, Undisturbed, SMT DEF DeleteOldRefresh, DeleteRefresh, Fail, OnError, Guarded, TypeOK
  <2>3. \A d \in Exchanges : refresh'[d] # None => refresh[d] # None
    BY <1>8 DEF DeleteOldRefresh, DeleteRefresh, TypeOK
  <2> QED
    BY <1>a, <1>b, <2>1, <2>2, <2>3 DEF Guarded
<1>9. ASSUME NEW e \in Exchanges, DeleteNewRefresh(e) PROVE TokensAreHandedOut'
  <2>1. Moved(e, {}) /\ UNCHANGED issued
    BY <1>9, Moves DEF DeleteNewRefresh, DeleteRefresh
  <2>2. refresh'[e] = None /\ \A d \in Exchanges : refresh'[d] # None => refresh[d] # None
    BY <1>9 DEF DeleteNewRefresh, DeleteRefresh, TypeOK
  <2> QED
    BY <1>a, <2>1, <2>2
<1>10. ASSUME NEW f \in Refreshes, NEW t \in issued, GetRefresh(f, t)
       PROVE  TokensAreHandedOut'
  <2>1. Moved(f, {"begin"}) /\ UNCHANGED <<refresh, issued>>
    BY <1>10, Moves DEF GetRefresh
  <2> QED
    BY <1>a, <2>1
<1>11. ASSUME NEW f \in Refreshes, UpdateLastUsed(f) PROVE TokensAreHandedOut'
  <2>1. Moved(f, {"commit", "panic"}) /\ UNCHANGED <<refresh, issued>>
    BY <1>11, Moves DEF UpdateLastUsed, Begin
  <2> QED
    BY <1>a, <2>1
<1>12. ASSUME NEW f \in Refreshes, UpdateRefreshToken(f) PROVE TokensAreHandedOut'
  <2>1. Moved(f, {"respond"}) /\ UNCHANGED issued /\ pc[f] = "updateRefresh"
    BY <1>12, Moves DEF UpdateRefreshToken
  <2>2. secret[f] # None
    BY <2>1 DEF ClaimedSecretsAreGone
  <2>3. \A e \in Exchanges : refresh'[e] # None => refresh[e] # None
    BY <1>12, <2>2 DEF UpdateRefreshToken, TypeOK
  <2> QED
    BY <1>a, <2>1, <2>3
<1>13. ASSUME NEW r \in Exchanges \cup Refreshes, WriteAccessToken(r)
       PROVE  TokensAreHandedOut'
  <2>1. Moved(r, {"ok"}) /\ UNCHANGED refresh /\ issued \subseteq issued'
    BY <1>13, Moves DEF WriteAccessToken
  <2>2. CASE pc[r] = "respondPlain"
    <3>1. pc[r] \notin Holding
      BY <2>2 DEF Holding, Guarded
    <3> QED
      BY <1>a, <2>1, <3>1
  <2>3. CASE pc[r] # "respondPlain"
    <3>1. ASSUME r \in Exchanges PROVE \E t \in issued' : t.id = r
      <4>1. [id |-> r, secret |-> r] \in issued'
        BY <1>13, <2>3, <3>1 DEF WriteAccessToken
      <4> QED
        BY <4>1
    <3> QED
      BY <1>a, <2>1, <3>1
  <2> QED
    BY <2>2, <2>3
<1>14. ASSUME NEW v \in Revocations, RevokeRefresh(v) PROVE TokensAreHandedOut'
  <2>1. PICK S : Moved(v, S)
    BY <1>14, Moves DEF RevokeRefresh
  <2>2. issued' = issued
        /\ (refresh' = refresh \/ refresh' = [refresh EXCEPT ![id[v]] = None])
    BY <1>14 DEF RevokeRefresh, RemoveRef, Begin, DeleteRevoked, DeleteRefresh
  <2>3. \A e \in Exchanges : refresh'[e] # None => refresh[e] # None
    BY <2>2 DEF TypeOK
  <2> QED
    BY <1>a, <2>1, <2>2, <2>3
<1>15. CASE UNCHANGED vars \/ \E c \in Codes : GarbageCollect(c)
  BY <1>15 DEF vars, GarbageCollect, TokensAreHandedOut
<1> QED
  BY <1>1, <1>2, <1>3, <1>4, <1>5, <1>6, <1>7, <1>8, <1>9, <1>10, <1>11, <1>12, <1>13,
     <1>14, <1>15 DEF Next, HandleAuthCode, HandleRefreshToken

\* Whatever requests overlap, and on either kind of storage: as long as nothing
\* fails, a refresh token that is in storage was sent to its client or belongs to
\* an exchange that is running.
THEOREM NoTokenIsForgotten == Spec => []StoredTokensAreKnown
<1>1. Init => TokensAreHandedOut
  BY DEF Init, TokensAreHandedOut
<1>2. TokensAreHandedOut => StoredTokensAreKnown
  <2> SUFFICES ASSUME TokensAreHandedOut, faults = 0, NEW e \in Exchanges, refresh[e] # None
               PROVE  Running(e) \/ e \in {t.id : t \in issued}
    BY DEF StoredTokensAreKnown
  <2>1. pc[e] \in Holding => Running(e)
    BY DEF Holding, Guarded, Running, Finished
  <2> QED
    BY <2>1 DEF TokensAreHandedOut
<1> QED
  BY <1>1, <1>2, HandedOutInductive, Invariance, PTL DEF Spec

-----------------------------------------------------------------------------
\* One update at a time is between its read and its write, and the session
\* object does not change under it.
OneUpdateAtATime ==
    /\ \A q, r \in Requests : pc[q] = "commit" /\ pc[r] = "commit" => q = r
    /\ \A r \in Requests : pc[r] = "commit" =>
          session.exists /\ txn[r].rev = session.rev
    /\ \A v \in Revocations : pc[v] = "commit" => id[v] = session.refs[Client[v]]

\* The exchange that created token i for client c has stored the reference.
Referred(i, c) == i \in Exchanges /\ pc[i] \in {"respond", "ok"} /\ Client[i] = c

\* The session refers to tokens whose exchange is through with storage, and so
\* does a request that is to delete one.
ReferencesAreOwn ==
    /\ \A c \in Clients : session.refs[c] # None => Referred(session.refs[c], c)
    /\ \A e \in Exchanges : pc[e] \in {"deleteOld", "begin", "commit"} /\ id[e] # None =>
          Referred(id[e], Client[e])
    /\ \A e \in Exchanges : pc[e] = "deleteOld" => id[e] # None
    /\ \A v \in Revocations : pc[v] \in {"commit", "deleteRefresh"} =>
          Referred(id[v], Client[v])
    /\ \A v \in Revocations : pc[v] = "deleteRefresh" =>
          \A c \in Clients : session.refs[c] # id[v]

\* Nobody deletes a new refresh token before its exchange is through.
NewTokensAreStored == \A e \in Exchanges : pc[e] \in Guarded => refresh[e] # None

RInv ==
    /\ ReferencesResolve
    /\ serial /\ faults = 0 => OneUpdateAtATime /\ ReferencesAreOwn /\ NewTokensAreStored

\* Request r moves alone, and what it has stored a reference to stays so.
Alone(r) ==
    /\ \A q \in Requests : q # r => pc'[q] = pc[q]
    /\ pc[r] \in {"respond", "ok"} => pc'[r] \in {"respond", "ok"}

\* A request that moves alone takes no reference away from another one.
LEMMA ReferredStays ==
    ASSUME NEW r \in Requests, Alone(r), NEW i, NEW c, Referred(i, c)
    PROVE  Referred(i, c)'
<1>1. i \in Requests /\ pc'[i] \in {"respond", "ok"}
  BY Domains DEF Alone, Referred
<1> QED
  BY <1>1 DEF Referred

\* A step of request r that has no part in an update of the session: it deletes
\* no token that is referred to or new.
Aside(r) ==
    /\ Alone(r)
    /\ UNCHANGED <<session, txn>>
    /\ \A q \in Exchanges \cup Revocations : id'[q] = id[q]
    /\ pc'[r] \notin {"deleteOld", "commit", "deleteRefresh"}
    /\ r \in Exchanges => pc[r] \notin {"begin", "commit"} /\ pc'[r] # "begin"
    /\ r \in Exchanges /\ pc'[r] \in Guarded => refresh'[r] # None
    /\ \A e \in Exchanges : refresh[e] # None =>
          \/ refresh'[e] # None
          \/ pc'[e] \notin Guarded /\ \A c \in Clients : session.refs[c] # e

\* A request that does not update the session keeps the invariant.
LEMMA AsideKeeps ==
    ASSUME TypeOK, RInv, serial, faults = 0, NEW r \in Requests, Aside(r)
    PROVE  RInv'
<1> USE Domains
<1>a. OneUpdateAtATime /\ ReferencesAreOwn /\ NewTokensAreStored /\ ReferencesResolve
  BY DEF RInv
<1>b. \A q \in Requests : pc'[q] = pc[q] \/ q = r
  BY DEF Aside, Alone
<1>c. \A i, c : Referred(i, c) => Referred(i, c)'
  BY ReferredStays DEF Aside
<1>1. OneUpdateAtATime'
  <2>1. \A q \in Requests : pc'[q] = "commit" => pc[q] = "commit"
    BY <1>b DEF Aside
  <2> QED
    BY <1>a, <2>1 DEF Aside, OneUpdateAtATime
<1>2. ReferencesAreOwn'
  <2>1. \A q \in Requests : pc'[q] \in {"deleteOld", "commit", "deleteRefresh"} => pc'[q] = pc[q]
    BY <1>b DEF Aside
  <2>2. \A e \in Exchanges : pc'[e] = "begin" => pc'[e] = pc[e]
    BY <1>b DEF Aside
  <2>3. session' = session /\ \A q \in Exchanges \cup Revocations : id'[q] = id[q]
    BY DEF Aside
  <2>4. \A c \in Clients : session'.refs[c] # None => Referred(session.refs[c], c)'
    BY <1>a, <1>c, <2>3 DEF ReferencesAreOwn
  <2>5. \A e \in Exchanges : pc'[e] \in {"deleteOld", "begin", "commit"} /\ id'[e] # None =>
            Referred(id[e], Client[e])'
    BY <1>a, <1>c, <2>1, <2>2, <2>3 DEF ReferencesAreOwn
  <2>6. \A e \in Exchanges : pc'[e] = "deleteOld" => id'[e] # None
    BY <1>a, <2>1, <2>3 DEF ReferencesAreOwn
  <2>7. \A v \in Revocations : pc'[v] \in {"commit", "deleteRefresh"} =>
            Referred(id[v], Client[v])'
    BY <1>a, <1>c, <2>1, <2>3 DEF ReferencesAreOwn
  <2>8. \A v \in Revocations : pc'[v] = "deleteRefresh" =>
            \A c \in Clients : session'.refs[c] # id'[v]
    BY <1>a, <2>1, <2>3 DEF ReferencesAreOwn
  <2> QED
    BY <2>4, <2>5, <2>6, <2>7, <2>8 DEF ReferencesAreOwn
<1>3. NewTokensAreStored'
  BY <1>a, <1>b DEF Aside, NewTokensAreStored
<1>4. ReferencesResolve'
  <2> SUFFICES ASSUME NEW c \in Clients, session'.refs[c] # None
               PROVE  \/ refresh'[session'.refs[c]] # None
                      \/ \E e \in Exchanges : id'[e] = session'.refs[c] /\ pc'[e] \in {"begin", "commit"}
    BY DEF ReferencesResolve
  <2>1. session' = session
    BY DEF Aside
  <2>2. CASE refresh[session.refs[c]] # None
    <3>1. session.refs[c] \in Exchanges
      BY <1>a, <2>1 DEF ReferencesAreOwn, Referred
    <3> QED
      BY <2>1, <2>2, <3>1 DEF Aside
  <2>3. ASSUME NEW e \in Exchanges, id[e] = session.refs[c], pc[e] \in {"begin", "commit"}
        PROVE  id'[e] = session'.refs[c] /\ pc'[e] \in {"begin", "commit"}
    BY <1>b, <2>1, <2>3 DEF Aside
  <2> QED
    BY <1>a, <2>1, <2>2, <2>3 DEF ReferencesResolve
<1> QED
  BY <1>1, <1>2, <1>3, <1>4 DEF RInv

\* An exchange looks up the reference to its client's previous token.
LEMMA GetOfflineSessionsKeeps ==
    ASSUME TypeOK, RInv, serial, faults = 0, NEW d \in Exchanges, GetOfflineSessions(d)
    PROVE  RInv'
<1> USE Domains
<1>a. OneUpdateAtATime /\ ReferencesAreOwn /\ NewTokensAreStored /\ ReferencesResolve
  BY DEF RInv
<1>b. /\ UNCHANGED <<refresh, session, txn>>
      /\ pc[d] = "getSession" /\ id'[d] = session.refs[Client[d]]
      /\ pc'[d] \in {"createSession", "deleteOld", "begin"}
      /\ pc'[d] = "deleteOld" => session.refs[Client[d]] # None
      /\ \A q \in Requests : q # d => pc'[q] = pc[q] /\ id'[q] = id[q]
  BY DEF GetOfflineSessions, TypeOK
<1>c. \A i, c : Referred(i, c) => Referred(i, c)'
  BY <1>b, ReferredStays DEF Alone
<1>1. OneUpdateAtATime'
  BY <1>a, <1>b, SMT DEF OneUpdateAtATime
<1>2. ReferencesAreOwn'
  <2>4. \A c \in Clients : session'.refs[c] # None => Referred(session.refs[c], c)'
    BY <1>a, <1>b, <1>c DEF ReferencesAreOwn
  <2>5. \A e \in Exchanges : pc'[e] \in {"deleteOld", "begin", "commit"} /\ id'[e] # None =>
            Referred(id[e], Client[e])'
    BY <1>a, <1>b, <1>c DEF ReferencesAreOwn
  <2>6. \A e \in Exchanges : pc'[e] = "deleteOld" => id'[e] # None
    BY <1>a, <1>b DEF ReferencesAreOwn
  <2>7. \A v \in Revocations : pc'[v] \in {"commit", "deleteRefresh"} =>
            Referred(id[v], Client[v])'
    BY <1>a, <1>b, <1>c DEF ReferencesAreOwn
  <2>8. \A v \in Revocations : pc'[v] = "deleteRefresh" =>
            \A c \in Clients : session'.refs[c] # id'[v]
    BY <1>a, <1>b, SMT DEF ReferencesAreOwn
  <2> QED
    BY <2>4, <2>5, <2>6, <2>7, <2>8 DEF ReferencesAreOwn
<1>3. NewTokensAreStored'
  BY <1>a, <1>b DEF NewTokensAreStored, Guarded
<1>4. ReferencesResolve'
  <2>1. \A e \in Exchanges : pc[e] \in {"begin", "commit"} => pc'[e] = pc[e] /\ id'[e] = id[e]
    BY <1>b
  <2> QED
    BY <1>a, <1>b, <2>1, SMT DEF ReferencesResolve
<1> QED
  BY <1>1, <1>2, <1>3, <1>4 DEF RInv

\* An exchange that has deleted the previous token is the one to replace the
\* reference to it.
LEMMA DeleteOldKeeps ==
    ASSUME TypeOK, RInv, serial, faults = 0, NEW d \in Exchanges, pc[d] = "deleteOld",
           refresh' = [refresh EXCEPT ![id[d]] = None], pc' = [pc EXCEPT ![d] = "begin"],
           UNCHANGED <<session, txn, id>>
    PROVE  RInv'
<1> USE Domains
<1>a. OneUpdateAtATime /\ ReferencesAreOwn /\ NewTokensAreStored /\ ReferencesResolve
  BY DEF RInv
<1>b. pc'[d] = "begin" /\ \A q \in Requests : q # d => pc'[q] = pc[q]
  BY DEF TypeOK
<1>c. \A i, c : Referred(i, c) => Referred(i, c)'
  BY <1>b, ReferredStays DEF Alone
<1>d. Referred(id[d], Client[d])
  BY <1>a DEF ReferencesAreOwn
<1>e. \A e \in Exchanges : e # id[d] => refresh'[e] = refresh[e]
  BY DEF TypeOK
<1>1. OneUpdateAtATime'
  <2>1. \A q \in Requests : pc'[q] = "commit" => pc[q] = "commit"
    BY <1>b
  <2> QED
    BY <1>a, <2>1 DEF OneUpdateAtATime
<1>2. ReferencesAreOwn'
  <2>4. \A c \in Clients : session'.refs[c] # None => Referred(session.refs[c], c)'
    BY <1>a, <1>c DEF ReferencesAreOwn
  <2>5. \A e \in Exchanges : pc'[e] \in {"deleteOld", "begin", "commit"} /\ id'[e] # None =>
            Referred(id[e], Client[e])'
    BY <1>a, <1>b, <1>c DEF ReferencesAreOwn
  <2>6. \A e \in Exchanges : pc'[e] = "deleteOld" => id'[e] # None
    BY <1>a, <1>b DEF ReferencesAreOwn
  <2>7. \A v \in Revocations : pc'[v] \in {"commit", "deleteRefresh"} =>
            Referred(id[v], Client[v])'
    BY <1>a, <1>b, <1>c DEF ReferencesAreOwn
  <2>8. \A v \in Revocations : pc'[v] = "deleteRefresh" =>
            \A c \in Clients : session'.refs[c] # id'[v]
    BY <1>a, <1>b DEF ReferencesAreOwn
  <2> QED
    BY <2>4, <2>5, <2>6, <2>7, <2>8 DEF ReferencesAreOwn
<1>3. NewTokensAreStored'
  <2>1. \A e \in Exchanges : pc'[e] \in Guarded => pc[e] \in Guarded
    BY <1>b DEF Guarded
  <2>2. pc[id[d]] \notin Guarded
    BY <1>d DEF Referred, Guarded
  <2> QED
    BY <1>a, <1>e, <2>1, <2>2 DEF NewTokensAreStored
<1>4. ReferencesResolve'
  <2> SUFFICES ASSUME NEW c \in Clients, session.refs[c] # None
               PROVE  \/ refresh'[session.refs[c]] # None
                      \/ \E e \in Exchanges : id[e] = session.refs[c] /\ pc'[e] \in {"begin", "commit"}
    BY DEF ReferencesResolve
  <2>1. CASE session.refs[c] = id[d]
    BY <1>b, <2>1
  <2>2. CASE session.refs[c] # id[d]
    <3>1. session.refs[c] \in Exchanges
      BY <1>a DEF ReferencesAreOwn, Referred
    <3>2. refresh'[session.refs[c]] = refresh[session.refs[c]]
      BY <1>e, <2>2, <3>1
    <3>3. \A e \in Exchanges : pc[e] \in {"begin", "commit"} => pc'[e] = pc[e]
      BY <1>b
    <3> QED
      BY <1>a, <3>2, <3>3, SMT DEF ReferencesResolve
  <2> QED
    BY <2>1, <2>2
<1> QED
  BY <1>1, <1>2, <1>3, <1>4 DEF RInv

\* An update that begins is the only one.
LEMMA BeginKeeps ==
    ASSUME TypeOK, RInv, serial, faults = 0, session.exists,
           NEW r \in Requests, pc[r] \in {"idle", "begin"}, NEW newRefs, Begin(r, newRefs),
           \A q \in Requests : q # r => id'[q] = id[q],
           r \in Exchanges => pc[r] = "begin" /\ id'[r] = id[r],
           r \in Revocations => id'[r] = Ref(r) /\ Ref(r) # None
    PROVE  RInv'
<1> USE Domains
<1>a. OneUpdateAtATime /\ ReferencesAreOwn /\ NewTokensAreStored /\ ReferencesResolve
  BY DEF RInv
<1>b. /\ UNCHANGED <<refresh, session>>
      /\ pc'[r] = "commit" /\ txn'[r].rev = session.rev
      /\ \A q \in Requests : pc[q] # "commit"
      /\ \A q \in Requests : q # r => pc'[q] = pc[q]
  BY DEF Begin, TypeOK
<1>c. \A i, c : Referred(i, c) => Referred(i, c)'
  BY <1>b, ReferredStays DEF Alone
<1>1. OneUpdateAtATime'
  BY <1>b, SMT DEF OneUpdateAtATime, Ref
<1>2. ReferencesAreOwn'
  <2>1. \A c \in Clients : session'.refs[c] # None => Referred(session.refs[c], c)'
    BY <1>a, <1>b, <1>c DEF ReferencesAreOwn
  <2>2. \A e \in Exchanges : pc'[e] \in {"deleteOld", "begin", "commit"} /\ id'[e] # None =>
            Referred(id[e], Client[e])'
    BY <1>a, <1>b, <1>c DEF ReferencesAreOwn
  <2>3. \A e \in Exchanges : pc'[e] = "deleteOld" => id'[e] # None
    BY <1>a, <1>b DEF ReferencesAreOwn
  <2>4. \A v \in Revocations : pc'[v] \in {"commit", "deleteRefresh"} =>
            Referred(id[v], Client[v])'
    BY <1>a, <1>b, <1>c, SMT DEF ReferencesAreOwn, Ref
  <2>5. \A v \in Revocations : pc'[v] = "deleteRefresh" =>
            \A c \in Clients : session'.refs[c] # id'[v]
    BY <1>a, <1>b, SMT DEF ReferencesAreOwn
  <2> QED
    BY <2>1, <2>2, <2>3, <2>4, <2>5 DEF ReferencesAreOwn
<1>3. NewTokensAreStored'
  BY <1>a, <1>b DEF NewTokensAreStored, Guarded
<1>4. ReferencesResolve'
  <2>1. \A e \in Exchanges : pc[e] \in {"begin", "commit"} =>
            pc'[e] \in {"begin", "commit"} /\ id'[e] = id[e]
    BY <1>b
  <2> QED
    BY <1>a, <1>b, <2>1, SMT DEF ReferencesResolve
<1> QED
  BY <1>1, <1>2, <1>3, <1>4 DEF RInv

\* Request r writes the session object, no other update being under way.
Stores(r) ==
    /\ pc[r] \in {"commit", "createSession"}
    /\ \A q \in Requests : q # r => pc[q] # "commit" /\ pc'[q] = pc[q]
    /\ UNCHANGED <<refresh, id>>
    /\ \/ /\ r \in Exchanges
          /\ pc'[r] = "respond"
          /\ session'.refs = [session.refs EXCEPT ![Client[r]] = r]
       \/ r \in Refreshes /\ pc'[r] = "updateRefresh" /\ session'.refs = session.refs
       \/ /\ r \in Revocations
          /\ pc'[r] = "deleteRefresh"
          /\ pc[r] = "commit"
          /\ session'.refs = [session.refs EXCEPT ![Client[r]] = None]

\* An exchange puts in the reference to its token, which is stored; a revocation
\* takes out the reference to the token it will delete.
LEMMA StoresKeeps ==
    ASSUME TypeOK, RInv, serial, faults = 0, NEW r \in Requests, Stores(r)
    PROVE  RInv'
<1> USE Domains
<1>a. OneUpdateAtATime /\ ReferencesAreOwn /\ NewTokensAreStored /\ ReferencesResolve
  BY DEF RInv
<1>b. pc'[r] \notin {"commit", "deleteOld", "begin"} /\ pc[r] \in Guarded
  BY DEF Stores, Guarded
<1>c. \A i, c : Referred(i, c) => Referred(i, c)' /\ i # r
  BY <1>b, ReferredStays DEF Alone, Stores, Referred
<1>d. \A q \in Requests : q # r => pc'[q] = pc[q] /\ pc[q] # "commit"
  BY DEF Stores
<1>e. UNCHANGED <<refresh, id>>
  BY DEF Stores
<1>f. session.refs \in [Clients -> RefreshID]
  BY SessionType DEF Refs
<1>g. \A c \in Clients :
          \/ session'.refs[c] = session.refs[c]
          \/ session'.refs[c] = None /\ c = Client[r]
          \/ session'.refs[c] = r /\ c = Client[r] /\ r \in Exchanges /\ pc'[r] = "respond"
  BY <1>f DEF Stores
<1>1. OneUpdateAtATime'
  BY <1>b, <1>d DEF OneUpdateAtATime
<1>2. ReferencesAreOwn'
  <2>1. \A c \in Clients : session'.refs[c] # None => Referred(session.refs[c], c)'
    <3>1. r \in Exchanges /\ pc'[r] = "respond" => Referred(r, Client[r])'
      BY DEF Referred
    <3>2. \A c \in Clients : session.refs[c] # None => Referred(session.refs[c], c)
      BY <1>a DEF ReferencesAreOwn
    <3> SUFFICES ASSUME NEW c \in Clients, session'.refs[c] # None
                 PROVE  Referred(session.refs[c], c)'
      OBVIOUS
    <3>3. CASE session'.refs[c] = session.refs[c]
      <4>1. Referred(session.refs[c], c)
        BY <3>2, <3>3
      <4> QED
        BY <1>c, <3>3, <4>1 DEF Referred
    <3>4. CASE session'.refs[c] # session.refs[c]
      BY <1>g, <3>1, <3>4 DEF Referred
    <3> QED
      BY <3>3, <3>4
  <2>2. \A e \in Exchanges : pc'[e] \in {"deleteOld", "begin", "commit"} /\ id'[e] # None =>
            Referred(id[e], Client[e])'
    BY <1>a, <1>b, <1>c, <1>d, <1>e DEF ReferencesAreOwn
  <2>3. \A e \in Exchanges : pc'[e] = "deleteOld" => id'[e] # None
    BY <1>a, <1>b, <1>d, <1>e DEF ReferencesAreOwn
  <2>4. \A v \in Revocations : pc'[v] \in {"commit", "deleteRefresh"} => Referred(id[v], Client[v])
    <3>1. r \in Revocations => pc[r] = "commit"
      BY DEF Stores
    <3> QED
      BY <1>a, <1>d, <3>1 DEF ReferencesAreOwn
  <2>5. \A v \in Revocations : pc'[v] = "deleteRefresh" =>
            \A c \in Clients : session'.refs[c] # id'[v]
    <3> SUFFICES ASSUME NEW v \in Revocations, pc'[v] = "deleteRefresh", NEW c \in Clients
                 PROVE  session'.refs[c] # id[v]
      BY <1>e
    <3>1. Referred(id[v], Client[v]) /\ id[v] # r /\ id[v] # None
      BY <1>c, <2>4 DEF Referred
    <3>2. CASE v = r
      <4>1. pc[r] = "commit" /\ session'.refs = [session.refs EXCEPT ![Client[r]] = None]
        BY <3>2 DEF Stores
      <4>2. CASE c = Client[r]
        BY <1>f, <3>1, <4>1, <4>2
      <4>3. CASE c # Client[r]
        <5>1. session'.refs[c] = session.refs[c]
          BY <1>f, <4>1, <4>3
        <5>2. session.refs[c] # None => Client[session.refs[c]] = c
          BY <1>a DEF ReferencesAreOwn, Referred
        <5> QED
          BY <3>1, <3>2, <4>3, <5>1, <5>2 DEF Referred
      <4> QED
        BY <4>2, <4>3
    <3>3. CASE v # r
      <4>1. session.refs[c] # id[v]
        BY <1>a, <1>d, <3>3 DEF ReferencesAreOwn
      <4> QED
        BY <1>g, <3>1, <4>1
    <3> QED
      BY <3>2, <3>3
  <2>6. \A v \in Revocations : pc'[v] \in {"commit", "deleteRefresh"} => Referred(id[v], Client[v])'
    BY <1>c, <1>e, <2>4
  <2> QED
    BY <2>1, <2>2, <2>3, <2>5, <2>6 DEF ReferencesAreOwn
<1>3. NewTokensAreStored'
  BY <1>a, <1>b, <1>d, <1>e DEF NewTokensAreStored
<1>4. ReferencesResolve'
  <2> SUFFICES ASSUME NEW c \in Clients, session'.refs[c] # None
               PROVE  \/ refresh[session'.refs[c]] # None
                      \/ \E e \in Exchanges : id[e] = session'.refs[c] /\ pc'[e] \in {"begin", "commit"}
    BY <1>e DEF ReferencesResolve
  <2>1. CASE session'.refs[c] = r /\ r \in Exchanges
    BY <1>a, <1>b, <2>1 DEF NewTokensAreStored
  <2>2. CASE session'.refs[c] = session.refs[c] /\ (c # Client[r] \/ r \notin Exchanges)
    <3>1. Referred(session.refs[c], c)
      BY <1>a, <2>2 DEF ReferencesAreOwn
    <3>2. ASSUME NEW e \in Exchanges, id[e] = session.refs[c], pc[e] \in {"begin", "commit"}
          PROVE  e # r
      BY <1>a, <2>2, <3>1, <3>2, SMT DEF ReferencesAreOwn, Referred
    <3> QED
      BY <1>a, <1>d, <2>2, <3>2, SMT DEF ReferencesResolve
  <2>3. c = Client[r] /\ r \in Exchanges => session'.refs[c] = r
    BY <1>f DEF Stores
  <2> QED
    BY <1>g, <2>1, <2>2, <2>3
<1> QED
  BY <1>1, <1>2, <1>3, <1>4 DEF RInv

\* A token that is deleted, other than the previous one of a login, is neither
\* new nor referred to.
LEMMA DeleteAside ==
    ASSUME TypeOK, NEW r \in Requests, NEW i \in Exchanges, NEW next \in Steps, faults' = 0,
           DeleteRefresh(r, i, next), pc[r] \notin {"begin", "commit", "respond", "ok"},
           next \notin {"deleteOld", "commit", "deleteRefresh", "begin"}, next \notin Guarded,
           pc[i] \notin Guarded, pc[r] \notin Guarded, \A c \in Clients : session.refs[c] # i
    PROVE  Aside(r)
<1> USE Domains
<1>1. UNCHANGED <<session, txn, id>>
  BY DEF DeleteRefresh
<1>2. \A e \in Exchanges : e # i => refresh'[e] = refresh[e]
  BY DEF DeleteRefresh, TypeOK
<1>3. OnError(r) = "failed"
  BY DEF OnError
<1>4. pc' = [pc EXCEPT ![r] = next] \/ pc' = [pc EXCEPT ![r] = "failed"]
  BY <1>3, Undisturbed DEF DeleteRefresh, Fail
<1>5. pc'[r] \in {next, "failed"} /\ \A q \in Requests : q # r => pc'[q] = pc[q]
  BY <1>4 DEF TypeOK
<1>6. pc'[r] \notin Guarded /\ pc'[i] \notin Guarded
  BY <1>5 DEF Guarded
<1>7. Alone(r)
  BY <1>5 DEF Alone
<1> QED
  BY <1>1, <1>2, <1>5, <1>6, <1>7 DEF Aside

\* A storage runs its updates in one way.
LEMMA ModeStays == [Next]_vars => serial' = serial
  BY DEF Next, vars, HandleAuthCode, HandleRefreshToken, RevokeRefresh, Refuse, StorageError,
         Crash, Commit, GetAuthCode, DeleteAuthCode, ConnectorError, CreateRefresh,
         GetOfflineSessions, CreateOfflineSessions, DeleteOldRefresh, DeleteRefresh,
         UpdateSession, Begin, DeleteNewRefresh, GetRefresh, UpdateLastUsed,
         UpdateRefreshToken, WriteAccessToken, RemoveRef, DeleteRevoked, GarbageCollect

\* Every step keeps the references in order.
LEMMA ResolveInductive == IInv /\ RInv /\ [Next]_vars => RInv'
<1>0. ~(serial' /\ faults' = 0) => RInv'
  BY DEF RInv, ReferencesResolve
<1> SUFFICES ASSUME TypeOK, ClaimedSecretsAreGone, TransactionsAreCurrent, RInv, [Next]_vars,
                    serial, serial', faults = 0, faults' = 0
             PROVE  RInv'
  BY <1>0, FaultsCount, ModeStays DEF IInv
<1> USE Domains
<1>a. OneUpdateAtATime /\ ReferencesAreOwn /\ NewTokensAreStored /\ ReferencesResolve
  BY DEF RInv
<1>b. ASSUME NEW r \in Requests, NEW S, Moved(r, S), UNCHANGED <<session, txn>>,
             \A q \in Exchanges \cup Revocations : id'[q] = id[q],
             \A e \in Exchanges : refresh[e] # None => refresh'[e] # None,
             pc[r] \notin {"respond", "ok"} \/ pc'[r] = "ok",
             pc'[r] \notin {"deleteOld", "commit", "deleteRefresh"},
             r \in Exchanges => pc[r] \notin {"begin", "commit"} /\ pc'[r] # "begin",
             r \in Exchanges /\ pc'[r] \in Guarded => refresh'[r] # None
      PROVE  RInv'
  <2>1. Alone(r)
    BY <1>b DEF Moved, Alone
  <2>2. Aside(r)
    BY <1>b, <2>1 DEF Aside
  <2> QED
    BY <2>2, AsideKeeps
<1>1. ASSUME NEW r \in Requests, Refuse(r) PROVE RInv'
  <2>1. Moved(r, {}) /\ UNCHANGED <<session, txn, id, refresh>> /\ pc[r] = "idle"
    BY <1>1, Moves DEF Refuse
  <2>2. pc'[r] = "failed"
    BY <2>1 DEF Moved, Guarded
  <2> QED
    BY <1>b, <2>1, <2>2 DEF Guarded
<1>2. ASSUME NEW r \in Requests, Commit(r) PROVE RInv'
  <2>1. pc[r] = "commit" /\ UNCHANGED <<refresh, id>>
    BY <1>2 DEF Commit
  <2>2. txn[r].rev = session.rev /\ \A q \in Requests : q # r => pc[q] # "commit"
    BY <1>a, <2>1 DEF OneUpdateAtATime
  <2>3. /\ session' = [session EXCEPT !.refs = txn[r].refs, !.rev = @ + 1]
        /\ pc' = [pc EXCEPT ![r] = AfterCommit(r)]
    BY <1>2, <2>2, Undisturbed DEF Commit
  <2>4. pc'[r] = AfterCommit(r) /\ \A q \in Requests : q # r => pc'[q] = pc[q]
    BY <2>3 DEF TypeOK
  <2>5. session'.refs = txn[r].refs
    BY <2>3, SessionType DEF Session
  <2>6. txn[r].refs = Updated(r, session.refs)
    BY <2>1, <2>2 DEF TransactionsAreCurrent
  <2>7. Stores(r)
    <3>1. CASE r \in Exchanges
      BY <2>1, <2>2, <2>4, <2>5, <2>6, <3>1 DEF Updated, AfterCommit, Stores
    <3>2. CASE r \in Refreshes
      BY <2>1, <2>2, <2>4, <2>5, <2>6, <3>2 DEF Updated, AfterCommit, Stores
    <3>3. CASE r \in Revocations
      BY <2>1, <2>2, <2>4, <2>5, <2>6, <3>3 DEF Updated, AfterCommit, Stores
    <3> QED
      BY <3>1, <3>2, <3>3 DEF Requests
  <2> QED
    BY <2>7, StoresKeeps
<1>3. ASSUME NEW r \in Requests, StorageError(r) \/ Crash(r) PROVE RInv'
  BY <1>3, Undisturbed
<1>4. ASSUME NEW e \in Exchanges, GetAuthCode(e) \/ DeleteAuthCode(e) PROVE RInv'
  <2>1. Moved(e, {"deleteCode", "createRefresh", "respondPlain"})
    BY <1>4, Moves DEF Moved
  <2>2. UNCHANGED <<session, txn, id, refresh>> /\ pc[e] \in {"idle", "deleteCode"}
    BY <1>4 DEF GetAuthCode, DeleteAuthCode
  <2>3. pc'[e] \in {"deleteCode", "createRefresh", "respondPlain", "failed"}
    BY <2>1, <2>2 DEF Moved, Guarded
  <2> QED
    BY <1>b, <2>1, <2>2, <2>3 DEF Guarded
<1>5. ASSUME NEW e \in Exchanges, ConnectorError(e) PROVE RInv'
  BY <1>5, Undisturbed
<1>6. ASSUME NEW e \in Exchanges, CreateRefresh(e) PROVE RInv'
  <2>1. Moved(e, {"getSession"}) /\ UNCHANGED <<session, txn, id>> /\ pc[e] = "createRefresh"
    BY <1>6, Moves DEF CreateRefresh
  <2>2. pc'[e] \in {"getSession", "failed"}
    BY <2>1 DEF Moved, Guarded
  <2>3. refresh'[e] # None /\ \A d \in Exchanges : refresh[d] # None => refresh'[d] # None
    BY <1>6 DEF CreateRefresh, TypeOK
  <2> QED
    BY <1>b, <2>1, <2>2, <2>3
<1>7. ASSUME NEW e \in Exchanges, GetOfflineSessions(e) PROVE RInv'
  BY <1>7, GetOfflineSessionsKeeps
<1>8. ASSUME NEW e \in Exchanges, CreateOfflineSessions(e) PROVE RInv'
  <2>1. Moved(e, {"respond"}) /\ pc[e] = "createSession" /\ UNCHANGED <<refresh, id, txn>>
    BY <1>8, Moves DEF CreateOfflineSessions
  <2>2. CASE session.exists
    <3>1. pc'[e] = "cleanup" /\ session' = session
      BY <1>8, <2>1, <2>2 DEF CreateOfflineSessions, Fail, OnError, Guarded, TypeOK
    <3> QED
      BY <1>b, <2>1, <3>1 DEF Guarded
  <2>3. CASE ~session.exists
    <3>1. session' = [exists |-> TRUE, rev |-> session.rev + 1,
                      refs |-> [NoRefs EXCEPT ![Client[e]] = e]]
      BY <1>8, <2>3 DEF CreateOfflineSessions
    <3>2. session'.refs = [session.refs EXCEPT ![Client[e]] = e]
      BY <2>3, <3>1 DEF TransactionsAreCurrent
    <3>3. pc'[e] = "respond"
      BY <1>8, <2>3, Undisturbed, SMT DEF CreateOfflineSessions, TypeOK
    <3>4. \A q \in Requests : q # e => pc[q] # "commit" /\ pc'[q] = pc[q]
      BY <1>a, <2>1, <2>3 DEF OneUpdateAtATime, Moved
    <3>5. Stores(e)
      BY <2>1, <3>2, <3>3, <3>4 DEF Stores
    <3> QED
      BY <3>5, StoresKeeps
  <2> QED
    BY <2>2, <2>3
<1>9. ASSUME NEW e \in Exchanges, DeleteOldRefresh(e) PROVE RInv'
  <2>1. Moved(e, {"begin"}) /\ pc[e] = "deleteOld" /\ UNCHANGED <<session, txn, id>>
    BY <1>9, Moves DEF DeleteOldRefresh, DeleteRefresh
  <2>2. CASE refresh[id[e]] # None
    <3>1. refresh' = [refresh EXCEPT ![id[e]] = None] /\ pc' = [pc EXCEPT ![e] = "begin"]
      BY <1>9, <2>2, Undisturbed DEF DeleteOldRefresh, DeleteRefresh
    <3> QED
      BY <2>1, <3>1, DeleteOldKeeps
  <2>3. CASE refresh[id[e]] = None
    <3>1. pc'[e] = "cleanup" /\ refresh' = refresh
      BY <1>9, <2>1, <2>3 DEF DeleteOldRefresh, DeleteRefresh, Fail, OnError, Guarded, TypeOK
    <3> QED
      BY <1>b, <2>1, <3>1 DEF Guarded
  <2> QED
    BY <2>2, <2>3
<1>10. ASSUME NEW e \in Exchanges, UpdateSession(e) PROVE RInv'
  <2>1. session.exists
    BY <1>10 DEF UpdateSession, TransactionsAreCurrent
  <2>2. e \notin Revocations
    OBVIOUS
  <2>3. pc[e] = "begin" /\ id' = id
    BY <1>10 DEF UpdateSession
  <2>4. Begin(e, [session.refs EXCEPT ![Client[e]] = e])
    BY <1>10 DEF UpdateSession
  <2> QED
    BY <2>1, <2>2, <2>3, <2>4, BeginKeeps
<1>11. ASSUME NEW e \in Exchanges, DeleteNewRefresh(e) PROVE RInv'
  <2>1. pc[e] = "cleanup" /\ DeleteRefresh(e, e, "failed")
    BY <1>11 DEF DeleteNewRefresh
  <2>2. \A c \in Clients : session.refs[c] # e
    BY <1>a, <2>1 DEF ReferencesAreOwn, Referred
  <2>3. "failed" \in Steps /\ "failed" \notin Guarded /\ pc[e] \notin Guarded
    BY <2>1 DEF Steps, Finished, Guarded
  <2>4. Aside(e)
    BY <2>1, <2>2, <2>3, DeleteAside
  <2> QED
    BY <2>4, AsideKeeps
<1>12. ASSUME NEW f \in Refreshes, NEW t \in issued, GetRefresh(f, t) PROVE RInv'
  <2>1. Moved(f, {"begin"}) /\ pc[f] = "idle" /\ UNCHANGED <<session, txn, refresh>>
    BY <1>12, Moves DEF GetRefresh
  <2>2. pc'[f] \in {"begin", "failed"}
    BY <2>1 DEF Moved
  <2>3. \A q \in Requests : q # f => id'[q] = id[q]
    BY <1>12 DEF GetRefresh, TypeOK
  <2> QED
    BY <1>b, <2>1, <2>2, <2>3
<1>13. ASSUME NEW f \in Refreshes, UpdateLastUsed(f) PROVE RInv'
  <2>1. pc[f] = "begin" /\ id' = id
    BY <1>13 DEF UpdateLastUsed
  <2>2. CASE Ref(f) = id[f]
    <3>1. id[f] # None
      BY <2>1 DEF ClaimedSecretsAreGone
    <3>2. session.exists
      BY <2>2, <3>1 DEF TransactionsAreCurrent, NoRefs, Ref
    <3>3. Begin(f, session.refs)
      BY <1>13, <2>2 DEF UpdateLastUsed
    <3> QED
      BY <2>1, <3>2, <3>3, BeginKeeps
  <2>3. CASE Ref(f) # id[f]
    <3>1. pc'[f] \in {"panic", "failed"} /\ UNCHANGED <<session, txn, refresh>>
      BY <1>13, <2>3 DEF UpdateLastUsed, TypeOK
    <3>2. Moved(f, {"commit", "panic"})
      BY <1>13, Moves
    <3> QED
      BY <1>b, <2>1, <3>1, <3>2
  <2> QED
    BY <2>2, <2>3
<1>14. ASSUME NEW f \in Refreshes, UpdateRefreshToken(f) PROVE RInv'
  <2>1. Moved(f, {"respond"}) /\ pc[f] = "updateRefresh" /\ UNCHANGED <<session, txn, id>>
    BY <1>14, Moves DEF UpdateRefreshToken
  <2>2. pc'[f] \in {"respond", "failed"}
    BY <2>1 DEF Moved
  <2>3. \A e \in Exchanges : refresh[e] # None => refresh'[e] # None
    BY <1>14 DEF UpdateRefreshToken, TypeOK
  <2> QED
    BY <1>b, <2>1, <2>2, <2>3
<1>15. ASSUME NEW r \in Exchanges \cup Refreshes, WriteAccessToken(r) PROVE RInv'
  <2>1. Moved(r, {"ok"}) /\ UNCHANGED <<session, txn, id, refresh>>
    BY <1>15, Moves DEF WriteAccessToken
  <2>2. pc[r] \in {"respond", "respondPlain"} /\ pc'[r] = "ok"
    BY <1>15 DEF WriteAccessToken, TypeOK
  <2> QED
    BY <1>b, <2>1, <2>2 DEF Guarded
<1>16. ASSUME NEW v \in Revocations, RemoveRef(v) PROVE RInv'
  <2>1. session.exists /\ pc[v] = "idle" /\ Ref(v) # None
    BY <1>16 DEF RemoveRef
  <2>2. id'[v] = Ref(v) /\ \A q \in Requests : q # v => id'[q] = id[q]
    BY <1>16 DEF RemoveRef, TypeOK
  <2>3. Begin(v, [session.refs EXCEPT ![Client[v]] = None])
    BY <1>16 DEF RemoveRef
  <2> QED
    BY <2>1, <2>2, <2>3, BeginKeeps
<1>17. ASSUME NEW v \in Revocations, DeleteRevoked(v) PROVE RInv'
  <2>1. pc[v] = "deleteRefresh" /\ DeleteRefresh(v, id[v], "ok")
    BY <1>17 DEF DeleteRevoked
  <2>2. Referred(id[v], Client[v]) /\ \A c \in Clients : session.refs[c] # id[v]
    BY <1>a, <2>1 DEF ReferencesAreOwn
  <2>3. "ok" \in Steps /\ "ok" \notin Guarded /\ pc[v] \notin Guarded
    BY <2>1 DEF Steps, Finished, Guarded
  <2>4. id[v] \in Exchanges /\ pc[id[v]] \notin Guarded
    BY <2>2 DEF Referred, Guarded
  <2>5. Aside(v)
    BY <2>1, <2>2, <2>3, <2>4, DeleteAside
  <2> QED
    BY <2>5, AsideKeeps
<1>18. CASE UNCHANGED vars \/ \E c \in Codes : GarbageCollect(c)
  <2>1. UNCHANGED <<refresh, session, pc, id, txn, faults>>
    BY <1>18 DEF vars, GarbageCollect
  <2> QED
    BY <2>1, SMT DEF RInv, ReferencesResolve, OneUpdateAtATime, ReferencesAreOwn, Referred,
       NewTokensAreStored
<1> QED
  BY <1>1, <1>2, <1>3, <1>4, <1>5, <1>6, <1>7, <1>8, <1>9, <1>10, <1>11, <1>12, <1>13,
     <1>14, <1>15, <1>16, <1>17, <1>18 DEF Next, HandleAuthCode, HandleRefreshToken,
     RevokeRefresh

\* On memory and sqlite3, whatever logins, refreshes and revocations overlap: as
\* long as nothing fails, the session never refers to a refresh token that is
\* gone, except until the request that deleted it replaces the reference.
THEOREM ReferencesAlwaysResolve == Spec => []ReferencesResolve
<1>1. Init => RInv
  <2> SUFFICES ASSUME Init PROVE RInv
    OBVIOUS
  <2>1. \A r \in Requests : pc[r] \in {"idle", "failed"}
    BY DEF Init
  <2>2. \A c \in Clients : session.refs[c] = None
    BY DEF Init, NoRefs
  <2> QED
    BY <2>1, <2>2, Domains DEF RInv, ReferencesResolve, OneUpdateAtATime, ReferencesAreOwn,
       NewTokensAreStored, Guarded
<1>2. RInv => ReferencesResolve
  BY DEF RInv
<1> QED
  BY <1>1, <1>2, ResolveInductive, Invariance, PTL DEF Spec

-----------------------------------------------------------------------------
(* One refresh token per client, if its logins do not overlap.             *)

\* Why the refresh token of exchange e is in storage: the session refers to it,
\* its exchange is not through, or it is being revoked.
Justified(e) ==
    \/ session.refs[Client[e]] = e
    \/ pc[e] \in Guarded \cup {"cleanup"}
    \/ \E v \in Revocations : pc[v] = "deleteRefresh" /\ id[v] = e

\* The steps at which an exchange knows the token of the previous login.
Replacing == {"deleteOld", "begin", "commit"}

\* Exchange e has read the client's reference, which nobody but a revocation has
\* changed since; what it led to is gone before e writes its own.
Replaces(e) ==
    /\ session.refs[Client[e]] \in {id[e], None}
    /\ id[e] # None => Referred(id[e], Client[e])
    /\ id[e] # None /\ pc[e] # "deleteOld" => refresh[id[e]] = None

\* A revocation that will be accepted removes the reference it has looked up.
Revokes(v) ==
    pc[v] = "commit" /\ txn[v].rev = session.rev => id[v] = session.refs[Client[v]]

TInv ==
    /\ \A e \in Exchanges : refresh[e] # None => Justified(e)
    /\ \A c \in Clients : session.refs[c] # None => Referred(session.refs[c], c)
    /\ \A e \in Exchanges : pc[e] \in Replacing => Replaces(e)
    /\ \A v \in Revocations : Revokes(v)

\* A step of request r that leaves the session alone, creates no token but r's
\* own, and keeps to what is said of r.
Besides(r) ==
    /\ Alone(r) /\ session' = session
    /\ \A q \in Requests : q # r => id'[q] = id[q] /\ txn'[q] = txn[q]
    /\ \A e \in Exchanges : refresh'[e] # None => refresh[e] # None \/ pc[e] = "createRefresh"
    /\ \A e \in Exchanges \ {r} : refresh'[e] # None => refresh[e] # None
    /\ r \in Exchanges =>
          /\ refresh'[r] # None => Justified(r)' \/ pc[r] \notin Guarded \cup {"cleanup"}
          /\ refresh'[r] # None /\ refresh[r] = None => Justified(r)'
          /\ pc'[r] \in Replacing => Replaces(r)'
    /\ r \in Revocations =>
          /\ pc[r] = "deleteRefresh" /\ id[r] \in Exchanges => refresh'[id[r]] = None
          /\ Revokes(r)'

\* Such a step keeps every other token justified.
LEMMA BesidesKeeps ==
    ASSUME TypeOK, TInv, NEW r \in Requests, Besides(r)
    PROVE  TInv'
<1> USE Domains
<1>a. \A i, c : Referred(i, c) => Referred(i, c)'
  BY ReferredStays DEF Besides
<1>b. \A q \in Requests : q # r => pc'[q] = pc[q] /\ id'[q] = id[q] /\ txn'[q] = txn[q]
  BY DEF Besides, Alone
<1>1. ASSUME NEW e \in Exchanges, refresh'[e] # None PROVE Justified(e)'
  <2>1. CASE session.refs[Client[e]] = e
    BY <2>1 DEF Besides, Justified
  <2>2. CASE e = r /\ (refresh[e] = None \/ pc[e] \in Guarded \cup {"cleanup"})
    BY <1>1, <2>2 DEF Besides
  <2>3. CASE e # r /\ pc[e] \in Guarded \cup {"cleanup"}
    BY <1>b, <2>3 DEF Justified
  <2>4. ASSUME NEW v \in Revocations, pc[v] = "deleteRefresh", id[v] = e
        PROVE  Justified(e)'
    <3>1. v # r
      BY <1>1, <2>4 DEF Besides
    <3> QED
      BY <1>b, <2>4, <3>1 DEF Justified
  <2>5. refresh[e] # None => Justified(e)
    BY DEF TInv
  <2>6. e # r => refresh[e] # None
    BY <1>1 DEF Besides
  <2> QED
    BY <2>1, <2>2, <2>3, <2>4, <2>5, <2>6 DEF Justified
<1>2. (\A c \in Clients : session.refs[c] # None => Referred(session.refs[c], c))'
  <2>1. ASSUME NEW c \in Clients, session'.refs[c] # None
        PROVE  Referred(session.refs[c], c)'
    BY <1>a, <2>1 DEF Besides, TInv, Referred
  <2> QED
    BY <2>1
<1>3. ASSUME NEW e \in Exchanges, pc'[e] \in Replacing PROVE Replaces(e)'
  <2>1. CASE e = r
    BY <1>3, <2>1 DEF Besides
  <2>2. CASE e # r
    <3>1. Replaces(e) /\ pc'[e] = pc[e] /\ id'[e] = id[e]
      BY <1>b, <1>3, <2>2 DEF TInv
    <3>2. id[e] # None => Referred(id[e], Client[e])'
      BY <1>a, <3>1 DEF Replaces
    <3>3. id[e] # None /\ pc[e] # "deleteOld" => refresh'[id[e]] = None
      BY <3>1 DEF Replaces, Referred, Besides
    <3> QED
      BY <3>1, <3>2, <3>3 DEF Replaces, Besides, Referred
  <2> QED
    BY <2>1, <2>2
<1>4. ASSUME NEW v \in Revocations PROVE Revokes(v)'
  <2>1. CASE v = r
    BY <2>1 DEF Besides
  <2>2. CASE v # r
    <3>1. pc'[v] = pc[v] /\ id'[v] = id[v] /\ txn'[v] = txn[v]
      BY <1>b, <2>2
    <3>2. session' = session
      BY DEF Besides
    <3>3. Revokes(v)
      BY DEF TInv
    <3> QED
      BY <3>1, <3>2, <3>3 DEF Revokes
  <2> QED
    BY <2>1, <2>2
<1> QED
  BY <1>1, <1>2, <1>3, <1>4 DEF TInv

\* Request r writes the session, and is through with it.
WritesThrough(r) ==
    /\ Writes(r) /\ UNCHANGED refresh
    /\ session'.rev = session.rev + 1
    /\ r \in Exchanges => session'.refs = [session.refs EXCEPT ![Client[r]] = r]
    /\ r \in Exchanges => pc'[r] = "respond"
    /\ r \in Refreshes => session'.refs = session.refs
    /\ r \in Revocations =>
          /\ session'.refs = [session.refs EXCEPT ![Client[r]] = None]
          /\ pc[r] = "commit" /\ txn[r].rev = session.rev
          /\ pc'[r] = "deleteRefresh"
    /\ pc[r] = "createSession" => session.refs = NoRefs
    /\ \A q \in Requests : q # r => txn'[q] = txn[q]

\* A login takes the place of one whose token is gone, and a revocation goes on
\* to delete the token whose reference it has removed.
LEMMA WriteKeeps ==
    ASSUME IInv, TInv, Apart, NEW r \in Requests, WritesThrough(r)
    PROVE  TInv'
<1> USE Domains
<1>a. /\ \A q \in Requests : q # r => pc'[q] = pc[q] /\ txn'[q] = txn[q]
      /\ pc[r] \in {"commit", "createSession"} /\ id' = id /\ refresh' = refresh
  BY DEF WritesThrough, Writes
<1>b. Alone(r)
  BY <1>a DEF Alone
<1>c. \A i, c : Referred(i, c) => Referred(i, c)'
  BY <1>b, ReferredStays
<1>d. session.refs \in Refs /\ session.rev \in Nat /\ Client[r] \in Clients
  BY SessionType DEF IInv
<1>e. \A c \in Clients : c # Client[r] => session'.refs[c] = session.refs[c]
  BY <1>d DEF WritesThrough, Writes, Refs
<1>f. session'.refs[Client[r]] =
         IF r \in Exchanges THEN r
         ELSE IF r \in Refreshes THEN session.refs[Client[r]] ELSE None
  BY <1>d DEF WritesThrough, Refs, Requests
<1>1. ASSUME NEW e \in Exchanges, refresh'[e] # None PROVE Justified(e)'
  <2>1. CASE e = r
    BY <1>f, <2>1 DEF Justified
  <2>2. CASE e # r /\ pc[e] \in Guarded \cup {"cleanup"}
    BY <1>a, <2>2 DEF Justified
  <2>3. ASSUME e # r, NEW v \in Revocations, pc[v] = "deleteRefresh", id[v] = e
        PROVE  Justified(e)'
    BY <1>a, <2>3 DEF Justified
  <2>4. CASE e # r /\ session.refs[Client[e]] = e
    <3>1. CASE Client[e] # Client[r] \/ r \in Refreshes
      BY <1>e, <1>f, <2>4, <3>1 DEF Justified
    <3>2. CASE Client[e] = Client[r] /\ r \in Revocations
      <4>1. id[r] = e /\ pc'[r] = "deleteRefresh"
        BY <2>4, <3>2 DEF WritesThrough, TInv, Revokes
      <4> QED
        BY <1>a, <3>2, <4>1 DEF Justified
    <3>3. CASE Client[e] = Client[r] /\ r \in Exchanges
      <4>1. pc[r] = "commit"
        <5>1. NoRefs[Client[e]] = None /\ e # None
          BY DEF NoRefs
        <5> QED
          BY <1>a, <2>4, <5>1 DEF WritesThrough
      <4>2. Replaces(r)
        BY <3>3, <4>1 DEF TInv, Replacing
      <4>3. id[r] = e /\ refresh[e] = None
        BY <2>4, <3>3, <4>1, <4>2 DEF Replaces
      <4> QED
        BY <1>a, <1>1, <4>3
    <3> QED
      BY <3>1, <3>2, <3>3 DEF Requests
  <2>5. Justified(e)
    BY <1>a, <1>1 DEF TInv
  <2> QED
    BY <2>1, <2>2, <2>3, <2>4, <2>5 DEF Justified
<1>2. ASSUME NEW c \in Clients, session'.refs[c] # None
      PROVE  Referred(session.refs[c], c)'
  <2>1. CASE session'.refs[c] = session.refs[c]
    BY <1>c, <1>2, <2>1 DEF TInv, Referred
  <2>2. CASE session'.refs[c] # session.refs[c]
    BY <1>2, <1>e, <1>f, <2>2 DEF WritesThrough, Referred
  <2> QED
    BY <2>1, <2>2
<1>3. ASSUME NEW e \in Exchanges, pc'[e] \in Replacing PROVE Replaces(e)'
  <2>1. e # r /\ pc'[e] = pc[e]
    BY <1>a, <1>3 DEF WritesThrough, Replacing
  <2>2. Replaces(e)
    BY <1>3, <2>1 DEF TInv
  <2>3. r \in Exchanges => Client[r] # Client[e]
    BY <1>3, <1>a, <2>1 DEF Apart, Replacing, Guarded
  <2>4. session'.refs[Client[e]] \in {session.refs[Client[e]], None}
    BY <1>e, <1>f, <2>3
  <2>5. id[e] # None => Referred(id[e], Client[e])'
    BY <1>a, <1>c, <2>2 DEF Replaces, Referred
  <2> QED
    BY <1>a, <2>1, <2>2, <2>4, <2>5 DEF Replaces, Referred
<1>4. ASSUME NEW v \in Revocations PROVE Revokes(v)'
  <2>1. CASE v = r
    BY <2>1 DEF WritesThrough, Revokes
  <2>2. CASE v # r
    <3>1. pc[v] = "commit" => txn[v].rev <= session.rev /\ txn[v].rev \in Nat
      BY SessionType DEF IInv, TransactionsAreCurrent
    <3>2. session'.rev = session.rev + 1
      BY DEF WritesThrough
    <3>3. pc[v] = "commit" => txn[v].rev # session'.rev
      BY <1>d, <3>1, <3>2, SMT
    <3> QED
      BY <1>a, <2>2, <3>3 DEF Revokes
  <2> QED
    BY <2>1, <2>2
<1> QED
  BY <1>1, <1>2, <1>3, <1>4 DEF TInv

\* Every step of every request, while nothing fails and logins do not overlap.
LEMMA ApartInductive ==
    ASSUME IInv, TInv, Apart, faults = 0, faults' = 0, [Next]_vars
    PROVE  TInv'
<1> USE Domains
<1>a. TypeOK
  BY DEF IInv
<1>b. pc \in [Requests -> Steps] /\ id \in [Requests -> RefreshID]
      /\ refresh \in [Exchanges -> Secret]
  BY <1>a DEF TypeOK, Steps
<1>c. ASSUME NEW r \in Requests, NEW S, Moved(r, S), pc[r] \notin {"respond", "ok"}
      PROVE  Alone(r)
  BY <1>c DEF Moved, Alone
<1>d. \A r, next : Goto(r, next) => pc' = [pc EXCEPT ![r] = next]
  BY <1>a, Undisturbed
\* Steps of r that concern neither its own token nor a reference.
<1>e. ASSUME NEW r \in Requests, Alone(r), UNCHANGED <<session, refresh>>,
             \A q \in Requests : q # r => id'[q] = id[q] /\ txn'[q] = txn[q],
             pc[r] \notin Guarded \cup {"cleanup", "deleteRefresh"} \/ r \in Refreshes,
             pc'[r] \notin Replacing \/ r \in Refreshes
      PROVE  TInv'
  <2>1. Besides(r)
    BY <1>e DEF Besides, Revokes, Replacing
  <2> QED
    BY <1>a, <2>1, BesidesKeeps
\* An exchange that has failed goes on to delete its token.
<1>f. ASSUME NEW e \in Exchanges, Fail(e), pc[e] \in Guarded,
             UNCHANGED <<session, refresh, id>>,
             \A q \in Requests : q # e => txn'[q] = txn[q]
      PROVE  TInv'
  <2>1. pc'[e] = "cleanup" /\ \A q \in Requests : q # e => pc'[q] = pc[q]
    BY <1>b, <1>f DEF Fail, OnError
  <2>2. Alone(e)
    BY <1>f, <2>1 DEF Alone, Guarded
  <2>3. Besides(e)
    BY <1>f, <2>1, <2>2 DEF Besides, Justified, Replacing
  <2> QED
    BY <1>a, <2>3, BesidesKeeps
<1>1. ASSUME NEW r \in Requests, Refuse(r) PROVE TInv'
  <2>1. Moved(r, {}) /\ pc[r] = "idle"
        /\ UNCHANGED <<refresh, session, id, txn>>
    BY <1>a, <1>1, Moves DEF Refuse
  <2>2. pc'[r] = "failed"
    BY <2>1 DEF Moved, Guarded
  <2> QED
    BY <1>c, <1>e, <2>1, <2>2 DEF Guarded, Replacing
<1>2. ASSUME NEW r \in Requests, Commit(r) PROVE TInv'
  <2>1. pc[r] = "commit" /\ UNCHANGED <<refresh, id, stale>> /\ txn' = [txn EXCEPT ![r] = NoTxn]
    BY <1>2 DEF Commit
  <2>2. \A q \in Requests : q # r => txn'[q] = txn[q]
    BY <1>a, <2>1 DEF TypeOK
  <2>3. CASE txn[r].rev = session.rev
    <3>1. /\ session' = [session EXCEPT !.refs = txn[r].refs, !.rev = @ + 1]
          /\ pc' = [pc EXCEPT ![r] = AfterCommit(r)]
      BY <1>2, <1>d, <2>3 DEF Commit
    <3>2. session'.refs = txn[r].refs /\ session'.rev = session.rev + 1
      BY <1>a, <3>1, SessionType DEF Session
    <3>3. session'.refs = Updated(r, session.refs)
      BY <2>1, <2>3, <3>2 DEF IInv, TransactionsAreCurrent
    <3>4. pc'[r] = AfterCommit(r) /\ \A q \in Requests : q # r => pc'[q] = pc[q]
      BY <1>b, <3>1
    <3>5. Writes(r)
      BY <2>1, <3>3, <3>4 DEF Writes, Updated, AfterCommit, Requests
    <3>6. WritesThrough(r)
      BY <2>1, <2>2, <2>3, <3>2, <3>3, <3>4, <3>5 DEF WritesThrough, Updated, AfterCommit
    <3> QED
      BY <3>6, WriteKeeps
  <2>4. CASE txn[r].rev # session.rev
    <3>1. UNCHANGED session /\ Fail(r)
      BY <1>2, <2>4 DEF Commit
    <3>2. CASE r \in Exchanges
      BY <1>f, <2>1, <2>2, <3>1, <3>2 DEF Guarded
    <3>3. CASE r \notin Exchanges
      <4>1. pc'[r] = "failed" /\ \A q \in Requests : q # r => pc'[q] = pc[q]
        BY <1>b, <3>1, <3>3 DEF Fail, OnError
      <4>2. Besides(r)
        BY <2>1, <2>2, <3>1, <3>3, <4>1 DEF Besides, Alone, Revokes
      <4> QED
        BY <1>a, <4>2, BesidesKeeps
    <3> QED
      BY <3>2, <3>3
  <2> QED
    BY <2>3, <2>4
<1>3. ASSUME NEW e \in Exchanges, GetAuthCode(e) \/ DeleteAuthCode(e) PROVE TInv'
  <2>1. Moved(e, {"deleteCode", "createRefresh", "respondPlain"})
        /\ pc[e] \in {"idle", "deleteCode"} /\ UNCHANGED <<refresh, session, id, txn>>
    BY <1>a, <1>3, Moves DEF GetAuthCode, DeleteAuthCode, Moved
  <2>2. pc'[e] \notin Replacing
    BY <2>1 DEF Moved, Guarded, Replacing
  <2> QED
    BY <1>c, <1>e, <2>1, <2>2 DEF Guarded
<1>4. ASSUME NEW e \in Exchanges, CreateRefresh(e) PROVE TInv'
  <2>1. pc[e] = "createRefresh" /\ pc' = [pc EXCEPT ![e] = "getSession"]
        /\ refresh' = [refresh EXCEPT ![e] = e] /\ UNCHANGED <<session, id, txn>>
    BY <1>4, <1>d DEF CreateRefresh
  <2>2. pc'[e] = "getSession" /\ \A q \in Requests : q # e => pc'[q] = pc[q]
    BY <1>b, <2>1
  <2>3. \A d \in Exchanges \ {e} : refresh'[d] = refresh[d]
    BY <1>b, <2>1
  <2>4. Besides(e)
    BY <2>1, <2>2, <2>3 DEF Besides, Alone, Justified, Guarded, Replacing
  <2> QED
    BY <1>a, <2>4, BesidesKeeps
<1>5. ASSUME NEW e \in Exchanges, GetOfflineSessions(e) PROVE TInv'
  <2>1. pc[e] = "getSession" /\ UNCHANGED <<refresh, session, txn>>
    BY <1>5 DEF GetOfflineSessions
  <2>2. /\ pc'[e] \in {"createSession", "deleteOld", "begin"}
        /\ pc'[e] = "begin" => session.refs[Client[e]] = None
        /\ id'[e] = session.refs[Client[e]]
        /\ \A q \in Requests : q # e => pc'[q] = pc[q] /\ id'[q] = id[q]
    BY <1>b, <1>5 DEF GetOfflineSessions
  <2>3. Alone(e)
    BY <2>1, <2>2 DEF Alone
  <2>4. pc'[e] \in Replacing => Replaces(e)'
    <3>1. PICK i : i = session.refs[Client[e]]
      OBVIOUS
    <3>2. i # None => Referred(i, Client[e])
      BY <3>1 DEF TInv
    <3>3. i # None => Referred(i, Client[e])'
      BY <2>3, <3>2, ReferredStays
    <3>4. i # None => Referred(id[e], Client[e])' /\ pc'[e] # "begin"
      BY <2>2, <3>1, <3>3 DEF Referred
    <3> QED
      BY <2>1, <2>2, <3>1, <3>4 DEF Replaces, Replacing
  <2>5. Besides(e)
    BY <2>1, <2>2, <2>3, <2>4 DEF Besides, Justified, Guarded
  <2> QED
    BY <1>a, <2>5, BesidesKeeps
<1>6. ASSUME NEW e \in Exchanges, CreateOfflineSessions(e) PROVE TInv'
  <2>1. pc[e] = "createSession" /\ UNCHANGED <<refresh, id, txn, stale>>
    BY <1>6 DEF CreateOfflineSessions
  <2>2. CASE session.exists
    BY <1>6, <1>f, <2>1, <2>2 DEF CreateOfflineSessions, Guarded
  <2>3. CASE ~session.exists
    <3>1. /\ session'.rev = session.rev + 1
          /\ session'.refs = [NoRefs EXCEPT ![Client[e]] = e]
          /\ pc' = [pc EXCEPT ![e] = "respond"]
      BY <1>6, <1>d, <2>3, SMT DEF CreateOfflineSessions
    <3>2. session.refs = NoRefs
      BY <2>3 DEF IInv, TransactionsAreCurrent
    <3>3. pc'[e] = "respond" /\ \A q \in Requests : q # e => pc'[q] = pc[q]
      BY <1>b, <3>1
    <3>4. WritesThrough(e)
      BY <2>1, <3>1, <3>2, <3>3 DEF WritesThrough, Writes
    <3> QED
      BY <3>4, WriteKeeps
  <2> QED
    BY <2>2, <2>3
<1>7. ASSUME NEW e \in Exchanges, DeleteOldRefresh(e) PROVE TInv'
  <2>1. pc[e] = "deleteOld" /\ UNCHANGED <<session, id, txn>>
    BY <1>7 DEF DeleteOldRefresh, DeleteRefresh
  <2>2. CASE refresh[id[e]] # None
    <3>1. refresh' = [refresh EXCEPT ![id[e]] = None] /\ pc' = [pc EXCEPT ![e] = "begin"]
      BY <1>7, <1>d, <2>2 DEF DeleteOldRefresh, DeleteRefresh
    <3>2. pc'[e] = "begin" /\ \A q \in Requests : q # e => pc'[q] = pc[q]
      BY <1>b, <3>1
    <3>3. Alone(e)
      BY <2>1, <3>2 DEF Alone
    <3>4. Replaces(e)
      BY <2>1 DEF TInv, Replacing
    <3>5. Replaces(e)'
      <4>1. id[e] # None => Referred(id[e], Client[e])' /\ id[e] \in Exchanges
        BY <2>1, <3>3, <3>4, ReferredStays DEF Replaces, Referred, Alone
      <4>2. id[e] # None => refresh'[id[e]] = None
        BY <1>b, <3>1, <4>1
      <4> QED
        BY <2>1, <3>4, <4>1, <4>2 DEF Replaces
    <3>6. \A d \in Exchanges : refresh'[d] # None => refresh[d] # None
      BY <1>b, <3>1
    <3>7. Besides(e)
      BY <2>1, <3>2, <3>3, <3>5, <3>6 DEF Besides, Justified, Guarded
    <3> QED
      BY <1>a, <3>7, BesidesKeeps
  <2>3. CASE refresh[id[e]] = None
    BY <1>7, <1>f, <2>1, <2>3 DEF DeleteOldRefresh, DeleteRefresh, Guarded
  <2> QED
    BY <2>2, <2>3
<1>8. ASSUME NEW e \in Exchanges, UpdateSession(e) PROVE TInv'
  <2>1. pc[e] = "begin" /\ pc' = [pc EXCEPT ![e] = "commit"] /\ UNCHANGED <<refresh, session, id>>
        /\ \A q \in Requests : q # e => txn'[q] = txn[q]
    BY <1>a, <1>8 DEF UpdateSession, Begin, TypeOK
  <2>2. pc'[e] = "commit" /\ \A q \in Requests : q # e => pc'[q] = pc[q]
    BY <1>b, <2>1
  <2>3. Alone(e)
    BY <2>1, <2>2 DEF Alone
  <2>4. Replaces(e)
    BY <2>1 DEF TInv, Replacing
  <2>5. Replaces(e)'
    <3>1. id[e] # None => Referred(id[e], Client[e])'
      BY <2>1, <2>3, <2>4, ReferredStays DEF Replaces, Referred, Alone
    <3> QED
      BY <2>1, <2>2, <2>4, <3>1 DEF Replaces
  <2>6. Besides(e)
    BY <2>1, <2>2, <2>3, <2>5 DEF Besides, Justified, Guarded
  <2> QED
    BY <1>a, <2>6, BesidesKeeps
<1>9. ASSUME NEW e \in Exchanges, DeleteNewRefresh(e) PROVE TInv'
  <2>1. Moved(e, {}) /\ pc[e] = "cleanup" /\ UNCHANGED <<session, id, txn>>
    BY <1>a, <1>9, Moves DEF DeleteNewRefresh, DeleteRefresh
  <2>2. refresh'[e] = None /\ \A d \in Exchanges : refresh'[d] # None => refresh[d] # None
    BY <1>b, <1>9 DEF DeleteNewRefresh, DeleteRefresh
  <2>3. Alone(e) /\ pc'[e] = "failed"
    BY <1>c, <2>1 DEF Moved, Guarded
  <2>4. Besides(e)
    BY <2>1, <2>2, <2>3 DEF Besides, Replacing
  <2> QED
    BY <1>a, <2>4, BesidesKeeps
<1>10. ASSUME NEW f \in Refreshes, (\E t \in issued : GetRefresh(f, t)) \/ UpdateLastUsed(f)
       PROVE  TInv'
  <2>1. PICK S : Moved(f, S)
    BY <1>a, <1>10, Moves
  <2>2. pc[f] \in {"idle", "begin"} /\ UNCHANGED <<refresh, session>>
    BY <1>10 DEF GetRefresh, UpdateLastUsed, Begin
  <2>3. \A q \in Requests : q # f => id'[q] = id[q] /\ txn'[q] = txn[q]
    BY <1>a, <1>10 DEF GetRefresh, UpdateLastUsed, Begin, TypeOK
  <2> QED
    BY <1>c, <1>e, <2>1, <2>2, <2>3
<1>11. ASSUME NEW f \in Refreshes, UpdateRefreshToken(f) PROVE TInv'
  <2>1. Moved(f, {"respond"}) /\ pc[f] = "updateRefresh" /\ UNCHANGED <<session, id, txn>>
    BY <1>a, <1>11, Moves DEF UpdateRefreshToken
  <2>2. secret[f] # None
    BY <2>1 DEF IInv, ClaimedSecretsAreGone
  <2>3. \A e \in Exchanges : refresh'[e] # None => refresh[e] # None
    BY <1>b, <1>11, <2>2 DEF UpdateRefreshToken
  <2>4. Besides(f)
    BY <1>c, <2>1, <2>3 DEF Besides
  <2> QED
    BY <1>a, <2>4, BesidesKeeps
<1>12. ASSUME NEW r \in Exchanges \cup Refreshes, WriteAccessToken(r) PROVE TInv'
  <2>1. /\ pc[r] \in {"respond", "respondPlain"} /\ pc' = [pc EXCEPT ![r] = "ok"]
        /\ UNCHANGED <<refresh, session, id, txn>>
    BY <1>12 DEF WriteAccessToken
  <2>2. r \in Requests /\ Alone(r) /\ pc'[r] = "ok"
    BY <1>b, <2>1 DEF Alone
  <2> QED
    BY <1>e, <2>1, <2>2 DEF Guarded, Replacing
<1>13. ASSUME NEW v \in Revocations, RemoveRef(v) PROVE TInv'
  <2>1. /\ pc[v] = "idle" /\ pc' = [pc EXCEPT ![v] = "commit"] /\ UNCHANGED <<refresh, session>>
        /\ id' = [id EXCEPT ![v] = session.refs[Client[v]]]
    BY <1>13 DEF RemoveRef, Begin, Ref
  <2>2. \A q \in Requests : q # v => id'[q] = id[q] /\ txn'[q] = txn[q] /\ pc'[q] = pc[q]
    BY <1>a, <1>13, <2>1 DEF RemoveRef, Begin, TypeOK
  <2>3. id'[v] = session.refs[Client[v]]
    BY <1>b, <2>1
  <2>4. Besides(v)
    BY <2>1, <2>2, <2>3 DEF Besides, Alone, Revokes
  <2> QED
    BY <1>a, <2>4, BesidesKeeps
<1>14. ASSUME NEW v \in Revocations, DeleteRevoked(v) PROVE TInv'
  <2>1. Moved(v, {"ok"}) /\ pc[v] = "deleteRefresh" /\ UNCHANGED <<session, id, txn>>
    BY <1>a, <1>14, Moves DEF DeleteRevoked, DeleteRefresh
  <2>2. /\ id[v] \in Exchanges => refresh'[id[v]] = None
        /\ \A e \in Exchanges : refresh'[e] # None => refresh[e] # None
    BY <1>b, <1>14 DEF DeleteRevoked, DeleteRefresh
  <2>3. Alone(v) /\ pc'[v] # "commit"
    BY <1>c, <2>1 DEF Moved
  <2>4. Besides(v)
    BY <2>1, <2>2, <2>3 DEF Besides, Revokes
  <2> QED
    BY <1>a, <2>4, BesidesKeeps
<1>15. CASE UNCHANGED vars \/ \E c \in Codes : GarbageCollect(c)
  <2>1. UNCHANGED <<refresh, session, pc, id, txn>>
    BY <1>15 DEF vars, GarbageCollect
  <2>2. \A e \in Exchanges : (Justified(e) => Justified(e)') /\ (Replaces(e) => Replaces(e)')
    BY <2>1 DEF Justified, Replaces, Referred
  <2>3. \A v \in Revocations : Revokes(v)'
    BY <2>1 DEF TInv, Revokes
  <2>4. (\A c \in Clients : session.refs[c] # None => Referred(session.refs[c], c))'
    BY <2>1 DEF TInv, Referred
  <2> QED
    BY <2>1, <2>2, <2>3, <2>4 DEF TInv
<1>16. /\ \A r \in Requests : ~StorageError(r) /\ ~Crash(r)
       /\ \A e \in Exchanges : ~ConnectorError(e)
  BY <1>a, Undisturbed
<1> QED
  BY <1>1, <1>2, <1>3, <1>4, <1>5, <1>6, <1>7, <1>8, <1>9, <1>10, <1>11, <1>12, <1>13,
     <1>14, <1>15, <1>16 DEF Next, HandleAuthCode, HandleRefreshToken, RevokeRefresh

\* On either kind of storage, a client has at most one refresh token once its
\* requests are through, provided that its logins never overlapped and nothing
\* failed: overlap and failure are the only ways to a second one.
THEOREM OneTokenWithoutOverlap == Spec => OneTokenIfApart
<1> DEFINE Calm == faults = 0 /\ Apart
<1>1. Init => TInv
  <2> SUFFICES ASSUME Init PROVE TInv
    OBVIOUS
  <2>1. \A r \in Requests : pc[r] \in {"idle", "failed"}
    BY DEF Init
  <2>2. /\ \A e \in Exchanges : refresh[e] = None
        /\ \A c \in Clients : session.refs[c] = None
    BY DEF Init, NoRefs
  <2> QED
    BY <2>1, <2>2, Domains DEF TInv, Replacing, Revokes
<1>2. IInv /\ TInv /\ Calm /\ Calm' /\ [Next]_vars => TInv'
  BY ApartInductive
<1>3. TInv => OneRefreshTokenPerClient
  <2> SUFFICES ASSUME TInv, \A r \in Requests : pc[r] \in Finished \cup {"idle"},
                      NEW d \in Exchanges, NEW e \in Exchanges,
                      refresh[d] # None, refresh[e] # None, Client[d] = Client[e]
               PROVE  d = e
    BY DEF OneRefreshTokenPerClient
  <2>1. \A r \in Requests : pc[r] \notin Guarded \cup {"cleanup", "deleteRefresh"}
    BY DEF Finished, Guarded
  <2>2. ASSUME NEW x \in Exchanges, refresh[x] # None PROVE session.refs[Client[x]] = x
    BY <2>1, <2>2, Domains DEF TInv, Justified
  <2> QED
    BY <2>2
<1> HIDE DEF Calm
<1>4. Spec /\ []Calm => []TInv
  BY <1>1, <1>2, Invariance, PTL DEF Spec
<1>5. Spec /\ []Calm => []OneRefreshTokenPerClient
  BY <1>3, <1>4, PTL
<1> QED
  BY <1>5, PTL DEF OneTokenIfApart, Calm

=============================================================================
