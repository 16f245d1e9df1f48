------------------------------ MODULE PasswordDB ------------------------------
(***************************************************************************)
(* The connector over dex's own password objects (passwordDB in            *)
(* server/server.go) and the calls of the admin API that create and delete *)
(* them (server/api.go).  The object of the user's email is the account.   *)
(***************************************************************************)
EXTENDS ConnectorCalls

\* dexAPI.CreatePassword, of a hash whose cost is within bounds.
CreatePassword(a) ==
    connector.type = "passwordDB" /\ accounts = {} /\ AddAccount(a)

DeletePassword(a) == connector.type = "passwordDB" /\ RemoveAccount(a)

\* Login: no such user, a wrong password, a hash of unacceptable cost, or the
\* identity.
PasswordLogin ==
    /\ At("passwordDB", "get") /\ call.kind = "login"
    /\ \/ Become(Refused)
       \/ \E a \in accounts :
             Become([call EXCEPT !.pc = "done", !.account = a,
                                 !.identity.UserID = a.id, !.identity.Username = a.id])

\* Refresh: the user is deleted, or is another user with the same email.
PasswordRefresh ==
    /\ At("passwordDB", "get") /\ call.kind = "refresh"
    /\ \/ accounts = {} /\ Become(Failed)
       \/ \E a \in accounts :
             Become(IF a.id = call.identity.UserID
                    THEN [call EXCEPT !.pc = "done", !.identity.Username = a.id]
                    ELSE Failed)

PasswordConnector == PasswordLogin \/ PasswordRefresh

=============================================================================
