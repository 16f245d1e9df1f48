---------------------------- MODULE ConnectorCalls ----------------------------
(***************************************************************************)
(* The connector interface (connector/connector.go): a call of a connector *)
(* that either logs the user in (Login, HandleCallback, HandlePOST) or     *)
(* brings the identity of a refresh token up to date (Refresh).  A call is *)
(* a sequence of requests to the provider, one step each.  It ends in      *)
(* "done" with an identity, in "failed" with an error, or in "refused"     *)
(* when the user's credentials are wrong.                                  *)
(***************************************************************************)
EXTENDS IdentityProvider, Sequences

CONSTANT Connectors     \* the configurations to consider

VARIABLES
    connector,  \* the configuration of the connector in use
    call,       \* the connector call in progress
    claims      \* the identity in the auth request, the code, the refresh token

callVars == <<connector, call, claims>>

-----------------------------------------------------------------------------
Types == {"github", "gitlab", "microsoft", "linkedin", "oidc", "ldap", "saml",
          "passwordDB", "authproxy"}

\* The options that matter: orgs and the legacy org of github, groups and
\* whether tenant names an organization of microsoft, hostedDomains of oidc,
\* groupSearch.baseDN of ldap or groupsAttr of saml.
Config == [type : Types, orgs : Seq([name : Orgs, teams : SUBSET Groups]),
           org : Orgs \cup {None}, groups : SUBSET Groups, orgTenant : BOOLEAN,
           hostedDomains : SUBSET Orgs, groupSearch : BOOLEAN]

ASSUME ConnectorAssumption == Connectors \subseteq Config

\* connector.Identity.  A Username and an Email stand for the account they were
\* read from.  ConnectorData is what a refresh goes by: the account of an
\* access token (OAuth2), or the DN of an entry (LDAP).
Identity == [UserID : IDs \cup {None}, Username : IDs \cup {None},
             Groups : SUBSET Groups, ConnectorData : IDs \cup DNs \cup {None}]

NoIdentity == [UserID |-> None, Username |-> None, Groups |-> {}, ConnectorData |-> None]

Steps == {"exchange", "user", "email", "org", "teams", "groups", "ids", "names",
          "verify", "verifyOther", "header", "search", "bind", "get", "provider"}

\* groupScope is Scopes.Groups; cursor, org, teams and inOrgNoTeams are the
\* local variables of the loops; account is history: who vouched for the user.
Call == [pc : Steps \cup {"idle", "done", "failed", "refused"}, kind : {"login", "refresh"},
         groupScope : BOOLEAN, identity : Identity, cursor : Nat, org : Nat,
         teams : SUBSET Groups, inOrgNoTeams : BOOLEAN, account : Account \cup {NoAccount}]

NoCall == [pc |-> "idle", kind |-> "login", groupScope |-> FALSE, identity |-> NoIdentity,
           cursor |-> 0, org |-> 1, teams |-> {}, inOrgNoTeams |-> FALSE,
           account |-> NoAccount]

\* Claims in storage, and as history the window of the call they are from and
\* the account that logged in.
Claims == [identity : Identity, window : Window, account : Account \cup {NoAccount}]

NoClaims == [identity |-> NoIdentity, window |-> Closed, account |-> NoAccount]

CallTypeOK ==
    /\ connector \in Connectors
    /\ call \in Call
    /\ claims \in Claims

-----------------------------------------------------------------------------
\* Where the call of a connector begins.
LoginStep(type) ==
    CASE type \in {"github", "gitlab", "microsoft", "linkedin", "oidc"} -> "exchange"
      [] type = "ldap" -> "search"
      [] type = "passwordDB" -> "get"
      [] type = "saml" -> "provider"
      [] type = "authproxy" -> "header"

RefreshStep(type) ==
    CASE type \in {"github", "gitlab", "microsoft", "linkedin"} -> "user"
      [] type = "ldap" -> "search"
      [] type = "passwordDB" -> "get"
      [] type = "oidc" -> "done"

\* saml and authproxy do not implement RefreshConnector.
CanRefresh == connector.type \notin {"saml", "authproxy"}

BeginCall(kind, groupScope) ==
    /\ call' = IF kind = "login"
               THEN [NoCall EXCEPT !.pc = LoginStep(connector.type),
                                   !.groupScope = groupScope]
               ELSE [NoCall EXCEPT !.pc = RefreshStep(connector.type), !.kind = kind,
                                   !.groupScope = groupScope,
                                   !.identity = claims.identity,
                                   !.account = claims.account]
    /\ window' = OpenWindow
    /\ UNCHANGED <<connector, claims, accounts, held, changes>>

\* The call of a connector of this type is at this step.
At(type, step) == connector.type = type /\ call.pc = step

Become(new) == call' = new /\ UNCHANGED <<connector, claims, providerVars>>

Failed == [call EXCEPT !.pc = "failed"]

Refused == [call EXCEPT !.pc = "refused"]

\* A request to the provider fails, or its answer is not what was expected (a
\* status, an attribute that is missing): every connector returns an error.
RequestFails == call.pc \in Steps \ {"provider"} /\ Become(Failed)

\* The same, where the request carries an access token that is still good.
Ask(type, step) ==
    At(type, step) /\ \E a \in accounts : a.id = call.identity.ConnectorData

\* There is no account to log in with, or the access token has been revoked with
\* the account: the provider answers with an error.
Denied ==
    /\ \/ call.pc \in {"exchange", "header"} /\ accounts = {}
       \/ /\ call.pc \in {"user", "email", "org", "teams", "groups", "ids", "names"}
          /\ connector.type # "ldap"
          /\ ~ \E a \in accounts : a.id = call.identity.ConnectorData
    /\ Become(Failed)

\* oauth2Config.Exchange: the code is for an access token of account a.
Exchange(a, next) ==
    call.pc = "exchange"
    /\ Become([call EXCEPT !.pc = next, !.identity.ConnectorData = a.id, !.account = a])

\* The answer to a request for the user's profile, made with the access token.
\* UserID is left alone by a refresh.
ReadProfile(a, next, groups) ==
    /\ call.pc = "user"
    /\ call.identity.ConnectorData = a.id
    /\ Become([call EXCEPT !.pc = next,
                 !.identity = [UserID |-> IF call.kind = "login" THEN a.id ELSE @.UserID,
                               Username |-> a.id, Groups |-> groups,
                               ConnectorData |-> @.ConnectorData]])

=============================================================================
