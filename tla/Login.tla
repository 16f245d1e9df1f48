--------------------------------- MODULE Login ---------------------------------
(***************************************************************************)
(* A user's login through a connector, from the client's authorization     *)
(* request to ID tokens and their renewal: Authorization, the connectors   *)
(* and the provider behind them, put together the way the handlers of      *)
(* server/handlers.go do.  One request of the user is handled at a time    *)
(* (AuthFlow and TokenEndpoint are about overlapping requests); what       *)
(* changes while it is handled is the world around: accounts, memberships, *)
(* and the clients that trust each other.                                  *)
(***************************************************************************)
EXTENDS GitHubConnector, OAuth2Connectors, LDAPConnector, SAMLConnector, PasswordDB,
        Authorization

CONSTANTS
    InitialAccounts,    \* accounts at first
    InitialHeld,        \* memberships to consider at first
    InitialClients,     \* clients at first
    PeerSets,           \* trusted peers of a client that is created
    NoToken

ASSUME LoginAssumption ==
    /\ InitialAccounts \subseteq Account
    /\ InitialHeld \subseteq {S \in SUBSET Memberships : \A g \in S \cap Groups : OrgOf[g] \in S}
    /\ InitialClients \in [Clients -> Client]
    /\ PeerSets \subseteq SUBSET Clients

VARIABLES
    stage,      \* how far the login has come
    requests,   \* authorization requests stored so far; the last is the ID
    token       \* the ID token in the last response, and how it came about

loginVars == <<stage, requests, token>>

vars == <<providerVars, callVars, samlVars, authorizationVars, loginVars>>

-----------------------------------------------------------------------------
\* An ID token: whose it is, and as history the use it was made for, the window
\* of the connector call, the account that logged in and the trusting peers.
Token == [UserID : IDs \cup {None}, Username : IDs \cup {None}, aud : SUBSET Clients,
          groupScope : BOOLEAN, Groups : SUBSET Groups,
          use : {"front", "code", "refresh"}, client : Clients, dn : IDs \cup DNs \cup {None},
          window : Window, account : Account, trusting : SUBSET Clients]

Init ==
    /\ accounts = InitialAccounts
    /\ held \in InitialHeld
    /\ window = Closed
    /\ changes = 0
    /\ connector \in Connectors
    /\ call = NoCall
    /\ claims = NoClaims
    /\ now = 0
    /\ responses = {}
    /\ accepted = {}
    /\ clients = InitialClients
    /\ request = NoRequest
    /\ check = NoCheck
    /\ stage = "start"
    /\ requests = 0
    /\ token = NoToken

\* No request of the user is being handled.
Idle == call.pc = "idle" /\ check.use = "idle"

-----------------------------------------------------------------------------
(* The handlers.                                                           *)

\* handleAuthorization, at first or when the user starts over.
HandleAuthorization(r) ==
    /\ Idle /\ stage \in {"start", "authorized"} /\ requests < MaxRequests
    /\ ParseBegin(r)
    /\ UNCHANGED <<providerVars, callVars, samlVars, loginVars>>

CheckScope ==
    /\ \E p \in check.todo : CheckPeer(p)
    /\ UNCHANGED <<providerVars, callVars, samlVars, loginVars>>

\* The authorization request is stored, or the client gets an error.
EndAuthorization ==
    /\ check.use = "parse" /\ check.todo = {}
    /\ check' = NoCheck
    /\ IF Parsed
       THEN request' = check.request /\ stage' = "authorized" /\ requests' = requests + 1
       ELSE UNCHANGED <<request, stage, requests>>
    /\ UNCHANGED <<clients, token, providerVars, callVars, samlVars>>

\* handleConnectorLogin and handleConnectorCallback, up to the connector.
BeginLogin ==
    /\ Idle /\ stage = "authorized"
    /\ BeginCall("login", "groups" \in request.scopes)
    /\ UNCHANGED <<samlVars, authorizationVars, loginVars>>

ConnectorStep ==
    /\ \/ (GitHub \/ OAuth2 \/ LDAP \/ PasswordConnector \/ Denied) /\ UNCHANGED samlVars
       \/ \E r \in responses : HandlePOST(requests, r)
    /\ UNCHANGED <<authorizationVars, loginVars>>

Provider ==
    /\ \E a \in accounts : Respond(requests, a)
    /\ UNCHANGED <<authorizationVars, loginVars>>

\* The user does not return from the provider, or not yet.
Leaves ==
    /\ At("saml", "provider")
    /\ call' = NoCall
    /\ window' = Closed
    /\ UNCHANGED <<connector, claims, accounts, held, changes, samlVars, authorizationVars,
                   loginVars>>

\* finalizeLogin
FinalizeLogin ==
    /\ stage = "authorized" /\ call.pc = "done" /\ call.kind = "login"
    /\ claims' = [identity |-> call.identity, window |-> window, account |-> call.account]
    /\ call' = NoCall
    /\ window' = Closed
    /\ stage' = "loggedIn"
    /\ UNCHANGED <<connector, accounts, held, changes, requests, token, samlVars,
                   authorizationVars>>

\* The connector returned an error or refused the credentials.
CallFailed ==
    /\ call.pc \in {"failed", "refused"}
    /\ call' = NoCall
    /\ window' = Closed
    /\ UNCHANGED <<connector, claims, accounts, held, changes, samlVars, authorizationVars,
                   loginVars>>

-----------------------------------------------------------------------------
(* ID tokens.                                                              *)

\* sendCodeResponse: an ID token for the browser, or a code.
SendCodeResponse ==
    /\ Idle /\ stage = "loggedIn"
    /\ IF "id_token" \in request.types
       THEN BeginCheck("front", request, request.peers) /\ UNCHANGED stage
       ELSE stage' = "code" /\ UNCHANGED check
    /\ UNCHANGED <<clients, request, requests, token, providerVars, callVars, samlVars>>

\* handleAuthCode, for a client that handleToken has found.
HandleAuthCode ==
    /\ Idle /\ stage = "code" /\ clients[request.client].exists
    /\ BeginCheck("code", request, request.peers)
    /\ token' = NoToken
    /\ UNCHANGED <<clients, request, stage, requests, providerVars, callVars, samlVars>>

\* handleRefreshToken, up to the connector.  The client may ask for fewer scopes.
HandleRefreshToken ==
    /\ Idle /\ stage = "tokens" /\ clients[request.client].exists
    /\ \E groups \in BOOLEAN :
          /\ groups => "groups" \in request.scopes
          /\ BeginCall("refresh", groups)
    /\ token' = NoToken
    /\ UNCHANGED <<stage, requests, samlVars, authorizationVars>>

Refreshed ==
    /\ stage = "tokens" /\ call.pc = "done" /\ call.kind = "refresh" /\ check.use = "idle"
    /\ \E peers \in SUBSET request.peers : BeginCheck("refresh", request, peers)
    /\ UNCHANGED <<clients, request, providerVars, callVars, samlVars, loginVars>>

\* What newIDToken makes of the identity, the scopes and the window of a call.
NewToken(identity, groupScope, w) ==
    [UserID |-> identity.UserID, Username |-> identity.Username,
     aud |-> check.peers \cup {request.client}, groupScope |-> groupScope,
     Groups |-> IF groupScope THEN identity.Groups ELSE {},
     use |-> check.use, client |-> request.client, dn |-> identity.ConnectorData,
     window |-> w, account |-> claims.account, trusting |-> check.trusting]

\* newIDToken has gone through the scopes; the token is sent, with a refresh
\* token if the scopes and the connector allow for one.
IssueToken ==
    /\ check.use \in {"front", "code"} /\ check.todo = {} /\ ~check.untrusted
    /\ token' = NewToken(claims.identity, "groups" \in request.scopes, claims.window)
    /\ check' = NoCheck
    /\ stage' = CASE check.use = "front" /\ "code" \in request.types -> "code"
                  [] check.use = "code" /\ "offline_access" \in request.scopes /\ CanRefresh ->
                        "tokens"
                  [] OTHER -> "end"
    /\ claims' = IF stage' = "code" THEN claims ELSE [claims EXCEPT !.window = Closed]
    /\ UNCHANGED <<clients, request, requests, connector, call, providerVars, samlVars>>

\* The claims of the refresh token are updated, all but UserID.
RenewToken ==
    /\ check.use = "refresh" /\ check.todo = {} /\ ~check.untrusted
    /\ token' = NewToken(call.identity, call.groupScope, window)
    /\ claims' = [claims EXCEPT !.identity = [call.identity EXCEPT
                                                  !.UserID = claims.identity.UserID]]
    /\ check' = NoCheck
    /\ call' = NoCall
    /\ window' = Closed
    /\ UNCHANGED <<clients, request, stage, requests, connector, accounts, held, changes,
                   samlVars>>

\* An error of newIDToken or parseAuthorizationRequest.  A response to the
\* browser is not repeated: its authorization request is deleted already.
EndCheck ==
    /\ check' = NoCheck
    /\ stage' = IF check.use = "front" THEN "end" ELSE stage
    /\ IF check.use = "refresh"
       THEN call' = NoCall /\ window' = Closed ELSE UNCHANGED <<call, window>>
    /\ UNCHANGED <<clients, request, requests, token, connector, claims, accounts, held,
                   changes, samlVars>>

\* A peer does not trust the client.
Untrusted ==
    check.use \in {"front", "code", "refresh"} /\ check.todo = {} /\ check.untrusted /\ EndCheck

Handle ==
    \/ CheckScope \/ EndAuthorization \/ ConnectorStep \/ FinalizeLogin \/ CallFailed
    \/ Refreshed \/ IssueToken \/ RenewToken \/ Untrusted

\* A request to the provider or a storage call fails.
Fault ==
    \/ RequestFails /\ UNCHANGED <<samlVars, authorizationVars, loginVars>>
    \/ check.use # "idle" /\ EndCheck

-----------------------------------------------------------------------------
\* Changes at the provider or through the admin API, when a call can tell: before
\* the first call they make another initial state, and a SAML response carries
\* all that dex will ever see.
Change ==
    /\ connector.type # "saml"
    /\ call.pc \in Steps \/ (Idle /\ stage = "tokens")
    /\ \/ \E m \in Memberships : Join(m) \/ Leave(m)
       \/ /\ connector.type # "passwordDB"
          /\ \E a \in Account :
                \/ RemoveAccount(a)
                \/ (connector.type = "ldap" \/ accounts = {}) /\ AddAccount(a)
       \/ \E a \in Account : CreatePassword(a) \/ DeletePassword(a)
    /\ UNCHANGED <<callVars, samlVars, authorizationVars, loginVars>>

ChangeClients ==
    /\ stage # "end" /\ call.pc \notin Steps
    /\ Count
    /\ \E c \in Clients : DeleteClient(c) \/ \E peers \in PeerSets : CreateClient(c, peers)
    /\ UNCHANGED <<accounts, held, window, callVars, samlVars, loginVars>>

Next ==
    \/ \E r \in Asked : HandleAuthorization(r)
    \/ BeginLogin \/ SendCodeResponse \/ HandleAuthCode \/ HandleRefreshToken
    \/ Handle \/ Fault \/ Provider \/ Leaves
    \/ Change \/ ChangeClients
    \/ Tick /\ UNCHANGED <<authorizationVars, loginVars>>

\* A handler goes on as long as the provider answers; nothing is assumed of
\* faults, of changes, or of the user.
Spec == Init /\ [][Next]_vars /\ WF_vars(Handle)

-----------------------------------------------------------------------------
(* Properties.                                                             *)

\* Type correctness of the provider, the call in progress, the check in
\* progress, the claims in storage and the token.
TypeOK ==
    /\ ProviderTypeOK /\ CallTypeOK /\ SAMLTypeOK /\ AuthorizationTypeOK
    /\ stage \in {"start", "authorized", "loggedIn", "code", "tokens", "end"}
    /\ requests \in 0 .. MaxRequests
    /\ token \in Token \cup {NoToken}

Issued == token # NoToken

\* The groups that the configuration of the connector lets through.
Offered ==
    CASE connector.type = "github" ->
            IF connector.orgs = <<>> THEN {g \in Groups : OrgOf[g] = connector.org}
            ELSE {g \in Groups : \E i \in DOMAIN connector.orgs :
                    /\ connector.orgs[i].name = OrgOf[g]
                    /\ connector.orgs[i].teams = {} \/ g \in connector.orgs[i].teams}
      [] connector.type = "gitlab" -> Groups
      [] connector.type = "microsoft" /\ connector.orgTenant -> Groups
      [] connector.type \in {"ldap", "saml"} /\ connector.groupSearch -> Groups
      [] OTHER -> {}

\* These groups are some that the user was in at some time during the window w,
\* among them all those on offer that they were in all the time.  Numbered pages
\* (GitHub, GitLab) can skip a group, but only if a membership ended.
AsHeld(groups, w) ==
    /\ groups \subseteq w.ever
    /\ \/ connector.type \in {"github", "gitlab"} /\ w.ended
       \/ Offered \cap w.always \subseteq groups

\* A token that was asked for groups names only groups that the user was in at
\* some time during the very connector call it comes from, and all those that
\* they were in all the time: no loop over pages, organizations or attribute
\* values drops some, and no refresh repeats old ones.  Numbered pages (GitHub,
\* GitLab) can skip a group only if a membership ended during the call.
GroupsAsHeld == Issued /\ token.groupScope => AsHeld(token.Groups, token.window)

\* Memberships that let a user in, where the configuration requires one for this
\* use of a token, as Documentation/connectors has it: the Refresh of oidc asks
\* nobody.
Admitting(use) ==
    CASE connector.type = "github" /\ connector.orgs = <<>> -> {connector.org} \ {None}
      [] connector.type = "github" /\ connector.orgs # <<>> ->
            UNION {IF connector.orgs[i].teams = {} THEN {connector.orgs[i].name}
                   ELSE connector.orgs[i].teams : i \in DOMAIN connector.orgs}
      [] connector.type = "microsoft" /\ connector.orgTenant -> connector.groups
      [] connector.type = "oidc" /\ use # "refresh" -> connector.hostedDomains
      [] OTHER -> {}

\* "A user MUST be a member" (Documentation/connectors/github.md, of org and of
\* orgs): a token is made for a user who was a member, at some time during the
\* connector call, of what the configuration restricts logins to.
RestrictionsEnforced ==
    Issued /\ Admitting(token.use) # {} => token.window.ever \cap Admitting(token.use) # {}

\* github's legacy org, which getGroups only lists the teams of.
LegacyOrg ==
    connector.type = "github" /\ connector.orgs = <<>> /\ connector.org # None

\* A configuration that restricts logins to organizations (but not by github's
\* legacy org), teams, groups or domains is enforced at every login and at every
\* refresh (the Refresh of oidc asks nobody): the user was a member at some time
\* during the connector call.
MembershipEnforced == LegacyOrg \/ RestrictionsEnforced

\* A token speaks of one user, the one who logged in, and who still existed
\* during the connector call: "If the user has been deleted, the refresh token
\* will be rejected", also if "a new user with the same email exists"
\* (passwordDB.Refresh).  For LDAP the user is whoever has the DN, also with
\* another ID; and the Refresh of oidc asks nobody whether the user still exists.
OneAccount ==
    Issued =>
        /\ token.Username = token.UserID
        /\ IF connector.type = "ldap"
           THEN \E a \in token.window.seen : a.id = token.UserID /\ a.dn = token.account.dn
           ELSE /\ token.UserID = token.account.id
                /\ \/ connector.type = "oidc" /\ token.use = "refresh"
                   \/ \E a \in token.window.seen : a.id = token.UserID

\* Whom a token is for has trusted the client while the token was being made,
\* and not only when the user logged in: trust that is withdrawn ends with the
\* next refresh.
AudienceTrusts == Issued => token.aud \ {token.client} \subseteq token.trusting

\* A SAML response logs the user in only to the authorization request that one of
\* its subject confirmations is for, only if what counts of it is signed, and not
\* if one of its audience restrictions is for others, whatever else the provider
\* or the browser deliver.
SAMLAnswersRequest ==
    connector.type = "saml" /\ claims # NoClaims =>
        \E x \in accepted :
            /\ requests \in {c.inResponseTo : c \in x.response.confirmations}
            /\ \A c \in x.response.conditions : FALSE \notin c.audiences
            /\ x.response.signed # "none"
            /\ claims.account = x.response.account

\* The Conditions of a response, or every confirmation of its subject, say when it
\* is over.
Limited(r) ==
    \/ \E c \in r.conditions : c.times.notOnOrAfter # {}
    \/ \A c \in r.confirmations : c.times.notOnOrAfter # {}

\* A response that limits its time logs nobody in when it is delivered too late,
\* even if the clocks of the provider and of dex are off in opposite directions.
LateResponsesFail ==
    connector.type = "saml" =>
        \A x \in accepted :
            Limited(x.response) => x.at <= x.response.at + ValidFor + 2 * Drift

\* Every call of a connector comes to an end, however long the lists it reads
\* and whatever happens to the account meanwhile, unless it waits for the user
\* to come back from a SAML provider.
CallsReturn == call.pc \in Steps \ {"provider"} ~> call.pc \notin Steps

=============================================================================
