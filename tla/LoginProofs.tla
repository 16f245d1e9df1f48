----------------------------- MODULE LoginProofs -----------------------------
(***************************************************************************)
(* Proofs about Login, for any clients, requests, connectors, accounts and *)
(* times: whom a token is for has trusted the client (AudienceTrusts), and *)
(* a SAML response logs the user in only to the request that it answers    *)
(* (SAMLAnswersRequest) and in time (LateResponsesFail).                   *)
(*                                                                         *)
(* The second half has the inductive invariant CInv of what a token says   *)
(* of the user, and shows that the handlers keep it; ConnectorProofs shows *)
(* that the connectors and the changes at the provider do, and concludes.  *)
(***************************************************************************)
EXTENDS Login, TLAPS

\* Leaves are for Zenon, unless they cite SMT.
USE Zenon

-----------------------------------------------------------------------------
(* The audience.                                                           *)

Stages == {"start", "authorized", "loggedIn", "code", "tokens", "end"}

Trusting == {p \in Clients : Trusts(clients, check.request.client, p)}

\* The check in progress knows at least the peers that trust the client now, and
\* has found every peer it has passed to be one that trusted the client.
AudienceInv ==
    /\ AuthorizationTypeOK
    /\ stage \in Stages
    /\ stage # "start" => request \in Request
    /\ check.use # "idle" => check.request \in Request
    /\ check.use \in {"front", "code", "refresh"} => check.request = request
    /\ check.use # "idle" => Trusting \subseteq check.trusting
    /\ check.use # "idle" /\ ~check.untrusted =>
          check.peers \ check.todo \subseteq check.trusting
    /\ AudienceTrusts

\* At first no check is in progress and no token has been issued.
LEMMA AudienceInit == Init => AudienceInv
  BY AuthorizationAssumption, LoginAssumption, SMT
  DEF Init, AudienceInv, AuthorizationTypeOK, Stages, NoCheck, Check, AudienceTrusts, Issued

\* Steps that touch neither clients, request, check nor token: those of the
\* connector, the provider and finalizeLogin.
LEMMA AudienceQuiet ==
  ASSUME AudienceInv, UNCHANGED <<clients, request, check, token>>,
         stage' \in Stages, stage' # "start" => request \in Request
  PROVE  AudienceInv'
  BY DEF AudienceInv, AuthorizationTypeOK, Trusting, Trusts, AudienceTrusts, Issued

\* The loop over the scopes begins (BeginCheck): no peer has been passed yet.
LEMMA AudienceBegin ==
  ASSUME AudienceInv, NEW use \in {"parse", "front", "code", "refresh"}, NEW r \in Request,
         NEW peers \in SUBSET Clients, BeginCheck(use, r, peers),
         use # "parse" => r = request, AudienceTrusts',
         UNCHANGED <<clients, request>>, stage' \in Stages,
         stage' # "start" => request \in Request
  PROVE  AudienceInv'
  <1>1. AuthorizationTypeOK'
    BY DEF AudienceInv, AuthorizationTypeOK, BeginCheck, Check
  <1>2. Trusting' \subseteq check'.trusting
    BY DEF Trusting, Trusts, BeginCheck
  <1>3. check'.peers \ check'.todo = {}
    BY DEF BeginCheck
  <1> QED
    BY <1>1, <1>2, <1>3 DEF AudienceInv, BeginCheck

\* The check is over: what is left to show is about the token.
LEMMA AudienceEnd ==
  ASSUME AudienceInv, check' = NoCheck, UNCHANGED clients, AudienceTrusts',
         request' \in Request \cup {NoRequest}, stage' \in Stages,
         stage' # "start" => request' \in Request
  PROVE  AudienceInv'
  BY DEF AudienceInv, AuthorizationTypeOK, NoCheck, Check

\* CheckPeer passes a peer only if it trusts the client at this moment.
LEMMA AudienceCheckPeer ==
  ASSUME AudienceInv, NEW p, CheckPeer(p), check.use # "idle", UNCHANGED <<stage, token>>
  PROVE  AudienceInv'
  <1>1. p \in Clients /\ check \in Check
    BY DEF AudienceInv, AuthorizationTypeOK, CheckPeer, Check
  <1>2. /\ check' \in Check
        /\ check'.use = check.use /\ check'.request = check.request
        /\ check'.peers = check.peers /\ check'.trusting = check.trusting
        /\ check'.todo = check.todo \ {p}
        /\ ~check'.untrusted => ~check.untrusted /\ Trusts(clients, check.request.client, p)
    BY <1>1 DEF CheckPeer, Check
  <1>3. Trusting' = Trusting
    BY <1>2 DEF Trusting, Trusts, CheckPeer
  <1>4. ~check'.untrusted => check'.peers \ check'.todo \subseteq check'.trusting
    BY <1>1, <1>2 DEF AudienceInv, Trusting
  <1> QED
    BY <1>2, <1>3, <1>4
    DEF AudienceInv, AuthorizationTypeOK, CheckPeer, AudienceTrusts, Issued

\* SetClients (CreateClient and DeleteClient) may end a peer's trust; the check
\* in progress remembers it.
LEMMA AudienceSetClients ==
  ASSUME AudienceInv, NEW new \in [Clients -> Client], SetClients(new),
         UNCHANGED <<stage, token>>
  PROVE  AudienceInv'
  <1>1. check \in Check
    BY DEF AudienceInv, AuthorizationTypeOK
  <1>2. CASE check.use = "idle"
    BY <1>1, <1>2 DEF AudienceInv, AuthorizationTypeOK, SetClients, AudienceTrusts, Issued
  <1>3. CASE check.use # "idle"
    <2>1. /\ check' \in Check
          /\ check'.use = check.use /\ check'.request = check.request
          /\ check'.peers = check.peers /\ check'.todo = check.todo
          /\ check'.untrusted = check.untrusted
          /\ check'.trusting = check.trusting \cup
                {p \in Clients : Trusts(new, check.request.client, p)}
      BY <1>1, <1>3 DEF SetClients, Check
    <2>2. Trusting' = {p \in Clients : Trusts(new, check.request.client, p)}
      BY <2>1 DEF Trusting, Trusts, SetClients
    <2> QED
      BY <1>3, <2>1, <2>2
      DEF AudienceInv, AuthorizationTypeOK, SetClients, AudienceTrusts, Issued
  <1> QED
    BY <1>2, <1>3

\* Every step preserves AudienceInv; only CheckPeer, the admin API and the two
\* actions that issue a token need more than the lemmas on begin and end.
LEMMA AudienceStep ==
  ASSUME AudienceInv, [Next]_vars
  PROVE  AudienceInv'
  <1> USE DEF authorizationVars, loginVars
  <1>1. stage \in Stages /\ (stage # "start" => request \in Request)
    BY DEF AudienceInv
  <1>2. AudienceTrusts /\ (token' = token => AudienceTrusts')
    BY DEF AudienceInv, AudienceTrusts, Issued
  <1>3. ASSUME NEW r \in Asked, HandleAuthorization(r) PROVE AudienceInv'
    <2>1. r \in Request /\ r.peers \in SUBSET Clients
      BY AuthorizationAssumption DEF Request
    <2> QED
      BY <1>1, <1>2, <1>3, <2>1, AudienceBegin DEF HandleAuthorization, ParseBegin
  <1>4. CASE CheckScope
    <2>1. PICK p \in check.todo : CheckPeer(p)
      BY <1>4 DEF CheckScope
    <2>2. CASE check.use # "idle"
      BY <1>4, <2>1, <2>2, AudienceCheckPeer DEF CheckScope
    <2>3. CASE check.use = "idle"
      <3>1. check' = [check EXCEPT !.todo = @ \ {p},
                        !.untrusted = @ \/ ~Trusts(clients, check.request.client, p)]
        BY <2>1 DEF CheckPeer
      <3>2. check' \in Check /\ check'.use = "idle"
        BY <2>3, <3>1 DEF AudienceInv, AuthorizationTypeOK, Check
      <3> QED
        BY <1>2, <1>4, <2>1, <3>2
        DEF CheckScope, CheckPeer, AudienceInv, AuthorizationTypeOK
    <2> QED
      BY <2>2, <2>3
  <1>5. CASE EndAuthorization
    <2>1. check.request \in Request /\ request \in Request \cup {NoRequest}
      BY <1>5 DEF EndAuthorization, AudienceInv, AuthorizationTypeOK
    <2>2. check' = NoCheck /\ UNCHANGED clients /\ AudienceTrusts'
      BY <1>2, <1>5 DEF EndAuthorization
    <2>3. CASE Parsed
      BY <1>5, <2>1, <2>2, <2>3, AudienceEnd DEF EndAuthorization, Stages
    <2>4. CASE ~Parsed
      BY <1>1, <1>5, <2>1, <2>2, <2>4, AudienceEnd DEF EndAuthorization
    <2> QED
      BY <2>3, <2>4
  <1>6. CASE BeginLogin \/ ConnectorStep \/ Provider \/ Leaves \/ CallFailed \/ Change
    BY <1>1, <1>6, AudienceQuiet
    DEF BeginLogin, ConnectorStep, Provider, Leaves, CallFailed, Change
  <1>7. CASE FinalizeLogin
    <2>1. stage # "start" /\ stage' = "loggedIn" /\ UNCHANGED <<clients, request, check, token>>
      BY <1>7 DEF FinalizeLogin
    <2> QED
      BY <1>1, <2>1, AudienceQuiet DEF Stages
  <1>8. CASE SendCodeResponse
    <2>1. request \in Request /\ request.peers \in SUBSET Clients
      BY <1>1, <1>8 DEF SendCodeResponse, Request
    <2>2. CASE "id_token" \in request.types
      BY <1>1, <1>2, <1>8, <2>1, <2>2, AudienceBegin DEF SendCodeResponse
    <2>3. CASE "id_token" \notin request.types
      BY <1>1, <1>8, <2>1, <2>3, AudienceQuiet DEF SendCodeResponse, Stages
    <2> QED
      BY <2>2, <2>3
  <1>9. CASE HandleAuthCode
    <2>1. request \in Request /\ request.peers \in SUBSET Clients
      BY <1>1, <1>9 DEF HandleAuthCode, Request
    <2>2. AudienceTrusts'
      BY <1>9 DEF HandleAuthCode, AudienceTrusts, Issued
    <2> QED
      BY <1>1, <1>9, <2>1, <2>2, AudienceBegin DEF HandleAuthCode
  <1>10. CASE HandleRefreshToken
    BY <1>1, <1>10
    DEF HandleRefreshToken, AudienceInv, AuthorizationTypeOK, Trusting, Trusts,
        AudienceTrusts, Issued
  <1>11. CASE Refreshed
    <2>1. request \in Request /\ request.peers \in SUBSET Clients
      BY <1>1, <1>11 DEF Refreshed, Request
    <2>2. PICK peers \in SUBSET request.peers : BeginCheck("refresh", request, peers)
      BY <1>11 DEF Refreshed
    <2> QED
      BY <1>1, <1>2, <1>11, <2>1, <2>2, AudienceBegin DEF Refreshed
  <1>12. CASE IssueToken \/ RenewToken
    <2>1. /\ check.use \in {"front", "code", "refresh"} /\ check.todo = {}
          /\ ~check.untrusted
          /\ check' = NoCheck /\ UNCHANGED <<clients, request>>
          /\ stage' \in {stage, "code", "tokens", "end"}
      BY <1>12 DEF IssueToken, RenewToken
    <2>2. check.peers \subseteq check.trusting
      BY <2>1 DEF AudienceInv
    <2>3. /\ token'.aud = check.peers \cup {request.client}
          /\ token'.client = request.client /\ token'.trusting = check.trusting
      BY <1>12, SMT DEF IssueToken, RenewToken, NewToken
    <2>4. AudienceTrusts'
      BY <2>2, <2>3 DEF AudienceTrusts
    <2>5. request \in Request
      BY <2>1 DEF AudienceInv
    <2> QED
      BY <1>1, <2>1, <2>4, <2>5, AudienceEnd DEF Stages
  <1>13. CASE EndCheck /\ check.use # "idle"
    <2>1. /\ check' = NoCheck /\ UNCHANGED <<clients, request, token>>
          /\ stage' = IF check.use = "front" THEN "end" ELSE stage
      BY <1>13 DEF EndCheck
    <2>2. check.use = "front" => request \in Request
      BY DEF AudienceInv
    <2>3. request \in Request \cup {NoRequest}
      BY DEF AudienceInv, AuthorizationTypeOK
    <2> QED
      BY <1>1, <1>2, <2>1, <2>2, <2>3, AudienceEnd DEF Stages
  <1>14. CASE Fault
    BY <1>1, <1>13, <1>14, AudienceQuiet DEF Fault
  <1>15. CASE Untrusted
    BY <1>13, <1>15 DEF Untrusted
  <1>16. CASE ChangeClients
    <2>1. PICK c \in Clients, new \in [Clients -> Client] : SetClients(new)
      <3>1. PICK c \in Clients :
               DeleteClient(c) \/ \E peers \in PeerSets : CreateClient(c, peers)
        BY <1>16 DEF ChangeClients
      <3>2. clients \in [Clients -> Client]
        BY DEF AudienceInv, AuthorizationTypeOK
      <3> QED
        BY <3>1, <3>2, LoginAssumption DEF DeleteClient, CreateClient, Client
    <2> QED
      BY <1>16, <2>1, AudienceSetClients DEF ChangeClients
  <1>17. CASE Tick /\ UNCHANGED <<authorizationVars, loginVars>>
    BY <1>1, <1>17, AudienceQuiet
  <1>18. CASE UNCHANGED vars
    BY <1>1, <1>18, AudienceQuiet DEF vars
  <1> QED
    BY <1>3, <1>4, <1>5, <1>6, <1>7, <1>8, <1>9, <1>10, <1>11, <1>12, <1>14, <1>15, <1>16,
       <1>17, <1>18 DEF Next, Handle

\* In every behaviour, the clients that a token is for have trusted the client it
\* was issued to while newIDToken ran: a check that was made at login time, or
\* that reads a client before another request changes it, would not be enough.
THEOREM AudienceTrustsTheorem == Spec => []AudienceTrusts
  <1>1. AudienceInv => AudienceTrusts
    BY DEF AudienceInv
  <1> QED
    BY <1>1, AudienceInit, AudienceStep, PTL DEF Spec

\* A login through SAML: only HandlePOST makes a call succeed, and no other
\* authorization request is stored from then on.
Answers(account) ==
    \E x \in accepted :
        /\ requests \in {c.inResponseTo : c \in x.response.confirmations}
        /\ \A c \in x.response.conditions : FALSE \notin c.audiences
        /\ x.response.signed # "none"
        /\ account = x.response.account

\* A response is over at most so long after it was made.
Ends(r) ==
    /\ r.at \in Nat
    /\ \A c \in r.confirmations \cup r.conditions : \A t \in c.times.notOnOrAfter :
          t \in Int /\ t <= r.at + Drift + ValidFor

\* The responses that were taken were not late.
Punctual ==
    \A x \in accepted : Limited(x.response) => x.at <= x.response.at + ValidFor + 2 * Drift

CallRecord == [pc |-> call.pc, kind |-> call.kind, groupScope |-> call.groupScope,
               identity |-> call.identity, cursor |-> call.cursor, org |-> call.org,
               teams |-> call.teams, inOrgNoTeams |-> call.inOrgNoTeams,
               account |-> call.account]

ClaimsRecord == [identity |-> claims.identity, window |-> claims.window,
                 account |-> claims.account]

SAMLInv ==
    /\ now \in Nat
    /\ \A r \in responses : Ends(r)
    /\ Punctual
    /\ call = CallRecord
    /\ claims = ClaimsRecord
    /\ stage \in {"start", "authorized"} => claims = NoClaims
    /\ stage # "tokens" /\ check.use # "refresh"
    /\ check.use = "parse" => call.pc = "idle" /\ stage \in {"start", "authorized"}
    /\ check.use \in {"front", "code"} => stage \in {"loggedIn", "code"}
    /\ call.pc = "done" => Answers(call.account)
    /\ call.pc # "idle" => stage = "authorized"
    /\ stage \notin {"start", "authorized"} => Answers(claims.account)

SAMLInvariant == connector.type = "saml" => SAMLInv

-----------------------------------------------------------------------------
(* SAML.                                                                   *)

\* The connector of a login stays the same: no step of any connector, of the
\* provider or of a handler changes its configuration.
LEMMA ConnectorFixed == [Next]_vars => connector' = connector
  <1> SUFFICES ASSUME [Next]_vars PROVE connector' = connector
    OBVIOUS
  <1> USE DEF callVars, providerVars, Become
  <1>1. CASE ConnectorStep
    <2>1. CASE GitHub
      BY <2>1 DEF GitHub, GitHubExchange, GitHubUser, userEmail, userInOrg, teamsForOrg,
                  Exchange, ReadProfile
    <2>2. CASE OAuth2
      BY <2>2 DEF OAuth2, OAuth2Exchange, GitLabUser, MicrosoftUser, LinkedInProfile,
                  OIDCExchange, AuthProxy, GitLabGroups, getGroupIDs, getGroupNames,
                  OIDCVerify, Exchange, ReadProfile
    <2>3. CASE LDAP
      BY <2>3 DEF LDAP, LDAPEmptyPassword, userEntry, LDAPBind, LDAPGroups
    <2>4. CASE PasswordConnector
      BY <2>4 DEF PasswordConnector, PasswordLogin, PasswordRefresh
    <2>5. CASE Denied
      BY <2>5 DEF Denied
    <2>6. CASE \E r \in responses : HandlePOST(requests, r)
      BY <2>6 DEF HandlePOST
    <2> QED
      BY <1>1, <2>1, <2>2, <2>3, <2>4, <2>5, <2>6 DEF ConnectorStep
  <1>2. CASE \/ \E r \in Asked : HandleAuthorization(r)
             \/ CheckScope \/ EndAuthorization \/ BeginLogin \/ Provider \/ Leaves
             \/ FinalizeLogin \/ CallFailed \/ SendCodeResponse \/ HandleAuthCode
    BY <1>2 DEF HandleAuthorization, CheckScope, EndAuthorization, BeginLogin, BeginCall,
                Provider, Respond, Leaves, FinalizeLogin, CallFailed, SendCodeResponse,
                HandleAuthCode
  <1>3. CASE \/ HandleRefreshToken \/ Refreshed \/ IssueToken \/ RenewToken \/ Untrusted
             \/ Fault \/ Change \/ ChangeClients
             \/ Tick /\ UNCHANGED <<authorizationVars, loginVars>>
    BY <1>3 DEF HandleRefreshToken, BeginCall, Refreshed, IssueToken, RenewToken, Untrusted,
                EndCheck, Fault, RequestFails, Change, ChangeClients, Tick
  <1>4. CASE UNCHANGED vars
    BY <1>4 DEF vars
  <1> QED
    BY <1>1, <1>2, <1>3, <1>4 DEF Next, Handle

\* At first there is no call, there are no claims and no responses.
LEMMA SAMLInit == Init => SAMLInv
  BY SMT DEF Init, SAMLInv, Punctual, CallRecord, ClaimsRecord, NoCall, NoClaims, NoCheck

\* What a provider states of the time, with a clock that is off by at most Drift.
LEMMA NewResponseEnds ==
  ASSUME now \in Nat, NEW f \in Forms, NEW id, NEW a
  PROVE  Ends(NewResponse(f, id, a))
  <1>1. /\ f.skew \in -Drift .. Drift /\ Drift \in Nat /\ ValidFor \in Nat
    BY SAMLAssumption, SMT DEF Form
  <1>2. ASSUME NEW limits, NEW t \in Stated(limits, now + f.skew).notOnOrAfter
        PROVE  t \in Int /\ t <= now + Drift + ValidFor
    BY <1>1, <1>2, SMT DEF Stated
  <1>3. ASSUME NEW c \in NewResponse(f, id, a).confirmations \cup NewResponse(f, id, a).conditions
        PROVE  \E limits : c.times = Stated(limits, now + f.skew)
    BY <1>3, SMT DEF NewResponse
  <1>4. NewResponse(f, id, a).at = now
    BY DEF NewResponse
  <1> QED
    BY <1>2, <1>3, <1>4 DEF Ends

\* A response that the checks of the subject and of the Conditions let through, and
\* that limits its time, is at most ValidFor + 2 * Drift old.
LEMMA LateOnesAreRefused ==
  ASSUME now \in Nat, NEW r, NEW id, Ends(r), validateSubject(r, id), validateConditions(r),
         Limited(r)
  PROVE  now <= r.at + ValidFor + 2 * Drift
  <1>1. Drift \in Nat /\ ValidFor \in Nat /\ r.at \in Nat
    BY SAMLAssumption DEF Ends
  <1>2. PICK s \in r.confirmations : InTime(s.times)
    BY DEF validateSubject
  <1>3. PICK c \in r.confirmations \cup r.conditions :
           c.times.notOnOrAfter # {} /\ InTime(c.times)
    BY <1>2 DEF Limited, validateConditions
  <1>4. PICK t \in c.times.notOnOrAfter : ~after(t)
    BY <1>3 DEF InTime
  <1>5. t \in Int /\ t <= r.at + Drift + ValidFor
    BY DEF Ends
  <1>6. ~(now > t + Drift)
    BY <1>4 DEF after
  <1> QED
    BY <1>1, <1>5, <1>6, SMT

\* Steps that only go on with a check, or that change clients.
LEMMA SAMLQuiet ==
  ASSUME SAMLInv, UNCHANGED <<now, responses, accepted, call, claims, requests, stage>>,
         check'.use = check.use
  PROVE  SAMLInv'
  BY DEF SAMLInv, CallRecord, ClaimsRecord, Answers, Punctual

\* Steps at which the handler's call is over or has not begun yet: what is left
\* to show is about the stage, the check and the claims.
LEMMA SAMLNoCall ==
  ASSUME SAMLInv, call' = NoCall, UNCHANGED <<now, responses, accepted>>,
         claims' = ClaimsRecord',
         stage' \in {"start", "authorized"} => claims' = NoClaims,
         stage' # "tokens" /\ check'.use # "refresh",
         check'.use = "parse" => stage' \in {"start", "authorized"},
         check'.use \in {"front", "code"} => stage' \in {"loggedIn", "code"},
         stage' \notin {"start", "authorized"} => Answers(claims.account)'
  PROVE  SAMLInv'
  BY DEF SAMLInv, CallRecord, NoCall, Punctual

\* HandlePOST either fails the call, or has found the response to be the answer
\* to this request.
LEMMA SAMLHandlePOST ==
  ASSUME SAMLInv, NEW r, r \in responses, HandlePOST(requests, r),
         UNCHANGED <<check, stage, requests>>
  PROVE  SAMLInv'
  <1>1. /\ call = CallRecord /\ call.pc = "provider"
        /\ stage = "authorized" /\ claims = NoClaims
        /\ now \in Nat /\ Ends(r)
    BY DEF SAMLInv, HandlePOST, At
  <1>2. CASE Verified(r) /\ validateRoot(r, requests) /\ validateSubject(r, requests)
             /\ validateConditions(r)
    <2>1. call'.pc = "done" /\ call'.account = r.account /\ call' = CallRecord'
      BY <1>1, <1>2 DEF HandlePOST, CallRecord
    <2>2. accepted' = {[response |-> r, id |-> requests, at |-> now]}
      BY <1>2 DEF HandlePOST
    <2>3. Punctual'
      <3>1. Limited(r) => now <= r.at + ValidFor + 2 * Drift
        BY <1>1, <1>2, LateOnesAreRefused
      <3>2. \A x \in accepted' : x.response = r /\ x.at = now
        BY <2>2, SMT
      <3> QED
        BY <3>1, <3>2 DEF Punctual, Limited
    <2>4. /\ requests \in {c.inResponseTo : c \in r.confirmations}
          /\ \A c \in r.conditions : FALSE \notin c.audiences
          /\ r.signed # "none"
      BY <1>2 DEF Verified, validateSubject, validateConditions
    <2>5. Answers(call.account)'
      BY <2>1, <2>2, <2>4 DEF Answers
    <2> QED
      BY <1>1, <2>1, <2>3, <2>5 DEF SAMLInv, HandlePOST, ClaimsRecord
  <1>3. CASE ~(Verified(r) /\ validateRoot(r, requests) /\ validateSubject(r, requests)
               /\ validateConditions(r))
    <2>1. call' = [call EXCEPT !.pc = "failed"]
      BY <1>3 DEF HandlePOST, Failed
    <2>2. call'.pc = "failed" /\ call' = CallRecord'
      BY <1>1, <2>1 DEF CallRecord
    <2>3. Punctual'
      BY <1>3 DEF SAMLInv, Punctual, HandlePOST
    <2> QED
      BY <1>1, <2>2, <2>3 DEF SAMLInv, HandlePOST, ClaimsRecord
  <1> QED
    BY <1>2, <1>3

\* Every step of a login through SAML preserves SAMLInv.
LEMMA SAMLStep ==
  ASSUME AudienceInv, SAMLInv, connector.type = "saml", [Next]_vars
  PROVE  SAMLInv'
  <1> USE DEF samlVars, authorizationVars, loginVars, callVars, providerVars
  <1>1. /\ call = CallRecord /\ claims = ClaimsRecord
        /\ stage # "tokens" /\ check.use # "refresh"
    BY DEF SAMLInv
  <1>2. check \in Check
    BY DEF AudienceInv, AuthorizationTypeOK
  <1>3. ASSUME NEW r \in Asked, HandleAuthorization(r) PROVE SAMLInv'
    <2>1. /\ check'.use = "parse" /\ call.pc = "idle" /\ stage \in {"start", "authorized"}
          /\ UNCHANGED <<now, responses, accepted, call, claims, requests, stage>>
      BY <1>3 DEF HandleAuthorization, ParseBegin, BeginCheck, Idle
    <2> QED
      BY <2>1 DEF SAMLInv, CallRecord, ClaimsRecord, Answers, Punctual
  <1>4. CASE CheckScope
    <2>1. check'.use = check.use
      BY <1>2, <1>4 DEF CheckScope, CheckPeer, Check
    <2> QED
      BY <1>4, <2>1, SAMLQuiet DEF CheckScope
  <1>5. CASE EndAuthorization
    <2>1. call.pc = "idle" /\ stage \in {"start", "authorized"} /\ claims = NoClaims
      BY <1>5 DEF EndAuthorization, SAMLInv
    <2>2. /\ stage' \in {stage, "authorized"} /\ check'.use = "idle"
          /\ UNCHANGED <<now, responses, accepted, call, claims>>
      BY <1>5 DEF EndAuthorization, NoCheck
    <2> QED
      BY <2>1, <2>2 DEF SAMLInv, CallRecord, ClaimsRecord, Punctual
  <1>6. CASE BeginLogin
    <2>1. /\ call'.pc = "provider" /\ call' = CallRecord'
          /\ stage = "authorized" /\ check.use = "idle"
          /\ UNCHANGED <<now, responses, accepted, claims, check, stage>>
      BY <1>6 DEF BeginLogin, BeginCall, LoginStep, NoCall, CallRecord, Idle
    <2> QED
      BY <2>1 DEF SAMLInv, ClaimsRecord, Punctual
  <1>7. ASSUME RequestFails \/ Denied,
               UNCHANGED <<now, responses, accepted, requests, stage, check>>
        PROVE  SAMLInv'
    <2>1. call' = [call EXCEPT !.pc = "failed"] /\ UNCHANGED claims /\ call.pc # "idle"
      BY <1>7 DEF RequestFails, Denied, Become, Failed, Steps
    <2>2. call'.pc = "failed" /\ call' = CallRecord'
      BY <1>1, <2>1 DEF CallRecord
    <2>3. Answers(claims.account)' <=> Answers(claims.account)
      BY <1>7, <2>1 DEF Answers
    <2> QED
      BY <1>7, <2>1, <2>2, <2>3 DEF SAMLInv, ClaimsRecord, Punctual
  <1>8. CASE ConnectorStep
    <2>1. ~GitHub
      BY DEF GitHub, GitHubExchange, GitHubUser, userEmail, userInOrg, teamsForOrg, Ask, At
    <2>2. ~OAuth2
      BY DEF OAuth2, OAuth2Exchange, GitLabUser, MicrosoftUser, LinkedInProfile,
             OIDCExchange, AuthProxy, GitLabGroups, getGroupIDs, getGroupNames,
             OIDCVerify, Ask, At
    <2>3. ~LDAP /\ ~PasswordConnector
      BY DEF LDAP, LDAPEmptyPassword, userEntry, LDAPBind, LDAPGroups, PasswordConnector,
             PasswordLogin, PasswordRefresh, At
    <2>4. CASE Denied /\ UNCHANGED samlVars
      BY <1>7, <1>8, <2>4 DEF ConnectorStep
    <2>5. CASE \E r \in responses : HandlePOST(requests, r)
      BY <1>8, <2>5, SAMLHandlePOST DEF ConnectorStep
    <2> QED
      BY <1>8, <2>1, <2>2, <2>3, <2>4, <2>5 DEF ConnectorStep
  <1>9. CASE Provider
    <2>1. PICK a \in accounts : Respond(requests, a)
      BY <1>9 DEF Provider
    <2>2. UNCHANGED <<now, accepted, call, claims, stage, check, requests>>
      BY <1>9, <2>1 DEF Provider, Respond
    <2>3. ASSUME NEW r \in responses' PROVE Ends(r)
      <3>1. PICK f \in Forms : responses' = responses \cup {NewResponse(f, requests, a)}
        BY <2>1 DEF Respond
      <3>2. now \in Nat /\ (r \in responses => Ends(r))
        BY DEF SAMLInv
      <3> QED
        BY <3>1, <3>2, NewResponseEnds
    <2> QED
      BY <2>2, <2>3 DEF SAMLInv, CallRecord, ClaimsRecord, Answers, Punctual
  <1>10. CASE Leaves \/ CallFailed
    <2>1. /\ call' = NoCall
          /\ UNCHANGED <<now, responses, accepted, claims, stage, check, requests>>
      BY <1>10 DEF Leaves, CallFailed
    <2>2. Answers(claims.account)' <=> Answers(claims.account)
      BY <2>1 DEF Answers
    <2>3. claims' = ClaimsRecord'
      BY <1>1, <2>1 DEF ClaimsRecord
    <2> QED
      BY <2>1, <2>2, <2>3, SAMLNoCall DEF SAMLInv
  <1>11. CASE FinalizeLogin
    <2>1. /\ call' = NoCall /\ stage' = "loggedIn" /\ claims' = ClaimsRecord'
          /\ claims'.account = call.account /\ call.pc = "done" /\ stage = "authorized"
          /\ UNCHANGED <<now, responses, accepted, check, requests>>
      BY <1>11 DEF FinalizeLogin, ClaimsRecord
    <2>2. Answers(claims.account)'
      BY <2>1 DEF Answers, SAMLInv
    <2> QED
      BY <2>1, <2>2, SAMLNoCall DEF SAMLInv
  <1>12. CASE SendCodeResponse \/ HandleAuthCode
    <2>1. /\ call.pc = "idle" /\ stage \in {"loggedIn", "code"} /\ stage' \in {stage, "code"}
          /\ UNCHANGED <<now, responses, accepted, call, claims, requests>>
      BY <1>12 DEF SendCodeResponse, HandleAuthCode, Idle
    <2>2. check'.use \in {"idle", "front", "code"}
      BY <1>12, SMT DEF SendCodeResponse, HandleAuthCode, BeginCheck, Idle
    <2>3. call' = CallRecord' /\ claims' = ClaimsRecord'
      BY <1>1, <2>1 DEF CallRecord, ClaimsRecord
    <2>4. Answers(claims.account)'
      BY <2>1 DEF SAMLInv, Answers
    <2> QED
      BY <2>1, <2>2, <2>3, <2>4 DEF SAMLInv, Punctual
  <1>13. CASE HandleRefreshToken \/ Refreshed \/ RenewToken \/ Change
    BY <1>1, <1>13 DEF HandleRefreshToken, Refreshed, RenewToken, Change
  <1>14. CASE IssueToken
    <2>1. /\ stage \in {"loggedIn", "code"} /\ stage' \in {"code", "end"}
          /\ check'.use = "idle"
          /\ claims' \in {claims, [claims EXCEPT !.window = Closed]}
          /\ UNCHANGED <<now, responses, accepted, call, requests>>
      BY <1>14 DEF IssueToken, SAMLInv, CanRefresh, NoCheck
    <2>2. claims' = ClaimsRecord' /\ claims'.account = claims.account
      BY <1>1, <2>1 DEF ClaimsRecord
    <2>3. Answers(claims.account)'
      BY <2>1, <2>2 DEF SAMLInv, Answers
    <2> QED
      BY <2>1, <2>2, <2>3 DEF SAMLInv, CallRecord, Punctual
  <1>15. CASE EndCheck /\ check.use # "idle"
    <2>1. /\ check'.use = "idle" /\ stage' \in {stage, "end"}
          /\ stage' # stage => stage \in {"loggedIn", "code"}
          /\ UNCHANGED <<now, responses, accepted, call, claims, requests>>
      BY <1>15 DEF EndCheck, SAMLInv, NoCheck
    <2> QED
      BY <2>1 DEF SAMLInv, CallRecord, ClaimsRecord, Answers, Punctual
  <1>16. CASE Fault \/ Untrusted
    BY <1>7, <1>15, <1>16 DEF Fault, Untrusted
  <1>17. CASE ChangeClients
    <2>1. check'.use = check.use
      BY <1>2, <1>17 DEF ChangeClients, DeleteClient, CreateClient, SetClients, Check
    <2> QED
      BY <1>17, <2>1, SAMLQuiet DEF ChangeClients
  <1>18. CASE Tick /\ UNCHANGED <<authorizationVars, loginVars>>
    <2>1. now' \in Nat /\ UNCHANGED <<responses, accepted, call, claims, stage, check, requests>>
      BY <1>18, SMT DEF Tick, SAMLInv
    <2> QED
      BY <2>1 DEF SAMLInv, CallRecord, ClaimsRecord, Answers, Punctual
  <1>19. CASE UNCHANGED vars
    BY <1>19, SAMLQuiet DEF vars
  <1> QED
    BY <1>3, <1>4, <1>5, <1>6, <1>8, <1>9, <1>10, <1>11, <1>12, <1>13, <1>14, <1>16, <1>17,
       <1>18, <1>19 DEF Next, Handle

\* In every behaviour, for any number of requests, responses and any times: the
\* claims of a login through SAML are those of a signed response with a subject
\* confirmation for the very authorization request that is being answered, and
\* with no audience restriction for others.
THEOREM SAMLAnswersRequestTheorem == Spec => []SAMLAnswersRequest
  <1>1. Init => AudienceInv /\ SAMLInvariant
    BY AudienceInit, SAMLInit DEF SAMLInvariant
  <1>2. AudienceInv /\ SAMLInvariant /\ [Next]_vars => (AudienceInv /\ SAMLInvariant)'
    BY AudienceStep, SAMLStep, ConnectorFixed DEF SAMLInvariant
  <1>3. SAMLInvariant => SAMLAnswersRequest
    BY DEF SAMLInvariant, SAMLInv, SAMLAnswersRequest, Answers
  <1> QED
    BY <1>1, <1>2, <1>3, PTL DEF Spec

\* In every behaviour, whatever a response states of its time and leaves out: one
\* that limits its time is not taken once it is over by more than the drift of two
\* clocks.
THEOREM LateResponsesFailTheorem == Spec => []LateResponsesFail
  <1>1. Init => AudienceInv /\ SAMLInvariant
    BY AudienceInit, SAMLInit DEF SAMLInvariant
  <1>2. AudienceInv /\ SAMLInvariant /\ [Next]_vars => (AudienceInv /\ SAMLInvariant)'
    BY AudienceStep, SAMLStep, ConnectorFixed DEF SAMLInvariant
  <1>3. SAMLInvariant => LateResponsesFail
    BY DEF SAMLInvariant, SAMLInv, LateResponsesFail, Punctual
  <1> QED
    BY <1>1, <1>2, <1>3, PTL DEF Spec

-----------------------------------------------------------------------------
(* What a token says of the user: the inductive invariant.                 *)

\* Which requests of the handlers and calls of the connector go together.
FlowInv ==
    /\ call.pc # "idle" /\ call.kind = "login" =>
          /\ stage = "authorized" /\ check.use = "idle"
          /\ call.groupScope = ("groups" \in request.scopes)
    /\ call.pc # "idle" /\ call.kind = "refresh" =>
          stage = "tokens" /\ check.use \in {"idle", "refresh"} /\ call.account = claims.account
    /\ check.use = "refresh" => call.pc = "done" /\ call.kind = "refresh"
    /\ check.use \in {"parse", "front", "code"} => call.pc = "idle"
    /\ check.use = "parse" => stage \in {"start", "authorized"}
    /\ check.use = "front" => stage = "loggedIn"
    /\ check.use = "code" => stage = "code"
    /\ stage = "tokens" => CanRefresh
    /\ stage # "start" => requests > 0
    /\ check.use = "parse" => requests < MaxRequests

\* A call in progress has seen what there is now, and what was there all along is
\* there now; a member of a team is a member of its organization.
WindowInv ==
    /\ \A g \in held \cap Groups : OrgOf[g] \in held
    /\ call.pc \in Steps =>
          /\ window.open
          /\ held \subseteq window.ever
          /\ window.always \subseteq held
          /\ accounts \subseteq window.seen

OAuthTypes == {"github", "gitlab", "microsoft", "linkedin"}

\* Connectors whose identities have no groups.
WithoutGroups ==
    \/ connector.type \in {"linkedin", "oidc", "passwordDB", "authproxy"}
    \/ connector.type = "microsoft" /\ ~connector.orgTenant

\* What stays true of the claims of a login: how a refresh finds the account.
Lasting(i, a) ==
    /\ a \in Account
    /\ connector.type \in OAuthTypes => i.ConnectorData = a.id /\ i.UserID = a.id
    /\ connector.type = "oidc" => i.UserID = a.id /\ i.Username = a.id
    /\ connector.type = "passwordDB" => i.UserID = a.id
    /\ connector.type = "ldap" => i.ConnectorData = a.dn
    /\ WithoutGroups => i.Groups = {}

\* OneAccount and MembershipEnforced, of an identity before it is in a token.
Vouched(i, a, w, use) ==
    /\ i.Username = i.UserID
    /\ IF connector.type = "ldap"
       THEN \E b \in w.seen : b.id = i.UserID /\ b.dn = a.dn
       ELSE /\ i.UserID = a.id
            /\ \/ connector.type = "oidc" /\ use = "refresh"
               \/ \E b \in w.seen : b.id = i.UserID

\* What the code enforces of Admitting.
Enforced(use) == IF LegacyOrg THEN {} ELSE Admitting(use)

Admitted(w, use) == Enforced(use) # {} => w.ever \cap Enforced(use) # {}

\* What a call c that has succeeded has established.
DoneInv(c) ==
    /\ Lasting(c.identity, c.account)
    /\ Vouched(c.identity, c.account, window, c.kind)
    /\ Admitted(window, c.kind)
    /\ c.groupScope => AsHeld(c.identity.Groups, window)

\* The claims in storage, until the tokens for the code are sent and after.
ClaimsInv ==
    /\ stage \in {"loggedIn", "code"} =>
          /\ Vouched(claims.identity, claims.account, claims.window, "login")
          /\ Admitted(claims.window, "login")
          /\ "groups" \in request.scopes => AsHeld(claims.identity.Groups, claims.window)
    /\ stage \in {"loggedIn", "code", "tokens"} => Lasting(claims.identity, claims.account)

-----------------------------------------------------------------------------
(* The connectors, in the middle of a call.                                *)

\* The user is an account the call has come across.
Seen(c) == \E b \in window.seen : b.id = c.account.id

\* Those that work with an access token: it is the user's, and the profile read
\* with it is too.
OAuthInv(c) ==
    /\ c.pc = "exchange" => c.kind = "login"
    /\ c.pc # "exchange" =>
          /\ c.account \in Account /\ c.identity.ConnectorData = c.account.id
          /\ c.kind = "refresh" => c.identity.UserID = c.account.id
    /\ c.pc \notin {"exchange", "user"} =>
          /\ c.identity.UserID = c.account.id /\ c.identity.Username = c.account.id
          /\ Seen(c)
    /\ WithoutGroups => c.identity.Groups = {}

\* The place of group g in the list of the user's groups.
Position(g) == Cardinality({k \in Listed : Rank[k] <= Rank[g]})

\* S has every group for which P holds that was there all along and is found on
\* the pages read so far, unless pages have shifted back.
Paged(c, S, P) ==
    /\ S \subseteq window.ever
    /\ ~window.ended => \A g \in window.always \cap P : Position(g) <= c.cursor => g \in S

TeamOrg(c) == IF connector.orgs = <<>> THEN connector.org ELSE connector.orgs[c.org].name

TeamsOf(org) == {g \in Groups : OrgOf[g] = org}

\* The teams that entry i of orgs lets through.
LetThrough(i) ==
    {g \in TeamsOf(connector.orgs[i].name) :
        connector.orgs[i].teams = {} \/ g \in connector.orgs[i].teams}

\* The entries of orgs up to n have been gone through.
OrgsDone(c, n) ==
    /\ c.identity.Groups \subseteq window.ever
    /\ c.inOrgNoTeams \/ c.identity.Groups # {} => window.ever \cap Enforced("login") # {}
    /\ ~window.ended => \A i \in 1 .. n :
          window.always \cap LetThrough(i) \subseteq c.identity.Groups

GitHubInv(c) ==
    /\ c.pc \in {"exchange", "user", "email", "org", "teams"}
    /\ c.pc \in {"exchange", "user"} => c.cursor = 0
    /\ c.pc \in {"exchange", "user", "email"} =>
          c.org = 1 /\ c.teams = {} /\ ~c.inOrgNoTeams
    /\ c.pc = "email" /\ GitHubGroupsRequired(c.groupScope) => c.identity.Groups = {}
    /\ c.pc = "org" => connector.orgs # <<>>
    /\ c.pc \in {"org", "teams"} /\ connector.orgs # <<>> =>
          c.org \in DOMAIN connector.orgs /\ OrgsDone(c, c.org - 1)
    /\ c.pc = "teams" =>
          /\ connector.orgs # <<>> => TeamOrg(c) \in window.ever
          /\ Paged(c, c.teams, TeamsOf(TeamOrg(c)))

GitLabInv(c) ==
    /\ c.pc \in {"exchange", "user", "groups"}
    /\ c.pc \in {"exchange", "user"} => c.cursor = 0
    /\ c.pc = "groups" => Paged(c, c.identity.Groups, Groups)

\* S has every group that was there all along and is ranked up to the cursor.
Linked(c, S) ==
    /\ S \subseteq window.ever
    /\ \A g \in window.always \cap Groups : Rank[g] <= c.cursor => g \in S

MicrosoftInv(c) ==
    /\ c.pc \in {"exchange", "user", "ids", "names"}
    /\ c.pc \in {"exchange", "user"} => c.cursor = 0 /\ c.teams = {}
    /\ c.pc = "ids" => c.identity.Groups = {} /\ Linked(c, c.teams)
    /\ c.pc = "names" =>
          /\ Linked(c, c.identity.Groups)
          /\ c.teams \subseteq window.ever
          /\ window.always \cap Groups \subseteq c.teams
    /\ c.pc \in {"ids", "names"} => connector.orgTenant

LinkedInInv(c) == c.pc \in {"exchange", "user"}

OIDCInv(c) ==
    /\ c.pc \in {"exchange", "verify", "verifyOther"}
    /\ c.kind = "login"
    /\ c.pc = "verify" => c.account \in window.seen /\ Admitted(window, "login")

LDAPInv(c) ==
    /\ c.pc \in {"search", "bind", "groups"}
    /\ c.pc \in {"search", "bind"} => c.cursor = 0
    /\ c.pc = "search" /\ c.kind = "refresh" =>
          c.account \in Account /\ c.identity.ConnectorData = c.account.dn
    /\ c.pc = "bind" => c.kind = "login" /\ c.account \in window.seen
    /\ c.pc = "groups" =>
          /\ Lasting(c.identity, c.account)
          /\ Vouched(c.identity, c.account, window, c.kind)
          /\ c.identity.Groups \subseteq window.ever
          /\ \A g \in window.always \cap Groups :
                AttrOf[g] <= c.cursor => g \in c.identity.Groups

PasswordInv(c) ==
    /\ c.pc = "get"
    /\ c.kind = "refresh" =>
          c.account \in Account /\ c.identity.UserID = c.account.id
    /\ c.identity.Groups = {}

MidInv(c) ==
    /\ c.pc \in Steps =>
          /\ connector.type \in OAuthTypes => OAuthInv(c)
          /\ connector.type = "github" => GitHubInv(c)
          /\ connector.type = "gitlab" => GitLabInv(c)
          /\ connector.type = "microsoft" => MicrosoftInv(c)
          /\ connector.type = "linkedin" => LinkedInInv(c)
          /\ connector.type = "oidc" => OIDCInv(c)
          /\ connector.type = "ldap" => LDAPInv(c)
          /\ connector.type = "passwordDB" => PasswordInv(c)
          /\ connector.type = "authproxy" =>
                c.pc = "header" /\ c.kind = "login" /\ c.identity.Groups = {}
          /\ connector.type = "saml" => c.pc = "provider" /\ c.kind = "login"
    /\ c.pc = "done" => DoneInv(c)

\* The three properties, which are about the token in the last response.
TokenInv == GroupsAsHeld /\ MembershipEnforced /\ OneAccount

CInv ==
    /\ TypeOK
    /\ FlowInv
    /\ WindowInv
    /\ MidInv(call)
    /\ ClaimsInv
    /\ TokenInv

-----------------------------------------------------------------------------
(* What the parts of the invariant depend on.                              *)

\* The configuration of the connector in use.
LEMMA ConfigOf == CallTypeOK => connector \in Config
  BY ConnectorAssumption DEF CallTypeOK

\* The configuration alone decides what is offered, admitted and refreshed.
LEMMA SameConnector ==
  ASSUME connector' = connector
  PROVE  /\ Offered' = Offered /\ (WithoutGroups' <=> WithoutGroups)
         /\ CanRefresh' <=> CanRefresh
         /\ \A use : Enforced(use)' = Enforced(use)
         /\ \A use : Admitting(use)' = Admitting(use)
         /\ LegacyOrg' <=> LegacyOrg
  BY DEF Offered, WithoutGroups, CanRefresh, Enforced, Admitting, LegacyOrg

\* Only a refresh is admitted differently from a login.
LEMMA SameAdmitting == \A use : use # "refresh" => Enforced(use) = Enforced("login")
  BY DEF Enforced, Admitting, LegacyOrg

\* MidInv is about the call, the configuration, the window and the memberships.
LEMMA MidSame ==
  ASSUME UNCHANGED <<connector, window, held>>, NEW c, call' = c, MidInv(c)
  PROVE  MidInv(call)'
  <1> USE SameConnector
  <1>1. OAuthInv(call)' <=> OAuthInv(c)
    BY DEF OAuthInv, Seen
  <1>2. GitHubInv(call)' <=> GitHubInv(c)
    <2>1. \A g : Position(g)' = Position(g)
      BY DEF Position, Listed
    <2>2. TeamOrg(call)' = TeamOrg(c)
      BY DEF TeamOrg
    <2>3. OrgsDone(call, call.org - 1)' <=> OrgsDone(c, c.org - 1)
      BY DEF OrgsDone, LetThrough
    <2>4. Paged(call, call.teams, TeamsOf(TeamOrg(call)))'
             <=> Paged(c, c.teams, TeamsOf(TeamOrg(c)))
      BY <2>1, <2>2 DEF Paged, TeamsOf
    <2> QED
      BY <2>2, <2>3, <2>4 DEF GitHubInv, GitHubGroupsRequired
  <1>3. GitLabInv(call)' <=> GitLabInv(c)
    BY DEF GitLabInv, Paged, Position, Listed
  <1>4. MicrosoftInv(call)' <=> MicrosoftInv(c)
    BY DEF MicrosoftInv, Linked
  <1>5. LinkedInInv(call)' <=> LinkedInInv(c)
    BY DEF LinkedInInv
  <1>6. OIDCInv(call)' <=> OIDCInv(c)
    BY DEF OIDCInv, Admitted
  <1>7. LDAPInv(call)' <=> LDAPInv(c)
    BY DEF LDAPInv, Lasting, Vouched
  <1>8. PasswordInv(call)' <=> PasswordInv(c)
    BY DEF PasswordInv
  <1>9. DoneInv(call)' <=> DoneInv(c)
    BY DEF DoneInv, Lasting, Vouched, Admitted, AsHeld
  <1> QED
    BY <1>1, <1>2, <1>3, <1>4, <1>5, <1>6, <1>7, <1>8, <1>9, SMT DEF MidInv

\* Where a call begins, MidInv is about the call and the configuration only.
LEMMA MidBegin ==
  ASSUME connector' = connector, NEW c, call' = c, MidInv(c),
         c.pc \in {"exchange", "user", "search", "get", "header", "provider"}
  PROVE  MidInv(call)'
  <1> USE SameConnector
  <1>1. connector.type \in OAuthTypes => OAuthInv(call)'
    <2>1. connector.type \in OAuthTypes => OAuthInv(c) /\ c.pc \in {"exchange", "user"}
      BY DEF MidInv, OAuthTypes, GitHubInv, GitLabInv, MicrosoftInv, LinkedInInv, Steps
    <2> QED
      BY <2>1 DEF OAuthInv
  <1>2. GitHubInv(c) => GitHubInv(call)'
    <2>1. call'.pc \notin {"email", "org", "teams"}
      OBVIOUS
    <2> QED
      BY <2>1 DEF GitHubInv
  <1>3. GitLabInv(c) => GitLabInv(call)'
    BY DEF GitLabInv
  <1>4. MicrosoftInv(c) => MicrosoftInv(call)'
    BY DEF MicrosoftInv
  <1>5. LinkedInInv(c) => LinkedInInv(call)'
    BY DEF LinkedInInv
  <1>6. OIDCInv(c) => OIDCInv(call)'
    BY DEF OIDCInv
  <1>7. LDAPInv(c) => LDAPInv(call)'
    BY DEF LDAPInv
  <1>8. PasswordInv(c) => PasswordInv(call)'
    BY DEF PasswordInv
  <1> QED
    BY <1>1, <1>2, <1>3, <1>4, <1>5, <1>6, <1>7, <1>8, SMT DEF MidInv, OAuthTypes

\* The claims in storage, and the token in the last response.
LEMMA ClaimsSame ==
  ASSUME ClaimsInv, UNCHANGED <<connector, claims>>,
         stage' \in {"loggedIn", "code", "tokens"} => stage \in {"loggedIn", "code", "tokens"},
         stage' \in {"loggedIn", "code"} => request' = request /\ stage \in {"loggedIn", "code"}
  PROVE  ClaimsInv'
  BY SameConnector DEF ClaimsInv, Lasting, Vouched, Admitted, AsHeld

\* A token stays what it was, and no token is no harm.
LEMMA TokenSame ==
  ASSUME TokenInv, connector' = connector, token' = token \/ token' = NoToken
  PROVE  TokenInv'
  <1>1. CASE token' = token
    BY <1>1, SameConnector
    DEF TokenInv, GroupsAsHeld, MembershipEnforced, RestrictionsEnforced, OneAccount, Issued,
        AsHeld
  <1>2. CASE token' = NoToken
    BY <1>2
    DEF TokenInv, GroupsAsHeld, MembershipEnforced, RestrictionsEnforced, OneAccount, Issued
  <1> QED
    BY <1>1, <1>2

-----------------------------------------------------------------------------
(* The steps of a login.                                                   *)

\* At first there is no call, there are no claims and there is no token.
LEMMA ConnectorsInit == Init => CInv
  <1> SUFFICES ASSUME Init PROVE CInv
    OBVIOUS
  <1> USE DEF Init
  <1>1. ProviderTypeOK
    BY ProviderAssumption, LoginAssumption, SMT DEF ProviderTypeOK, Closed, Window
  <1>2. CallTypeOK
    BY DEF CallTypeOK, NoCall, Call, NoIdentity, Identity, NoClaims, Claims, Closed, Window
  <1>3. SAMLTypeOK /\ requests \in 0 .. MaxRequests
    BY SAMLAssumption, SMTT(30) DEF SAMLTypeOK
  <1>4. AuthorizationTypeOK
    BY AudienceInit DEF AudienceInv
  <1>5. FlowInv
    BY DEF FlowInv, NoCall, NoCheck
  <1>6. WindowInv /\ MidInv(call)
    BY LoginAssumption DEF WindowInv, MidInv, NoCall, Steps
  <1>7. ClaimsInv /\ TokenInv
    BY DEF ClaimsInv, TokenInv, GroupsAsHeld, MembershipEnforced, RestrictionsEnforced,
           OneAccount, Issued
  <1> QED
    BY <1>1, <1>2, <1>3, <1>4, <1>5, <1>6, <1>7 DEF CInv, TypeOK

\* A connector is at work.
Ready ==
    /\ ProviderTypeOK /\ CallTypeOK /\ WindowInv /\ MidInv(call)
    /\ call.pc \in Steps

\* What a step of a connector leaves behind: call c.
Goes(c) ==
    /\ c \in Call
    /\ c.pc # "idle" /\ c.kind = call.kind /\ c.groupScope = call.groupScope
    /\ call.kind = "refresh" => c.account = call.account
    /\ MidInv(c)

\* Every connector may return an error or refuse the credentials.
LEMMA FailedGoes == Ready => Goes(Failed) /\ Goes(Refused)
  <1> SUFFICES ASSUME Ready PROVE Goes(Failed) /\ Goes(Refused)
    OBVIOUS
  <1>1. call \in Call
    BY DEF Ready, CallTypeOK
  <1>2. /\ Failed \in Call /\ Failed.pc = "failed" /\ Failed.kind = call.kind
        /\ Failed.groupScope = call.groupScope /\ Failed.account = call.account
    BY <1>1 DEF Failed, Call
  <1>3. /\ Refused \in Call /\ Refused.pc = "refused" /\ Refused.kind = call.kind
        /\ Refused.groupScope = call.groupScope /\ Refused.account = call.account
    BY <1>1 DEF Refused, Call
  <1> QED
    BY <1>2, <1>3 DEF Goes, MidInv, Steps

\* Steps of a connector.
LEMMA StepOfConnector ==
  ASSUME AudienceInv', CInv, call.pc \in Steps, NEW c, Become(c), Goes(c),
         UNCHANGED <<samlVars, authorizationVars, loginVars>>
  PROVE  CInv'
  <1> USE DEF samlVars, authorizationVars, loginVars, providerVars, Become
  <1>1. ProviderTypeOK' /\ CallTypeOK'
    BY DEF CInv, TypeOK, ProviderTypeOK, CallTypeOK, Goes
  <1>2. SAMLTypeOK' /\ AuthorizationTypeOK'
    BY DEF CInv, TypeOK, SAMLTypeOK, AudienceInv
  <1>3. TypeOK'
    BY <1>1, <1>2 DEF CInv, TypeOK
  <1>4. call.pc # "idle" /\ call.pc # "done"
    BY DEF Steps
  <1>5. FlowInv'
    BY <1>4, SameConnector DEF CInv, FlowInv, Goes
  <1>6. WindowInv'
    BY DEF CInv, WindowInv
  <1>7. MidInv(call)'
    BY MidSame DEF Goes
  <1>8. ClaimsInv' /\ TokenInv'
    BY ClaimsSame, TokenSame DEF CInv
  <1> QED
    BY <1>3, <1>5, <1>6, <1>7, <1>8 DEF CInv

\* Steps at which a call is over: what is left to show is about the handlers.
LEMMA CallOver ==
  ASSUME CInv, call' = NoCall, window' = Closed, UNCHANGED <<connector, accounts, held, changes>>
  PROVE  ProviderTypeOK' /\ call' \in Call /\ WindowInv' /\ MidInv(call)'
  <1>1. ProviderTypeOK'
    BY DEF CInv, TypeOK, ProviderTypeOK, Closed, Window
  <1>2. call' \in Call
    BY DEF NoCall, Call, NoIdentity, Identity
  <1>3. WindowInv' /\ MidInv(call)'
    BY DEF CInv, WindowInv, MidInv, NoCall, Steps
  <1> QED
    BY <1>1, <1>2, <1>3

\* Steps that leave a call, or the lack of one, alone.
LEMMA CallSame ==
  ASSUME CInv, UNCHANGED <<call, window, connector, accounts, held>>, changes' \in 0 .. MaxChanges
  PROVE  ProviderTypeOK' /\ call' \in Call /\ WindowInv' /\ MidInv(call)'
  <1>1. ProviderTypeOK' /\ call' \in Call
    BY DEF CInv, TypeOK, ProviderTypeOK, CallTypeOK
  <1>2. WindowInv'
    BY DEF CInv, WindowInv
  <1>3. PICK c : c = call
    OBVIOUS
  <1>4. MidInv(call)'
    BY <1>3, MidSame DEF CInv
  <1> QED
    BY <1>1, <1>2, <1>4

\* Steps of handlers that ask no connector and issue no token.
LEMMA QuietStep ==
  ASSUME AudienceInv', CInv, UNCHANGED <<call, window, connector, accounts, held, claims>>,
         changes' \in 0 .. MaxChanges, token' = token \/ token' = NoToken, SAMLTypeOK',
         requests' \in 0 .. MaxRequests, FlowInv',
         stage' \in {"loggedIn", "code", "tokens"} => stage \in {"loggedIn", "code", "tokens"},
         stage' \in {"loggedIn", "code"} => request' = request /\ stage \in {"loggedIn", "code"}
  PROVE  CInv'
  <1>1. ProviderTypeOK' /\ call' \in Call /\ WindowInv' /\ MidInv(call)'
    BY CallSame
  <1>2. TypeOK'
    BY <1>1 DEF CInv, TypeOK, CallTypeOK, AudienceInv, Stages
  <1>3. ClaimsInv' /\ TokenInv'
    BY ClaimsSame, TokenSame DEF CInv
  <1> QED
    BY <1>1, <1>2, <1>3 DEF CInv

\* A response is what Response says.
LEMMA NewResponseType ==
  ASSUME now \in Nat, held \in SUBSET Memberships, NEW f \in Forms, NEW id \in RequestIDs,
         NEW a \in Account
  PROVE  NewResponse(f, id, a) \in Response
  <1>1. f \in Form /\ Drift \in Nat /\ ValidFor \in Nat /\ MaxRequests \in Nat
    BY SAMLAssumption
  <1>2. now + f.skew \in Int
    BY <1>1, SMT DEF Form
  <1>3. \A limits : Stated(limits, now + f.skew) \in Times
    BY <1>1, <1>2, SMT DEF Stated, Times
  <1>4. {id, 0} \subseteq 0 .. MaxRequests
    BY <1>1, SMT DEF RequestIDs
  <1>5. NewResponse(f, id, a).confirmations \subseteq Confirmation
    BY <1>3, <1>4, SMT DEF NewResponse, Confirmation
  <1>6. ASSUME NEW c \in f.conditioned
        PROVE  [times |-> Stated(c.limits, now + f.skew), audiences |-> c.audiences] \in Conditions
    <2>1. c.audiences \in SUBSET BOOLEAN
      BY <1>1, <1>6, SMT DEF Form
    <2> QED
      BY <1>3, <2>1 DEF Conditions
  <1>7. NewResponse(f, id, a).conditions \subseteq Conditions
    BY <1>6, SMT DEF NewResponse
  <1>8. f.signed \in {"response", "assertion", "none"} /\ f.success \in BOOLEAN
    BY <1>1, SMT DEF Form
  <1> QED
    BY <1>4, <1>5, <1>7, <1>8, SMT DEF NewResponse, Response

\* Such are the steps of handleAuthorization, sendCodeResponse and handleAuthCode,
\* those of the checks, of the admin API, of the SAML provider and of the clock.
LEMMA StepOfHandler ==
  ASSUME AudienceInv, AudienceInv', CInv,
         \/ \E r \in Asked : HandleAuthorization(r)
         \/ CheckScope \/ EndAuthorization \/ SendCodeResponse \/ HandleAuthCode \/ Refreshed
         \/ Provider \/ ChangeClients
         \/ Tick /\ UNCHANGED <<authorizationVars, loginVars>>
         \/ UNCHANGED vars
  PROVE  CInv'
  <1> USE DEF samlVars, authorizationVars, loginVars, callVars, providerVars
  <1>1. /\ check \in Check /\ changes \in 0 .. MaxChanges /\ SAMLTypeOK
        /\ requests \in 0 .. MaxRequests /\ FlowInv
    BY DEF AudienceInv, AuthorizationTypeOK, CInv, TypeOK, ProviderTypeOK
  <1>2. UNCHANGED <<now, responses, accepted>> => SAMLTypeOK'
    BY <1>1 DEF SAMLTypeOK
  <1>3. CASE \E r \in Asked : HandleAuthorization(r)
    <2>1. /\ check'.use = "parse" /\ call.pc = "idle" /\ stage \in {"start", "authorized"}
          /\ requests < MaxRequests
          /\ UNCHANGED <<providerVars, callVars, samlVars, loginVars, request>>
      BY <1>3, SMTT(30) DEF HandleAuthorization, ParseBegin, BeginCheck, Idle
    <2>2. FlowInv'
      BY <1>1, <2>1, SameConnector DEF FlowInv
    <2> QED
      BY <1>1, <1>2, <2>1, <2>2, QuietStep
  <1>4. CASE CheckScope \/ ChangeClients \/ UNCHANGED vars
    <2>1. check'.use = check.use
      BY <1>1, <1>4 DEF CheckScope, CheckPeer, ChangeClients, DeleteClient, CreateClient,
                        SetClients, Check, vars
    <2>2. /\ UNCHANGED <<accounts, held, window, callVars, samlVars, loginVars, request>>
          /\ changes' \in 0 .. MaxChanges
      <3>1. CASE CheckScope \/ UNCHANGED vars
        BY <1>1, <3>1 DEF CheckScope, CheckPeer, vars
      <3>2. CASE ChangeClients
        <4>1. UNCHANGED <<accounts, held, window, callVars, samlVars, loginVars, request>>
          BY <3>2 DEF ChangeClients, DeleteClient, CreateClient, SetClients
        <4>2. changes' \in 0 .. MaxChanges
          BY <1>1, <3>2, ProviderAssumption, SMT DEF ChangeClients, Count
        <4> QED
          BY <4>1, <4>2
      <3> QED
        BY <1>4, <3>1, <3>2
    <2>3. FlowInv'
      BY <1>1, <2>1, <2>2, SameConnector DEF FlowInv
    <2> QED
      BY <1>1, <1>2, <2>2, <2>3, QuietStep
  <1>5. CASE EndAuthorization
    <2>1. /\ check.use = "parse" /\ check'.use = "idle"
          /\ UNCHANGED <<token, providerVars, callVars, samlVars>>
          /\ \/ request' = request /\ stage' = stage /\ requests' = requests
             \/ stage' = "authorized" /\ requests' = requests + 1
      BY <1>5 DEF EndAuthorization, NoCheck
    <2>2. call.pc = "idle" /\ stage \in {"start", "authorized"} /\ requests < MaxRequests
      BY <1>1, <2>1 DEF FlowInv
    <2>3. requests' \in 0 .. MaxRequests /\ (stage' # "start" => requests' > 0)
      BY <1>1, <2>1, <2>2, SAMLAssumption, SMT DEF FlowInv
    <2>4. FlowInv'
      BY <2>1, <2>2, <2>3 DEF FlowInv
    <2> QED
      BY <1>1, <1>2, <2>1, <2>2, <2>3, <2>4, QuietStep
  <1>6. CASE SendCodeResponse
    <2>1. /\ call.pc = "idle" /\ check.use = "idle" /\ stage = "loggedIn"
          /\ \/ check'.use = "front" /\ stage' = "loggedIn"
             \/ check'.use = "idle" /\ stage' = "code"
          /\ UNCHANGED <<request, requests, token, providerVars, callVars, samlVars>>
      BY <1>6, SMT DEF SendCodeResponse, Idle, BeginCheck
    <2>2. FlowInv'
      BY <1>1, <2>1 DEF FlowInv
    <2> QED
      BY <1>1, <1>2, <2>1, <2>2, QuietStep
  <1>7. CASE HandleAuthCode
    <2>1. /\ call.pc = "idle" /\ check'.use = "code" /\ stage = "code" /\ token' = NoToken
          /\ UNCHANGED <<request, stage, requests, providerVars, callVars, samlVars>>
      BY <1>7 DEF HandleAuthCode, Idle, BeginCheck
    <2>2. FlowInv'
      BY <1>1, <2>1 DEF FlowInv
    <2> QED
      BY <1>1, <1>2, <2>1, <2>2, QuietStep
  <1>8. CASE Refreshed
    <2>1. /\ call.pc = "done" /\ call.kind = "refresh" /\ check'.use = "refresh"
          /\ UNCHANGED <<request, providerVars, callVars, samlVars, loginVars>>
      BY <1>8, SMTT(30) DEF Refreshed, BeginCheck
    <2>2. FlowInv'
      BY <1>1, <2>1, SameConnector DEF FlowInv
    <2> QED
      BY <1>1, <1>2, <2>1, <2>2, QuietStep
  <1>9. CASE Tick /\ UNCHANGED <<authorizationVars, loginVars>>
    <2>1. /\ now' \in 0 .. MaxTime /\ UNCHANGED <<responses, accepted, callVars, providerVars>>
      BY <1>1, <1>9, SAMLAssumption, SMTT(30) DEF Tick, SAMLTypeOK
    <2>2. SAMLTypeOK'
      BY <1>1, <2>1 DEF SAMLTypeOK
    <2>3. FlowInv'
      BY <1>1, <1>9, <2>1, SameConnector DEF FlowInv
    <2> QED
      BY <1>1, <1>9, <2>1, <2>2, <2>3, QuietStep
  <1>10. CASE Provider
    <2>1. PICK a \in accounts : Respond(requests, a)
      BY <1>10 DEF Provider
    <2>2. /\ UNCHANGED <<now, accepted, callVars, providerVars, authorizationVars, loginVars>>
          /\ connector.type = "saml" /\ call.pc = "provider"
      BY <1>10, <2>1 DEF Provider, Respond, At
    <2>3. /\ requests \in RequestIDs /\ a \in Account /\ held \in SUBSET Memberships
          /\ now \in Nat /\ Drift \in Nat
      <3>1. call.kind = "login" /\ call.pc # "idle"
        BY <2>2 DEF CInv, MidInv, Steps
      <3>2. requests > 0
        BY <1>1, <3>1 DEF FlowInv
      <3> QED
        BY <1>1, <3>2, SAMLAssumption, SMTT(30)
        DEF CInv, TypeOK, ProviderTypeOK, SAMLTypeOK, RequestIDs
    <2>4. responses' \subseteq Response
      <3>1. PICK f \in Forms : responses' = responses \cup {NewResponse(f, requests, a)}
        BY <2>1 DEF Respond
      <3>2. NewResponse(f, requests, a) \in Response
        BY <2>3, NewResponseType
      <3> QED
        BY <1>1, <3>1, <3>2 DEF SAMLTypeOK
    <2>5. SAMLTypeOK'
      BY <1>1, <2>2, <2>4 DEF SAMLTypeOK
    <2>6. FlowInv'
      BY <1>1, <2>2, SameConnector DEF FlowInv
    <2> QED
      BY <1>1, <2>2, <2>5, <2>6, QuietStep
  <1> QED
    BY <1>3, <1>4, <1>5, <1>6, <1>7, <1>8, <1>9, <1>10

\* A call begins: nothing has been read yet, and a refresh starts from the claims.
LEMMA LoginBegins ==
  ASSUME CInv, BeginCall("login", call'.groupScope), call'.groupScope \in BOOLEAN
  PROVE  /\ call' \in Call /\ MidInv(call)'
         /\ call'.kind = "login" /\ call'.pc # "idle"
  <1>1. PICK c : c = [NoCall EXCEPT !.pc = LoginStep(connector.type),
                                    !.groupScope = call'.groupScope]
    OBVIOUS
  <1>2. /\ connector.type \in Types
        /\ LoginStep(connector.type)
              \in {"exchange", "search", "get", "header", "provider"}
    BY ConfigOf DEF CInv, TypeOK, CallTypeOK, Config, LoginStep, Types
  <1>3. /\ c \in Call /\ c.pc = LoginStep(connector.type) /\ c.kind = "login"
        /\ c.identity = NoIdentity /\ c.cursor = 0
        /\ c.org = 1 /\ c.teams = {} /\ ~c.inOrgNoTeams
    BY <1>1, <1>2 DEF NoCall, Call, NoIdentity, Identity, Steps
  <1>4. c.identity.Groups = {}
    BY <1>3, SMTT(30) DEF NoIdentity
  <1>5. connector.type \in OAuthTypes => OAuthInv(c) /\ c.pc = "exchange"
    BY <1>3, <1>4 DEF OAuthInv, LoginStep, OAuthTypes
  <1>6. /\ connector.type = "github" => GitHubInv(c)
        /\ connector.type = "gitlab" => GitLabInv(c)
        /\ connector.type = "microsoft" => MicrosoftInv(c)
        /\ connector.type = "linkedin" => LinkedInInv(c)
    BY <1>3, <1>5 DEF GitHubInv, GitLabInv, MicrosoftInv, LinkedInInv, OAuthTypes
  <1>7. /\ connector.type = "oidc" => OIDCInv(c)
        /\ connector.type = "ldap" => LDAPInv(c)
        /\ connector.type = "passwordDB" => PasswordInv(c)
    BY <1>3, <1>4 DEF OIDCInv, LDAPInv, PasswordInv, LoginStep
  <1>8. /\ connector.type = "authproxy" => c.pc = "header"
        /\ connector.type = "saml" => c.pc = "provider"
    BY <1>3 DEF LoginStep
  <1>9. MidInv(c)
    BY <1>2, <1>3, <1>4, <1>5, <1>6, <1>7, <1>8 DEF MidInv
  <1>10. call' = c /\ connector' = connector
    BY <1>1 DEF BeginCall
  <1> QED
    BY <1>2, <1>3, <1>9, <1>10, MidBegin

\* A refresh goes by what the claims have kept.
LEMMA RefreshBegins ==
  ASSUME CInv, BeginCall("refresh", call'.groupScope), call'.groupScope \in BOOLEAN,
         stage = "tokens"
  PROVE  /\ call' \in Call /\ MidInv(call)'
         /\ call'.kind = "refresh" /\ call'.pc # "idle" /\ call'.account = claims.account
  <1>1. PICK c : c = [NoCall EXCEPT !.pc = RefreshStep(connector.type), !.kind = "refresh",
                                    !.groupScope = call'.groupScope,
                                    !.identity = claims.identity,
                                    !.account = claims.account]
    OBVIOUS
  <1>2. /\ connector.type \in Types /\ CanRefresh /\ claims \in Claims
        /\ Lasting(claims.identity, claims.account)
    BY ConfigOf DEF CInv, TypeOK, CallTypeOK, Config, FlowInv, ClaimsInv
  <1>3. RefreshStep(connector.type) \in {"user", "search", "get", "done"}
    BY <1>2 DEF RefreshStep, Types, CanRefresh
  <1>4. /\ c \in Call /\ c.pc = RefreshStep(connector.type) /\ c.kind = "refresh"
        /\ c.identity = claims.identity /\ c.account = claims.account /\ c.cursor = 0
        /\ c.org = 1 /\ c.teams = {} /\ ~c.inOrgNoTeams
    BY <1>1, <1>2, <1>3 DEF NoCall, Call, Claims, Steps
  <1>5. Lasting(c.identity, c.account)
    BY <1>2, <1>4
  <1>6. call' = c /\ connector' = connector
    BY <1>1 DEF BeginCall
  <1>7. CASE connector.type # "oidc"
    <2>1. connector.type \in OAuthTypes => OAuthInv(c) /\ c.pc = "user"
      BY <1>4, <1>5 DEF OAuthInv, RefreshStep, OAuthTypes, Lasting
    <2>2. /\ connector.type = "github" => GitHubInv(c)
          /\ connector.type = "gitlab" => GitLabInv(c)
          /\ connector.type = "microsoft" => MicrosoftInv(c)
          /\ connector.type = "linkedin" => LinkedInInv(c)
      BY <1>4, <2>1 DEF GitHubInv, GitLabInv, MicrosoftInv, LinkedInInv, OAuthTypes
    <2>3. /\ connector.type = "ldap" => LDAPInv(c)
          /\ connector.type = "passwordDB" => PasswordInv(c)
      BY <1>4, <1>5 DEF LDAPInv, PasswordInv, RefreshStep, Lasting, WithoutGroups
    <2>4. c.pc \in {"user", "search", "get"}
      BY <1>2, <1>4, <1>7 DEF RefreshStep, Types, CanRefresh
    <2>5. MidInv(c)
      BY <1>2, <1>7, <2>1, <2>2, <2>3, <2>4 DEF MidInv, CanRefresh
    <2> QED
      BY <1>4, <1>6, <2>4, <2>5, MidBegin
  <1>8. CASE connector.type = "oidc"
    <2>1. call'.pc = "done"
      BY <1>4, <1>6, <1>8 DEF RefreshStep
    <2>2. /\ claims.account \in Account /\ claims.identity.UserID = claims.account.id
          /\ claims.identity.Username = claims.account.id /\ claims.identity.Groups = {}
      BY <1>2, <1>8 DEF Lasting, WithoutGroups
    <2>3. Lasting(call.identity, call.account)'
      BY <1>4, <1>6, <1>8, <2>2 DEF Lasting, OAuthTypes
    <2>4. Vouched(call.identity, call.account, window, call.kind)'
      BY <1>4, <1>6, <1>8, <2>2 DEF Vouched
    <2>5. Admitted(window, call.kind)' /\ AsHeld(call.identity.Groups, window)'
      BY <1>4, <1>6, <1>8, <2>2 DEF Admitted, Enforced, Admitting, LegacyOrg, AsHeld, Offered
    <2>6. MidInv(call)'
      BY <2>1, <2>3, <2>4, <2>5 DEF MidInv, DoneInv, Steps
    <2> QED
      BY <1>4, <1>6, <2>1, <2>6
  <1> QED
    BY <1>7, <1>8

\* handleConnectorLogin, handleConnectorCallback and handleRefreshToken, up to the
\* connector.
LEMMA StepOfBegin ==
  ASSUME AudienceInv', CInv, BeginLogin \/ HandleRefreshToken
  PROVE  CInv'
  <1> USE DEF samlVars, authorizationVars, loginVars
  <1>1. /\ window' = OpenWindow
        /\ UNCHANGED <<connector, claims, accounts, held, changes, samlVars, stage, requests,
                       check, request>>
        /\ token' = token \/ token' = NoToken
        /\ check.use = "idle"
    BY DEF BeginLogin, HandleRefreshToken, BeginCall, Idle
  <1>2. ProviderTypeOK'
    BY <1>1 DEF CInv, TypeOK, ProviderTypeOK, OpenWindow, Window
  <1>3. WindowInv'
    BY <1>1 DEF CInv, WindowInv, OpenWindow
  <1>4. ClaimsInv' /\ TokenInv'
    BY <1>1, ClaimsSame, TokenSame DEF CInv
  <1>5. call' \in Call /\ MidInv(call)' /\ FlowInv'
    <2>1. CASE BeginLogin
      <3>1. call'.groupScope = ("groups" \in request.scopes)
        BY <2>1 DEF BeginLogin, BeginCall, NoCall
      <3>2. /\ call' \in Call /\ MidInv(call)'
            /\ call'.kind = "login" /\ call'.pc # "idle"
        BY <2>1, <3>1, LoginBegins, SMT DEF BeginLogin
      <3>3. FlowInv'
        BY <1>1, <2>1, <3>1, <3>2 DEF BeginLogin, FlowInv, CInv
      <3> QED
        BY <3>2, <3>3
    <2>2. CASE HandleRefreshToken
      <3>1. PICK groups \in BOOLEAN : BeginCall("refresh", groups)
        BY <2>2 DEF HandleRefreshToken
      <3>2. call'.groupScope = groups
        BY <3>1 DEF BeginCall, NoCall
      <3>3. stage = "tokens"
        BY <2>2 DEF HandleRefreshToken
      <3>4. /\ call' \in Call /\ MidInv(call)'
            /\ call'.kind = "refresh" /\ call'.pc # "idle" /\ call'.account = claims.account
        BY <3>1, <3>2, <3>3, RefreshBegins
      <3>5. FlowInv'
        BY <1>1, <3>3, <3>4, SameConnector DEF FlowInv, CInv
      <3> QED
        BY <3>4, <3>5
    <2> QED
      BY <2>1, <2>2
  <1>6. TypeOK'
    BY <1>1, <1>2, <1>5 DEF CInv, TypeOK, CallTypeOK, SAMLTypeOK, AudienceInv
  <1> QED
    BY <1>2, <1>3, <1>4, <1>5, <1>6 DEF CInv

\* Leaves, an error of the connector, finalizeLogin.
LEMMA StepOfEnd ==
  ASSUME AudienceInv', CInv, Leaves \/ CallFailed \/ FinalizeLogin
  PROVE  CInv'
  <1> USE DEF samlVars, authorizationVars, loginVars
  <1>1. /\ call' = NoCall /\ window' = Closed
        /\ UNCHANGED <<connector, accounts, held, changes, samlVars, requests, token, check,
                       request>>
        /\ call.pc # "idle"
    BY DEF Leaves, CallFailed, FinalizeLogin, At
  <1>2. ProviderTypeOK' /\ call' \in Call /\ WindowInv' /\ MidInv(call)'
    BY <1>1, CallOver
  <1>3. call'.pc = "idle"
    BY <1>1 DEF NoCall
  <1>4. TokenInv'
    BY <1>1, TokenSame DEF CInv
  <1>5. claims' \in Claims /\ FlowInv' /\ ClaimsInv'
    <2>1. CASE Leaves \/ CallFailed
      <3>1. UNCHANGED <<claims, stage>> /\ call.pc # "done"
        BY <2>1 DEF Leaves, CallFailed, At
      <3>2. claims' \in Claims
        BY <3>1 DEF CInv, TypeOK, CallTypeOK
      <3>3. FlowInv'
        BY <1>1, <1>3, <3>1, SameConnector DEF CInv, FlowInv
      <3> QED
        BY <1>1, <3>1, <3>2, <3>3, ClaimsSame DEF CInv
    <2>2. CASE FinalizeLogin
      <3>1. /\ stage' = "loggedIn" /\ call.pc = "done" /\ call.kind = "login"
            /\ claims' = [identity |-> call.identity, window |-> window,
                          account |-> call.account]
        BY <2>2 DEF FinalizeLogin
      <3>2. call \in Call /\ window \in Window
        BY DEF CInv, TypeOK, CallTypeOK, ProviderTypeOK
      <3>3. claims' \in Claims
        BY <3>1, <3>2 DEF Call, Claims
      <3>4. /\ check.use = "idle" /\ stage = "authorized"
            /\ call.groupScope = ("groups" \in request.scopes)
        BY <3>1 DEF CInv, FlowInv
      <3>5. FlowInv'
        BY <1>1, <1>3, <3>1, <3>4 DEF CInv, FlowInv
      <3>6. DoneInv(call)
        BY <3>1 DEF CInv, MidInv
      <3>7. ClaimsInv'
        <4>1. /\ claims'.identity = call.identity /\ claims'.window = window
              /\ claims'.account = call.account
          BY <3>1
        <4>2. /\ Lasting(claims.identity, claims.account)'
              /\ Vouched(claims.identity, claims.account, claims.window, "login")'
              /\ Admitted(claims.window, "login")'
          BY <1>1, <3>1, <3>6, <4>1, SameConnector DEF DoneInv, Lasting, Vouched, Admitted
        <4>3. call.groupScope => AsHeld(claims.identity.Groups, claims.window)'
          BY <1>1, <3>6, <4>1, SameConnector DEF DoneInv, AsHeld
        <4>4. call.groupScope = ("groups" \in request'.scopes)
          BY <1>1, <3>4
        <4> QED
          BY <4>2, <4>3, <4>4 DEF ClaimsInv
      <3> QED
        BY <3>3, <3>5, <3>7
    <2> QED
      BY <2>1, <2>2
  <1>6. TypeOK'
    BY <1>1, <1>2, <1>5 DEF CInv, TypeOK, CallTypeOK, SAMLTypeOK, AudienceInv, Stages
  <1> QED
    BY <1>2, <1>4, <1>5, <1>6 DEF CInv

\* HandlePOST takes the account and the groups from one response.
LEMMA StepOfPOST ==
  ASSUME AudienceInv', CInv, NEW r \in responses, HandlePOST(requests, r),
         UNCHANGED <<authorizationVars, loginVars>>
  PROVE  CInv'
  <1> USE DEF authorizationVars, loginVars
  <1>1. /\ connector.type = "saml" /\ call.pc = "provider" /\ call \in Call
        /\ call.kind = "login" /\ call.pc \in Steps /\ r \in Response
        /\ stage = "authorized" /\ check.use = "idle" /\ requests > 0
    BY DEF HandlePOST, At, CInv, MidInv, TypeOK, CallTypeOK, SAMLTypeOK, FlowInv, Steps
  <1>2. UNCHANGED <<now, responses, connector, claims, accounts, held, changes>>
    BY DEF HandlePOST
  <1>3. ClaimsInv' /\ TokenInv'
    BY <1>2, ClaimsSame, TokenSame DEF CInv
  <1>4. CASE Verified(r) /\ validateRoot(r, requests) /\ validateSubject(r, requests)
             /\ validateConditions(r)
    <2>1. r.account \in Account /\ r.account.id \in IDs /\ r.held \in SUBSET Memberships
      BY <1>1 DEF Response, Account
    <2>2. PICK groups \in SUBSET Groups :
             groups = IF call.groupScope /\ connector.groupSearch
                      THEN r.held \cap Groups ELSE {}
      OBVIOUS
    <2>3. PICK i : i = [call.identity EXCEPT !.UserID = r.account.id,
                          !.Username = r.account.id, !.Groups = groups]
      OBVIOUS
    <2>4. i \in Identity /\ i.UserID = r.account.id /\ i.Username = r.account.id
          /\ i.Groups = groups
      BY <1>1, <2>1, <2>2, <2>3 DEF Call, Identity
    <2>5. call' = [call EXCEPT !.pc = "done", !.account = r.account, !.identity = i]
      BY <1>4, <2>2, <2>3 DEF HandlePOST
    <2>6. /\ call' \in Call /\ call'.pc = "done" /\ call'.kind = "login"
          /\ call'.groupScope = call.groupScope /\ call'.account = r.account
          /\ call'.identity = i
      BY <1>1, <2>1, <2>4, <2>5 DEF Call
    <2>7. /\ window' = [open |-> TRUE, ever |-> r.held, always |-> r.held,
                        ended |-> FALSE, seen |-> {r.account}]
          /\ accepted' = {[response |-> r, id |-> requests, at |-> now]}
      BY <1>4 DEF HandlePOST
    <2>8. ProviderTypeOK'
      BY <1>2, <2>1, <2>7 DEF CInv, TypeOK, ProviderTypeOK, Window
    <2>9. SAMLTypeOK'
      <3>1. requests \in RequestIDs /\ now \in Nat
        BY <1>1, SAMLAssumption, SMTT(30) DEF CInv, TypeOK, SAMLTypeOK, RequestIDs
      <3> QED
        BY <1>1, <1>2, <2>7, <3>1, SMT DEF CInv, TypeOK, SAMLTypeOK, Accepted
    <2>10. DoneInv(call)'
      <3>1. Lasting(call.identity, call.account)'
        BY <1>1, <1>2, <2>1, <2>6 DEF Lasting, OAuthTypes, WithoutGroups
      <3>2. Vouched(call.identity, call.account, window, call.kind)'
        BY <1>1, <1>2, <2>4, <2>6, <2>7 DEF Vouched
      <3>3. Admitted(window, call.kind)'
        BY <1>1, <1>2 DEF Admitted, Enforced, Admitting, LegacyOrg
      <3>4. call'.groupScope => AsHeld(call.identity.Groups, window)'
        BY <1>1, <1>2, <2>2, <2>4, <2>6, <2>7 DEF AsHeld, Offered
      <3> QED
        BY <3>1, <3>2, <3>3, <3>4 DEF DoneInv
    <2>11. MidInv(call)' /\ WindowInv'
      BY <1>2, <2>6, <2>10 DEF CInv, MidInv, WindowInv, Steps
    <2>12. FlowInv'
      BY <1>1, <1>2, <2>6 DEF CInv, FlowInv
    <2>13. TypeOK'
      BY <1>2, <2>6, <2>8, <2>9 DEF CInv, TypeOK, CallTypeOK, AudienceInv
    <2> QED
      BY <1>3, <2>11, <2>12, <2>13 DEF CInv
  <1>5. CASE ~(Verified(r) /\ validateRoot(r, requests) /\ validateSubject(r, requests)
               /\ validateConditions(r))
    <2>1. call' = Failed /\ UNCHANGED <<window, accepted>>
      BY <1>5 DEF HandlePOST
    <2>2. Goes(Failed)
      BY <1>1, FailedGoes DEF Ready, CInv, TypeOK
    <2>3. PICK c : c = Failed
      OBVIOUS
    <2>4. Become(c) /\ Goes(c)
      BY <1>2, <2>1, <2>2, <2>3 DEF Become, providerVars
    <2> QED
      BY <1>1, <1>2, <2>1, <2>4, StepOfConnector DEF samlVars
  <1> QED
    BY <1>4, <1>5

\* The token of a login repeats what the connector established, which has been in
\* the claims since.
LEMMA StepOfIssue ==
  ASSUME AudienceInv, AudienceInv', CInv, IssueToken
  PROVE  CInv'
  <1> USE DEF samlVars, authorizationVars, loginVars, providerVars
  <1>1. /\ check.use \in {"front", "code"} /\ check'.use = "idle"
        /\ UNCHANGED <<clients, request, requests, connector, call, accounts, held, window,
                       changes, now, responses, accepted>>
    BY DEF IssueToken, NoCheck
  <1>2. /\ stage \in {"loggedIn", "code"} /\ call.pc = "idle"
        /\ request \in Request /\ check \in Check /\ claims \in Claims
    BY <1>1 DEF CInv, FlowInv, TypeOK, CallTypeOK, AudienceInv, AuthorizationTypeOK
  <1>3. Lasting(claims.identity, claims.account)
        /\ Vouched(claims.identity, claims.account, claims.window, "login")
        /\ Admitted(claims.window, "login")
        /\ ("groups" \in request.scopes => AsHeld(claims.identity.Groups, claims.window))
    BY <1>2 DEF CInv, ClaimsInv
  <1>4. PICK t : t = NewToken(claims.identity, "groups" \in request.scopes, claims.window)
    OBVIOUS
  <1>5. /\ t.UserID = claims.identity.UserID /\ t.Username = claims.identity.Username
        /\ t.groupScope = ("groups" \in request.scopes)
        /\ t.Groups = (IF t.groupScope THEN claims.identity.Groups ELSE {})
        /\ t.use = check.use /\ t.window = claims.window /\ t.account = claims.account
    BY <1>4 DEF NewToken
  <1>6. t \in Token
    BY <1>1, <1>2, <1>3, <1>4, SMTT(30)
    DEF NewToken, Token, Claims, Identity, Lasting, Request, Check
  <1>7. token' = t
    BY <1>4 DEF IssueToken
  <1>8. TokenInv'
    <2>1. GroupsAsHeld'
      BY <1>1, <1>3, <1>5, <1>7, SameConnector DEF GroupsAsHeld, AsHeld
    <2>2. MembershipEnforced'
      <3>1. Enforced(check.use) = Enforced("login")
        BY <1>1, SameAdmitting, SMT
      <3>2. Enforced(token.use)' = Enforced("login")
        BY <1>1, <1>5, <1>7, <3>1, SMT DEF Enforced, Admitting, LegacyOrg
      <3> QED
        BY <1>3, <1>5, <1>7, <3>2
        DEF MembershipEnforced, RestrictionsEnforced, Enforced, Admitted
    <2>3. OneAccount'
      BY <1>1, <1>3, <1>5, <1>7 DEF OneAccount, Vouched
    <2> QED
      BY <2>1, <2>2, <2>3 DEF TokenInv
  <1>9. /\ stage' \in {"code", "tokens", "end"}
        /\ stage' = "tokens" => CanRefresh
        /\ stage' = "code" => claims' = claims
        /\ claims' = claims \/ claims' = [claims EXCEPT !.window = Closed]
    <2>1. stage' = CASE check.use = "front" /\ "code" \in request.types -> "code"
                     [] check.use = "code" /\ "offline_access" \in request.scopes
                        /\ CanRefresh -> "tokens"
                     [] OTHER -> "end"
      BY DEF IssueToken
    <2>2. stage' \in {"code", "tokens", "end"} /\ (stage' = "tokens" => CanRefresh)
      BY <2>1
    <2>3. claims' = IF stage' = "code" THEN claims ELSE [claims EXCEPT !.window = Closed]
      BY DEF IssueToken
    <2> QED
      BY <2>2, <2>3
  <1>10. claims' \in Claims /\ claims'.identity = claims.identity
         /\ claims'.account = claims.account
    <2>1. Closed \in Window
      BY DEF Closed, Window
    <2> QED
      BY <1>2, <1>9, <2>1 DEF Claims
  <1>11. ClaimsInv'
    <2>1. Lasting(claims.identity, claims.account)'
      BY <1>1, <1>3, <1>10, SameConnector DEF Lasting
    <2>2. CASE stage' = "code"
      BY <1>1, <1>3, <1>9, <2>1, <2>2, SameConnector
      DEF ClaimsInv, Vouched, Admitted, AsHeld
    <2>3. CASE stage' # "code"
      BY <1>9, <2>1, <2>3 DEF ClaimsInv
    <2> QED
      BY <2>2, <2>3
  <1>12. FlowInv'
    BY <1>1, <1>2, <1>9, SameConnector DEF CInv, FlowInv
  <1>13. ProviderTypeOK' /\ call' \in Call /\ WindowInv' /\ MidInv(call)'
    BY <1>1, CallSame DEF CInv, TypeOK, ProviderTypeOK
  <1>14. TypeOK'
    BY <1>1, <1>6, <1>7, <1>9, <1>10, <1>13
    DEF CInv, TypeOK, CallTypeOK, SAMLTypeOK, AudienceInv
  <1> QED
    BY <1>8, <1>11, <1>12, <1>13, <1>14 DEF CInv

\* The token of a refresh tells what the connector has just established.
LEMMA StepOfRenew ==
  ASSUME AudienceInv, AudienceInv', CInv, RenewToken
  PROVE  CInv'
  <1> USE DEF samlVars, authorizationVars, loginVars, providerVars
  <1>1. /\ check.use = "refresh" /\ check'.use = "idle" /\ call' = NoCall /\ window' = Closed
        /\ UNCHANGED <<clients, request, requests, connector, accounts, held, stage,
                       changes, now, responses, accepted>>
    BY DEF RenewToken, NoCheck
  <1>2. /\ stage = "tokens" /\ call.pc = "done" /\ call.kind = "refresh"
        /\ call.account = claims.account /\ CanRefresh
        /\ request \in Request /\ check \in Check /\ claims \in Claims /\ call \in Call
        /\ window \in Window
    BY <1>1
    DEF CInv, FlowInv, TypeOK, CallTypeOK, AudienceInv, AuthorizationTypeOK, ProviderTypeOK
  <1>3. DoneInv(call) /\ Lasting(claims.identity, claims.account)
    BY <1>2 DEF CInv, ClaimsInv, MidInv
  <1>4. PICK t : t = NewToken(call.identity, call.groupScope, window)
    OBVIOUS
  <1>5. /\ t.UserID = call.identity.UserID /\ t.Username = call.identity.Username
        /\ t.groupScope = call.groupScope
        /\ t.Groups = (IF t.groupScope THEN call.identity.Groups ELSE {})
        /\ t.use = "refresh" /\ t.window = window /\ t.account = call.account
    BY <1>1, <1>2, <1>4 DEF NewToken
  <1>6. t \in Token
    BY <1>1, <1>2, <1>3, <1>4 DEF NewToken, Token, Call, Identity, Lasting, Request, Check
  <1>7. token' = t
    BY <1>4 DEF RenewToken
  <1>8. TokenInv'
    <2>1. GroupsAsHeld'
      BY <1>1, <1>3, <1>5, <1>7, SameConnector DEF GroupsAsHeld, AsHeld, DoneInv
    <2>2. MembershipEnforced'
      <3>1. Enforced(token.use)' = Enforced(call.kind)
        BY <1>1, <1>2, <1>5, <1>7, SMT DEF Enforced, Admitting, LegacyOrg
      <3>2. Admitted(window, call.kind) /\ token'.window = window
        BY <1>3, <1>5, <1>7 DEF DoneInv
      <3>3. LegacyOrg' \/ Admitting(token.use)' = Enforced(token.use)'
        BY DEF Enforced
      <3> QED
        BY <3>1, <3>2, <3>3 DEF MembershipEnforced, RestrictionsEnforced, Admitted
    <2>3. OneAccount'
      BY <1>1, <1>2, <1>3, <1>5, <1>7 DEF OneAccount, Vouched, DoneInv
    <2> QED
      BY <2>1, <2>2, <2>3 DEF TokenInv
  <1>9. PICK i : i = [call.identity EXCEPT !.UserID = claims.identity.UserID]
    OBVIOUS
  <1>10. /\ i \in Identity /\ i.UserID = claims.identity.UserID
         /\ i.Username = call.identity.Username /\ i.Groups = call.identity.Groups
         /\ i.ConnectorData = call.identity.ConnectorData
    BY <1>2, <1>9 DEF Call, Claims, Identity
  <1>11. claims' = [claims EXCEPT !.identity = i]
    BY <1>9 DEF RenewToken
  <1>12. claims' \in Claims /\ claims'.identity = i /\ claims'.account = claims.account
    BY <1>2, <1>10, <1>11 DEF Claims
  <1>13. ClaimsInv'
    <2>1. Lasting(claims.identity, claims.account)'
      BY <1>1, <1>2, <1>3, <1>10, <1>12, SameConnector DEF Lasting, DoneInv
    <2> QED
      BY <1>1, <1>2, <2>1 DEF ClaimsInv
  <1>14. FlowInv'
    BY <1>1, <1>2, SameConnector DEF CInv, FlowInv, NoCall
  <1>15. ProviderTypeOK' /\ call' \in Call /\ WindowInv' /\ MidInv(call)'
    BY <1>1, CallOver
  <1>16. TypeOK'
    BY <1>1, <1>2, <1>6, <1>7, <1>12, <1>15
    DEF CInv, TypeOK, CallTypeOK, SAMLTypeOK, AudienceInv
  <1> QED
    BY <1>8, <1>13, <1>14, <1>15, <1>16 DEF CInv

\* A check that ends with an error ends the refresh that it belongs to.
LEMMA StepOfEndCheck ==
  ASSUME AudienceInv', CInv, EndCheck, check.use # "idle"
  PROVE  CInv'
  <1> USE DEF samlVars
  <1>1. /\ check'.use = "idle"
        /\ stage' = stage \/ stage' = "end"
        /\ check.use = "front" => stage' = "end"
        /\ check.use # "front" => stage' = stage
        /\ UNCHANGED <<clients, request, requests, token, connector, claims, accounts, held,
                       changes, now, responses, accepted>>
    BY DEF EndCheck, NoCheck
  <1>2. SAMLTypeOK'
    BY <1>1 DEF CInv, TypeOK, SAMLTypeOK
  <1>3. CASE check.use = "refresh"
    <2>1. call' = NoCall /\ window' = Closed /\ stage' = stage
      BY <1>1, <1>3 DEF EndCheck
    <2>2. ProviderTypeOK' /\ call' \in Call /\ WindowInv' /\ MidInv(call)'
      BY <1>1, <2>1, CallOver
    <2>3. FlowInv'
      BY <1>1, <2>1, SameConnector DEF CInv, FlowInv, NoCall
    <2>4. ClaimsInv' /\ TokenInv'
      BY <1>1, <2>1, ClaimsSame, TokenSame DEF CInv
    <2>5. TypeOK'
      BY <1>1, <1>2, <2>1, <2>2 DEF CInv, TypeOK, CallTypeOK, AudienceInv
    <2> QED
      BY <2>2, <2>3, <2>4, <2>5 DEF CInv
  <1>4. CASE check.use # "refresh"
    <2>1. UNCHANGED <<call, window>>
      BY <1>4 DEF EndCheck
    <2>2. FlowInv'
      BY <1>1, <1>4, <2>1, SameConnector DEF CInv, FlowInv
    <2>3. requests \in 0 .. MaxRequests /\ changes \in 0 .. MaxChanges
      BY DEF CInv, TypeOK, ProviderTypeOK
    <2> QED
      BY <1>1, <1>2, <2>1, <2>2, <2>3, QuietStep
  <1> QED
    BY <1>3, <1>4

-----------------------------------------------------------------------------
(* Connectors that ask the provider for no list.                           *)

\* What the Exchange of a code for an access token leaves behind.
LEMMA ExchangeGoes ==
  ASSUME Ready, connector.type \in OAuthTypes, NEW a \in accounts, Exchange(a, "user")
  PROVE  \E c : Become(c) /\ Goes(c)
  <1>1. PICK c : c = [call EXCEPT !.pc = "user", !.identity.ConnectorData = a.id, !.account = a]
    OBVIOUS
  <1>2. call \in Call /\ a \in Account /\ a.id \in IDs
    BY DEF Ready, CallTypeOK, ProviderTypeOK, Account
  <1>3. call.pc = "exchange" /\ call.kind = "login" /\ OAuthInv(call)
    BY DEF Exchange, Ready, MidInv, OAuthInv
  <1>4. /\ c \in Call /\ c.pc = "user" /\ c.kind = "login" /\ c.groupScope = call.groupScope
        /\ c.account = a /\ c.identity.ConnectorData = a.id
        /\ c.identity.Groups = call.identity.Groups
        /\ c.cursor = call.cursor /\ c.org = call.org /\ c.teams = call.teams
        /\ c.inOrgNoTeams = call.inOrgNoTeams
    <2>1. PICK i : i = [call.identity EXCEPT !.ConnectorData = a.id]
      OBVIOUS
    <2>2. i \in Identity /\ i.ConnectorData = a.id /\ i.Groups = call.identity.Groups
      BY <1>2, <2>1 DEF Call, Identity
    <2>3. c = [call EXCEPT !.pc = "user", !.identity = i, !.account = a]
      BY <1>1, <1>2, <2>1 DEF Call
    <2> QED
      BY <1>2, <1>3, <2>2, <2>3 DEF Call, Steps
  <1>5. OAuthInv(c)
    BY <1>2, <1>3, <1>4 DEF OAuthInv
  <1>6. connector.type = "github" => GitHubInv(c)
    BY <1>3, <1>4 DEF Ready, MidInv, GitHubInv
  <1>7. connector.type = "gitlab" => GitLabInv(c)
    BY <1>3, <1>4 DEF Ready, MidInv, GitLabInv
  <1>8. connector.type = "microsoft" => MicrosoftInv(c)
    BY <1>3, <1>4 DEF Ready, MidInv, MicrosoftInv
  <1>9. connector.type = "linkedin" => LinkedInInv(c)
    BY <1>4 DEF LinkedInInv
  <1>10. Goes(c)
    BY <1>3, <1>4, <1>5, <1>6, <1>7, <1>8, <1>9 DEF Goes, MidInv, OAuthTypes
  <1> QED
    BY <1>1, <1>10 DEF Exchange

\* What is known of the call c once the profile has been read.
Read(c) ==
    /\ c.account \in Account /\ c.identity.ConnectorData = c.account.id
    /\ c.identity.UserID = c.account.id /\ c.identity.Username = c.account.id
    /\ Seen(c)
    /\ WithoutGroups => c.identity.Groups = {}

\* The profile that is read with the access token is that of the user.
LEMMA ProfileRead ==
  ASSUME Ready, connector.type \in OAuthTypes, NEW a \in accounts, NEW next \in Steps \cup {"done"},
         NEW groups \in SUBSET Groups, ReadProfile(a, next, groups),
         WithoutGroups => groups = {}
  PROVE  \E c \in Call :
            /\ Become(c) /\ Read(c)
            /\ c.pc = next /\ c.kind = call.kind /\ c.groupScope = call.groupScope
            /\ c.account = call.account /\ c.identity.Groups = groups
            /\ c.cursor = call.cursor /\ c.org = call.org /\ c.teams = call.teams
            /\ c.inOrgNoTeams = call.inOrgNoTeams
            /\ call.pc = "user"
  <1>1. PICK c : c = [call EXCEPT !.pc = next,
                 !.identity = [UserID |-> IF call.kind = "login" THEN a.id ELSE @.UserID,
                               Username |-> a.id, Groups |-> groups,
                               ConnectorData |-> @.ConnectorData]]
    OBVIOUS
  <1>2. call \in Call /\ a \in Account /\ a.id \in IDs /\ a \in window.seen
    BY DEF Ready, CallTypeOK, ProviderTypeOK, Account, WindowInv
  <1>3. call.pc = "user" /\ call.identity.ConnectorData = a.id
    BY DEF ReadProfile
  <1>4. /\ call.account \in Account /\ call.account.id = a.id
        /\ call.kind = "refresh" => call.identity.UserID = a.id
    BY <1>3 DEF Ready, MidInv, OAuthInv
  <1>5. /\ c \in Call /\ c.pc = next /\ c.kind = call.kind /\ c.groupScope = call.groupScope
        /\ c.account = call.account /\ c.identity.ConnectorData = a.id
        /\ c.identity.Groups = groups /\ c.identity.Username = a.id
        /\ c.identity.UserID = IF call.kind = "login" THEN a.id ELSE call.identity.UserID
        /\ c.cursor = call.cursor /\ c.org = call.org /\ c.teams = call.teams
        /\ c.inOrgNoTeams = call.inOrgNoTeams
    <2>1. PICK i : i = [UserID |-> IF call.kind = "login" THEN a.id ELSE call.identity.UserID,
                        Username |-> a.id, Groups |-> groups,
                        ConnectorData |-> call.identity.ConnectorData]
      OBVIOUS
    <2>2. /\ i.UserID = (IF call.kind = "login" THEN a.id ELSE call.identity.UserID)
          /\ i.Username = a.id /\ i.Groups = groups /\ i.ConnectorData = a.id
      BY <1>3, <2>1, SMT
    <2>3. i \in Identity
      BY <1>2, <2>1, SMT DEF Call, Identity
    <2>4. c = [call EXCEPT !.pc = next, !.identity = i]
      BY <1>1, <1>2, <2>1, SMT DEF Call
    <2>5. c.identity = i /\ c.pc = next
      BY <1>2, <2>4, SMT DEF Call
    <2>6. c \in Call
      BY <1>2, <2>3, <2>4 DEF Call
    <2>7. /\ c.kind = call.kind /\ c.groupScope = call.groupScope /\ c.account = call.account
          /\ c.cursor = call.cursor /\ c.org = call.org /\ c.teams = call.teams
          /\ c.inOrgNoTeams = call.inOrgNoTeams
      BY <1>2, <2>4, SMT DEF Call
    <2> QED
      BY <2>2, <2>5, <2>6, <2>7
  <1>6. call.kind \in {"login", "refresh"}
    BY <1>2 DEF Call
  <1>7. Read(c)
    BY <1>2, <1>4, <1>5, <1>6 DEF Read, Seen
  <1>8. Become(c)
    BY <1>1 DEF ReadProfile
  <1> QED
    BY <1>3, <1>5, <1>7, <1>8

\* Reading the profile is what OAuthInv asks for later, and what a call that is
\* done has to show about the account.
LEMMA ReadOAuth ==
  ASSUME connector.type \in OAuthTypes, NEW c, Read(c)
  PROVE  /\ c.pc # "exchange" => OAuthInv(c)
         /\ Lasting(c.identity, c.account)
         /\ Vouched(c.identity, c.account, window, c.kind)
  BY DEF Read, OAuthInv, Seen, Lasting, Vouched, OAuthTypes

\* The other way around: in the middle of a call.
LEMMA OAuthRead ==
  ASSUME Ready, connector.type \in OAuthTypes, call.pc \notin {"exchange", "user"}
  PROVE  Read(call)
  BY DEF Ready, MidInv, OAuthInv, Read, Seen

\* Read is about the identity and the account only.
LEMMA ReadSame ==
  ASSUME NEW c, NEW d, Read(c), d.account = c.account,
         d.identity.UserID = c.identity.UserID, d.identity.Username = c.identity.Username,
         d.identity.ConnectorData = c.identity.ConnectorData, ~WithoutGroups
  PROVE  Read(d)
  BY DEF Read, Seen

\* A call that ends with the profile, without groups to ask for.
LEMMA ReadDone ==
  ASSUME Ready, connector.type \in OAuthTypes, NEW c \in Call, Read(c), c.pc = "done",
         c.kind = call.kind, c.groupScope = call.groupScope, c.account = call.account,
         Admitted(window, c.kind), c.groupScope => AsHeld(c.identity.Groups, window)
  PROVE  Goes(c)
  BY ReadOAuth DEF Goes, MidInv, DoneInv, Steps

\* LinkedIn's profile is all there is.
LEMMA LinkedInProfileGoes ==
  ASSUME Ready, NEW a \in accounts, LinkedInProfile(a)
  PROVE  \E c : Become(c) /\ Goes(c)
  <1>1. connector.type = "linkedin" /\ connector.type \in OAuthTypes /\ WithoutGroups
    BY DEF LinkedInProfile, OAuthTypes, WithoutGroups
  <1>2. call.pc = "user" /\ call.identity.Groups = {}
    BY <1>1 DEF LinkedInProfile, ReadProfile, Ready, MidInv, OAuthInv
  <1>3. ReadProfile(a, "done", {})
    BY <1>2 DEF LinkedInProfile
  <1>4. PICK c \in Call :
            /\ Become(c) /\ Read(c)
            /\ c.pc = "done" /\ c.kind = call.kind /\ c.groupScope = call.groupScope
            /\ c.account = call.account /\ c.identity.Groups = {}
            /\ c.cursor = call.cursor /\ c.org = call.org /\ c.teams = call.teams
            /\ c.inOrgNoTeams = call.inOrgNoTeams
            /\ call.pc = "user"
    BY <1>1, <1>3, ProfileRead, SMT
  <1>5. Admitted(window, c.kind) /\ AsHeld(c.identity.Groups, window)
    BY <1>1, <1>4 DEF Admitted, Enforced, Admitting, LegacyOrg, AsHeld, Offered
  <1> QED
    BY <1>1, <1>4, <1>5, ReadDone

\* The ID token of the oidc connector has a hosted domain of the user.
LEMMA OIDCExchangeGoes ==
  ASSUME Ready, NEW a \in accounts, OIDCExchange(a)
  PROVE  \E c : Become(c) /\ Goes(c)
  <1>1. PICK hd \in (held \cap Orgs) \cup {None} :
           Exchange(a, IF connector.hostedDomains = {} \/ hd \in connector.hostedDomains
                       THEN "verify" ELSE "verifyOther")
    BY DEF OIDCExchange
  <1>2. PICK next \in {"verify", "verifyOther"} :
           next = IF connector.hostedDomains = {} \/ hd \in connector.hostedDomains
                  THEN "verify" ELSE "verifyOther"
    OBVIOUS
  <1>3. PICK c : c = [call EXCEPT !.pc = next, !.identity.ConnectorData = a.id, !.account = a]
    OBVIOUS
  <1>4. call \in Call /\ a \in Account /\ a.id \in IDs /\ a \in window.seen
    BY DEF Ready, CallTypeOK, ProviderTypeOK, Account, WindowInv
  <1>5. connector.type = "oidc" /\ OIDCInv(call) /\ connector \in Config
    BY ConfigOf DEF OIDCExchange, Ready, MidInv
  <1>6. /\ c \in Call /\ c.pc = next /\ c.kind = call.kind /\ c.groupScope = call.groupScope
        /\ c.account = a
    <2>1. PICK i : i = [call.identity EXCEPT !.ConnectorData = a.id]
      OBVIOUS
    <2>2. i \in Identity
      BY <1>4, <2>1 DEF Call, Identity
    <2>3. c = [call EXCEPT !.pc = next, !.identity = i, !.account = a]
      BY <1>3, <2>1
    <2> QED
      BY <1>4, <2>2, <2>3 DEF Call, Steps
  <1>7. next = "verify" => Admitted(window, "login")
    <2>1. next = "verify" => connector.hostedDomains = {} \/ hd \in connector.hostedDomains
      BY <1>2
    <2>2. hd \in connector.hostedDomains => hd \in window.ever
      BY <1>5, ProviderAssumption DEF Config, Ready, WindowInv
    <2> QED
      BY <1>5, <2>1, <2>2 DEF Admitted, Enforced, Admitting, LegacyOrg
  <1>8. OIDCInv(c)
    BY <1>4, <1>5, <1>6, <1>7 DEF OIDCInv
  <1>9. Goes(c)
    BY <1>2, <1>5, <1>6, <1>8 DEF Goes, MidInv, OAuthTypes, OIDCInv, Steps
  <1>10. Become(c)
    BY <1>1, <1>2, <1>3 DEF Exchange
  <1> QED
    BY <1>9, <1>10

\* The ID token is verified, and its domain is accepted or not.
LEMMA OIDCVerifyGoes ==
  ASSUME Ready, OIDCVerify
  PROVE  \E c : Become(c) /\ Goes(c)
  <1> SUFFICES ASSUME At("oidc", "verify") PROVE \E c : Become(c) /\ Goes(c)
    BY FailedGoes DEF OIDCVerify
  <1>1. /\ connector.type = "oidc" /\ call.pc = "verify" /\ call \in Call
        /\ call.kind = "login" /\ call.account \in window.seen /\ Admitted(window, "login")
    BY DEF At, Ready, MidInv, OIDCInv, CallTypeOK, Steps
  <1>2. call.account \in Account /\ call.account.id \in IDs
    BY <1>1 DEF Ready, ProviderTypeOK, Window, Account
  <1>3. PICK i : i = [NoIdentity EXCEPT !.UserID = call.account.id, !.Username = call.account.id]
    OBVIOUS
  <1>4. /\ i \in Identity /\ i.UserID = call.account.id /\ i.Username = call.account.id
        /\ i.Groups = {}
    BY <1>2, <1>3 DEF NoIdentity, Identity
  <1>5. PICK c : c = [call EXCEPT !.pc = "done", !.identity = i]
    OBVIOUS
  <1>6. /\ c \in Call /\ c.pc = "done" /\ c.kind = call.kind /\ c.groupScope = call.groupScope
        /\ c.account = call.account /\ c.identity = i
    BY <1>1, <1>4, <1>5 DEF Call
  <1>7. Lasting(c.identity, c.account)
    BY <1>1, <1>2, <1>4, <1>6 DEF Lasting, OAuthTypes
  <1>8. Vouched(c.identity, c.account, window, c.kind)
    BY <1>1, <1>4, <1>6 DEF Vouched
  <1>9. AsHeld(c.identity.Groups, window)
    BY <1>1, <1>4, <1>6 DEF AsHeld, Offered
  <1>10. Goes(c)
    BY <1>1, <1>6, <1>7, <1>8, <1>9 DEF Goes, MidInv, DoneInv, Steps
  <1> QED
    BY <1>1, <1>3, <1>5, <1>10 DEF OIDCVerify, At

\* An account takes its place in the identity of call c, which has no groups:
\* authproxy, and the Login of passwordDB.
LEMMA TakenGoes ==
  ASSUME Ready, connector.type \in {"authproxy", "passwordDB"}, call.kind = "login",
         call.identity.Groups = {}, NEW a \in accounts,
         Become([call EXCEPT !.pc = "done", !.account = a,
                             !.identity.UserID = a.id, !.identity.Username = a.id])
  PROVE  \E c : Become(c) /\ Goes(c)
  <1>1. call \in Call /\ a \in Account /\ a.id \in IDs /\ a \in window.seen
    BY DEF Ready, CallTypeOK, ProviderTypeOK, Account, WindowInv
  <1>2. PICK i : i = [call.identity EXCEPT !.UserID = a.id, !.Username = a.id]
    OBVIOUS
  <1>3. i \in Identity /\ i.UserID = a.id /\ i.Username = a.id /\ i.Groups = {}
    BY <1>1, <1>2 DEF Call, Identity
  <1>4. PICK c : c = [call EXCEPT !.pc = "done", !.account = a, !.identity = i]
    OBVIOUS
  <1>5. /\ c \in Call /\ c.pc = "done" /\ c.kind = "login" /\ c.groupScope = call.groupScope
        /\ c.account = a /\ c.identity = i
    BY <1>1, <1>3, <1>4 DEF Call
  <1>6. c = [call EXCEPT !.pc = "done", !.account = a,
                         !.identity.UserID = a.id, !.identity.Username = a.id]
    BY <1>1, <1>2, <1>4 DEF Call
  <1>7. Lasting(c.identity, c.account)
    BY <1>1, <1>3, <1>5 DEF Lasting, OAuthTypes
  <1>8. Vouched(c.identity, c.account, window, c.kind)
    BY <1>1, <1>3, <1>5 DEF Vouched
  <1>9. AsHeld(c.identity.Groups, window) /\ Admitted(window, c.kind)
    BY <1>3, <1>5 DEF AsHeld, Offered, Admitted, Enforced, Admitting, LegacyOrg
  <1>10. Goes(c)
    BY <1>5, <1>7, <1>8, <1>9 DEF Goes, MidInv, DoneInv, Steps
  <1> QED
    BY <1>6, <1>10

\* identityFromEntry, of an entry b that has been seen and has the user's DN.
LEMMA FromEntryGoes ==
  ASSUME Ready, connector.type = "ldap", call.pc \in {"search", "bind"}, NEW b \in Account,
         b \in window.seen, call.account \in Account, call.account.dn = b.dn
  PROVE  Goes(FromEntry(b))
  <1>1. call \in Call /\ call.cursor = 0 /\ b.id \in IDs /\ b.dn \in DNs
    BY DEF Ready, CallTypeOK, MidInv, LDAPInv, Account
  <1>2. PICK next \in {"groups", "done"} :
           next = IF call.groupScope /\ connector.groupSearch /\ Values > 0
                  THEN "groups" ELSE "done"
    OBVIOUS
  <1>3. PICK i : i = [UserID |-> b.id, Username |-> b.id, Groups |-> {}, ConnectorData |-> b.dn]
    OBVIOUS
  <1>4. /\ i \in Identity /\ i.UserID = b.id /\ i.Username = b.id /\ i.Groups = {}
        /\ i.ConnectorData = b.dn
    BY <1>1, <1>3 DEF Identity
  <1>5. PICK c : c = [call EXCEPT !.pc = next, !.identity = i]
    OBVIOUS
  <1>6. /\ c \in Call /\ c.pc = next /\ c.kind = call.kind /\ c.groupScope = call.groupScope
        /\ c.account = call.account /\ c.identity = i /\ c.cursor = 0
    BY <1>1, <1>4, <1>5 DEF Call, Steps
  <1>7. Lasting(c.identity, c.account) /\ Vouched(c.identity, c.account, window, c.kind)
    BY <1>4, <1>6 DEF Lasting, Vouched, OAuthTypes, WithoutGroups
  <1>8. CASE next = "groups"
    <2>1. \A g \in Groups : ~(AttrOf[g] <= c.cursor)
      BY <1>6, LDAPAssumption, SMT
    <2>2. LDAPInv(c)
      BY <1>4, <1>6, <1>7, <1>8, <2>1 DEF LDAPInv
    <2> QED
      BY <1>2, <1>3, <1>5, <1>6, <1>8, <2>2 DEF FromEntry, Goes, MidInv, OAuthTypes
  <1>9. CASE next = "done"
    <2>1. call.groupScope => Offered = {}
      <3>1. CASE ~connector.groupSearch
        BY <3>1 DEF Offered
      <3>2. CASE call.groupScope /\ connector.groupSearch
        <4>1. Groups = {}
          BY <1>2, <1>9, <3>2, LDAPAssumption, SMT
        <4> QED
          BY <3>2, <4>1 DEF Offered
      <3> QED
        BY <3>1, <3>2
    <2>2. c.groupScope => AsHeld(c.identity.Groups, window)
      BY <1>4, <1>6, <2>1 DEF AsHeld
    <2>3. Admitted(window, c.kind)
      BY DEF Admitted, Enforced, Admitting, LegacyOrg
    <2> QED
      BY <1>2, <1>3, <1>5, <1>6, <1>7, <1>9, <2>2, <2>3
      DEF FromEntry, Goes, MidInv, DoneInv, Steps
  <1> QED
    BY <1>8, <1>9

\* userEntry: nobody, several entries, or one that may be another user's.
LEMMA userEntryGoes ==
  ASSUME Ready, userEntry
  PROVE  \E c : Become(c) /\ Goes(c)
  <1>1. /\ connector.type = "ldap" /\ call.pc = "search" /\ call \in Call /\ LDAPInv(call)
        /\ call.kind \in {"login", "refresh"}
    BY DEF userEntry, At, Ready, MidInv, CallTypeOK, Call
  <1>2. ASSUME NEW a \in accounts, call.kind = "login",
               Become([call EXCEPT !.pc = "bind", !.account = a])
        PROVE  \E c : Become(c) /\ Goes(c)
    <2>1. a \in Account /\ a \in window.seen
      BY DEF Ready, ProviderTypeOK, WindowInv
    <2>2. PICK c : c = [call EXCEPT !.pc = "bind", !.account = a]
      OBVIOUS
    <2>3. /\ c \in Call /\ c.pc = "bind" /\ c.kind = "login" /\ c.groupScope = call.groupScope
          /\ c.account = a /\ c.cursor = call.cursor
      BY <1>1, <1>2, <2>1, <2>2 DEF Call, Steps
    <2>4. LDAPInv(c)
      BY <1>1, <2>1, <2>3 DEF LDAPInv
    <2>5. Goes(c)
      BY <1>1, <1>2, <2>3, <2>4 DEF Goes, MidInv, OAuthTypes
    <2> QED
      BY <1>2, <2>2, <2>5
  <1>3. ASSUME NEW a \in accounts, call.kind = "refresh",
               a.dn = call.identity.ConnectorData, Become(FromEntry(a))
        PROVE  \E c : Become(c) /\ Goes(c)
    <2>1. a \in Account /\ a \in window.seen
      BY DEF Ready, ProviderTypeOK, WindowInv
    <2>2. call.account \in Account /\ call.account.dn = a.dn
      BY <1>1, <1>3 DEF LDAPInv
    <2> QED
      BY <1>1, <1>3, <2>1, <2>2, FromEntryGoes
  <1>4. Goes(Failed) /\ Goes(Refused)
    BY FailedGoes
  <1>5. \/ Become(Failed) \/ Become(Refused)
        \/ \E a \in accounts :
              \/ call.kind = "login" /\ Become([call EXCEPT !.pc = "bind", !.account = a])
              \/ /\ call.kind = "refresh" /\ a.dn = call.identity.ConnectorData
                 /\ Become(FromEntry(a))
    BY <1>1 DEF userEntry
  <1> QED
    BY <1>2, <1>3, <1>4, <1>5

\* Bind with the DN that was found.
LEMMA LDAPBindGoes ==
  ASSUME Ready, LDAPBind
  PROVE  \E c : Become(c) /\ Goes(c)
  <1>1. /\ connector.type = "ldap" /\ call.pc = "bind" /\ call.account \in window.seen
        /\ call.account \in Account
    BY DEF LDAPBind, At, Ready, MidInv, LDAPInv, ProviderTypeOK, Window
  <1>2. Goes(FromEntry(call.account))
    BY <1>1, FromEntryGoes
  <1> QED
    BY <1>2, FailedGoes DEF LDAPBind

\* The search for the groups that refer to the next value of userAttr.
LEMMA LDAPGroupsGoes ==
  ASSUME Ready, LDAPGroups
  PROVE  \E c : Become(c) /\ Goes(c)
  <1>1. /\ connector.type = "ldap" /\ call.pc = "groups" /\ call \in Call /\ LDAPInv(call)
        /\ call.identity \in Identity /\ call.cursor \in Nat
    BY DEF LDAPGroups, At, Ready, MidInv, CallTypeOK, Call
  <1>2. window.always \subseteq held /\ held \subseteq window.ever
    BY DEF Ready, WindowInv
  <1>3. PICK n \in Nat : n = call.cursor + 1
    BY <1>1, SMT
  <1>4. PICK found \in SUBSET Groups : found = {g \in Listed : AttrOf[g] = n}
    BY DEF Listed
  <1>5. PICK i : i = [call.identity EXCEPT !.Groups = @ \cup found]
    OBVIOUS
  <1>6. /\ i \in Identity /\ i.Groups = call.identity.Groups \cup found
        /\ i.UserID = call.identity.UserID
        /\ i.Username = call.identity.Username
        /\ i.ConnectorData = call.identity.ConnectorData
    BY <1>1, <1>4, <1>5 DEF Identity
  <1>7. PICK next \in {"groups", "done"} : next = IF n < Values THEN "groups" ELSE "done"
    OBVIOUS
  <1>8. PICK c : c = [call EXCEPT !.cursor = n, !.identity = i, !.pc = next]
    OBVIOUS
  <1>9. /\ c \in Call /\ c.pc = next /\ c.kind = call.kind /\ c.groupScope = call.groupScope
        /\ c.account = call.account /\ c.identity = i /\ c.cursor = n
    BY <1>1, <1>6, <1>8 DEF Call, Steps
  <1>10. Become(c)
    <2>1. PICK d : d = [call EXCEPT !.cursor = @ + 1,
                    !.identity.Groups = @ \cup {g \in Listed : AttrOf[g] = call.cursor + 1}]
      OBVIOUS
    <2>2. d = [call EXCEPT !.cursor = n, !.identity = i]
      BY <1>3, <1>4, <1>5, <2>1
    <2>3. d.cursor = n /\ d.pc = "groups" /\ c = [d EXCEPT !.pc = next]
      BY <1>1, <1>8, <2>2 DEF Call
    <2>4. Become([d EXCEPT !.pc = IF d.cursor < Values THEN @ ELSE "done"])
      BY <2>1 DEF LDAPGroups
    <2> QED
      BY <1>7, <2>3, <2>4
  <1>11. Lasting(c.identity, c.account) /\ Vouched(c.identity, c.account, window, c.kind)
    BY <1>1, <1>6, <1>9 DEF LDAPInv, Lasting, Vouched, OAuthTypes, WithoutGroups
  <1>12. c.identity.Groups \subseteq window.ever
    BY <1>1, <1>2, <1>4, <1>6, <1>9 DEF LDAPInv, Listed
  <1>13. ASSUME NEW g \in window.always \cap Groups, AttrOf[g] <= n
         PROVE  g \in c.identity.Groups
    <2>1. AttrOf[g] \in Nat /\ g \in Listed
      BY <1>2, LDAPAssumption, SMT DEF Listed
    <2>2. CASE AttrOf[g] <= call.cursor
      BY <1>1, <1>6, <1>9, <2>2 DEF LDAPInv
    <2>3. CASE AttrOf[g] = n
      BY <1>4, <1>6, <1>9, <2>1, <2>3
    <2> QED
      BY <1>1, <1>3, <1>13, <2>1, <2>2, <2>3, SMT
  <1>14. CASE next = "groups"
    <2>1. LDAPInv(c)
      BY <1>9, <1>11, <1>12, <1>13, <1>14 DEF LDAPInv
    <2> QED
      BY <1>1, <1>9, <1>10, <1>14, <2>1 DEF Goes, MidInv, OAuthTypes
  <1>15. CASE next = "done"
    <2>1. \A g \in Groups : AttrOf[g] <= n
      BY <1>7, <1>15, LDAPAssumption, SMT
    <2>2. AsHeld(c.identity.Groups, window)
      BY <1>1, <1>9, <1>12, <1>13, <2>1 DEF AsHeld, Offered
    <2>3. Admitted(window, c.kind)
      BY <1>1 DEF Admitted, Enforced, Admitting, LegacyOrg
    <2> QED
      BY <1>9, <1>10, <1>11, <1>15, <2>2, <2>3 DEF Goes, MidInv, DoneInv, Steps
  <1> QED
    BY <1>14, <1>15

\* The password objects of dex itself.
LEMMA PasswordGoes ==
  ASSUME Ready, PasswordConnector
  PROVE  \E c : Become(c) /\ Goes(c)
  <1>1. /\ connector.type = "passwordDB" /\ call.pc = "get" /\ call \in Call
        /\ PasswordInv(call)
    BY DEF PasswordConnector, PasswordLogin, PasswordRefresh, At, Ready, MidInv, CallTypeOK
  <1>2. Goes(Failed) /\ Goes(Refused)
    BY FailedGoes
  <1>3. CASE PasswordLogin
    BY <1>1, <1>2, <1>3, TakenGoes DEF PasswordLogin, PasswordInv
  <1>4. ASSUME call.kind = "refresh", NEW a \in accounts, a.id = call.identity.UserID,
               Become([call EXCEPT !.pc = "done", !.identity.Username = a.id])
        PROVE  \E c : Become(c) /\ Goes(c)
    <2>1. a \in Account /\ a.id \in IDs /\ a \in window.seen
      BY DEF Ready, ProviderTypeOK, Account, WindowInv
    <2>2. PICK i : i = [call.identity EXCEPT !.Username = a.id]
      OBVIOUS
    <2>3. i \in Identity /\ i.UserID = a.id /\ i.Username = a.id /\ i.Groups = {}
      BY <1>1, <1>4, <2>1, <2>2 DEF Call, Identity, PasswordInv
    <2>4. PICK c : c = [call EXCEPT !.pc = "done", !.identity = i]
      OBVIOUS
    <2>5. /\ c \in Call /\ c.pc = "done" /\ c.kind = call.kind /\ c.groupScope = call.groupScope
          /\ c.account = call.account /\ c.identity = i
      BY <1>1, <2>3, <2>4 DEF Call
    <2>6. Lasting(c.identity, c.account) /\ Vouched(c.identity, c.account, window, c.kind)
      BY <1>1, <1>4, <2>1, <2>3, <2>5 DEF Lasting, Vouched, OAuthTypes, PasswordInv
    <2>7. AsHeld(c.identity.Groups, window) /\ Admitted(window, c.kind)
      BY <1>1, <2>3, <2>5 DEF AsHeld, Offered, Admitted, Enforced, Admitting, LegacyOrg
    <2>8. Goes(c)
      BY <2>5, <2>6, <2>7 DEF Goes, MidInv, DoneInv, Steps
    <2> QED
      BY <1>4, <2>2, <2>4, <2>8
  <1>5. CASE PasswordRefresh
    BY <1>2, <1>4, <1>5 DEF PasswordRefresh
  <1> QED
    BY <1>3, <1>5 DEF PasswordConnector

=============================================================================
