---------------------------- MODULE SAMLConnector ----------------------------
(***************************************************************************)
(* The SAML connector (connector/saml/saml.go).  The provider's response   *)
(* to an authentication request travels through the user's browser, which  *)
(* may deliver it late, more than once, or in answer to another request.   *)
(* Either the whole response is signed or only its assertion; what is not  *)
(* signed has any value.  Signatures are validated: insecureSkipSignature- *)
(* Validation is off.                                                      *)
(***************************************************************************)
EXTENDS ConnectorCalls, Integers

CONSTANTS
    MaxRequests,    \* bound on authentication requests, whose IDs are 1, 2, ...
    ValidFor,       \* NotOnOrAfter - NotBefore of the provider's assertions
    Drift,          \* allowedClockDrift
    MaxTime,        \* bound on the clock
    MaxResponses,   \* bound on the responses of the provider
    Forms           \* the forms of responses to consider

\* What is stated of a time: its two ends, the second, or nothing.
Limits == {"both", "end", "none"}

\* How a response is signed, whether the root element and each confirmation name
\* the request, by how much the provider's clock is off, and what is optional.
Form == [signed : {"response", "assertion", "none"}, answers : BOOLEAN, success : BOOLEAN,
         skew : -Drift .. Drift, confirmed : SUBSET [answers : BOOLEAN, limits : Limits],
         conditioned : SUBSET [limits : Limits, audiences : SUBSET BOOLEAN]]

ASSUME SAMLAssumption ==
    /\ {MaxRequests, ValidFor, Drift, MaxTime, MaxResponses} \subseteq Nat
    /\ Forms \subseteq Form

VARIABLES
    now,        \* dex's clock
    responses,  \* responses the provider has made
    accepted    \* history: the response HandlePOST took the identity from, and when

samlVars == <<now, responses, accepted>>

-----------------------------------------------------------------------------
RequestIDs == 1 .. MaxRequests

\* NotBefore and NotOnOrAfter; each may be missing, and is {} then.
Times == [notBefore : SUBSET Int, notOnOrAfter : SUBSET Int]

\* A bearer confirmation with data for dex; any other does not count.
Confirmation == [inResponseTo : 0 .. MaxRequests, times : Times]

\* audiences says of each AudienceRestriction whether it has dex among them.
Conditions == [times : Times, audiences : SUBSET BOOLEAN]

\* inResponseTo and success (Status, Issuer and Destination are as expected) are
\* of the root element; the subject's confirmations, the Conditions, if there are
\* any, account and held (the attributes) are of the assertion.  at is history:
\* when it was made.
Response == [signed : {"response", "assertion", "none"}, inResponseTo : 0 .. MaxRequests,
             success : BOOLEAN, confirmations : SUBSET Confirmation,
             conditions : SUBSET Conditions, account : Account,
             held : SUBSET Memberships, at : Nat]

Accepted == [response : Response, id : RequestIDs, at : Nat]

SAMLTypeOK ==
    /\ now \in 0 .. MaxTime
    /\ responses \subseteq Response
    /\ accepted \subseteq Accepted

\* What is stated of a time that begins at t.
Stated(limits, t) ==
    [notBefore |-> IF limits = "both" THEN {t} ELSE {},
     notOnOrAfter |-> IF limits \in {"both", "end"} THEN {t + ValidFor} ELSE {}]

\* A response of this form to request id for account a.
NewResponse(f, id, a) ==
    [signed |-> f.signed, inResponseTo |-> IF f.answers THEN id ELSE 0, success |-> f.success,
     confirmations |-> {[inResponseTo |-> IF c.answers THEN id ELSE 0,
                         times |-> Stated(c.limits, now + f.skew)] : c \in f.confirmed},
     conditions |-> {[times |-> Stated(c.limits, now + f.skew),
                      audiences |-> c.audiences] : c \in f.conditioned},
     account |-> a, held |-> held, at |-> now]

\* The provider answers request id for account a.  Its clock may be off by the
\* drift that dex allows for.  If it signs only the assertion, the rest may say
\* anything or be missing.
Respond(id, a) ==
    /\ At("saml", "provider")
    /\ a \in accounts /\ Cardinality(responses) < MaxResponses
    /\ \E f \in Forms : responses' = responses \cup {NewResponse(f, id, a)}
    /\ UNCHANGED <<now, accepted, callVars, providerVars>>

\* Time matters between request and response.
Tick ==
    /\ At("saml", "provider")
    /\ now < MaxTime
    /\ now' = now + 1
    /\ UNCHANGED <<responses, accepted, callVars, providerVars>>

-----------------------------------------------------------------------------
before(t) == now + Drift < t

after(t) == now > t + Drift

\* Mutant: only the beginning is looked at.
InTimeNotAfter(times) == \A t \in times.notBefore : ~before(t)

\* What is stated of the time has come and is not over.
InTime(times) ==
    /\ \A t \in times.notBefore : ~before(t)
    /\ \A t \in times.notOnOrAfter : ~after(t)

\* Mutant: the InResponseTo of the root element is taken to be enough.
validateSubjectUnchecked(r, id) == \E c \in r.confirmations : InTime(c.times)

\* One of the subject's confirmations is for this request and for this time.
validateSubject(r, id) == \E c \in r.confirmations : c.inResponseTo = id /\ InTime(c.times)

\* Conditions, if any, are for this time, and every restriction is for dex.
validateConditions(r) == \A c \in r.conditions : InTime(c.times) /\ FALSE \notin c.audiences

\* The elements outside of the assertion, if they are signed.
validateRoot(r, id) == r.signed = "response" => r.inResponseTo = id /\ r.success

\* verifyResponseSig
Verified(r) == r.signed \in {"response", "assertion"}

\* HandlePOST, called by handleConnectorCallback for authorization request id
\* with one of the provider's responses.
HandlePOST(id, r) ==
    /\ At("saml", "provider")
    /\ r \in responses
    /\ IF Verified(r) /\ validateRoot(r, id) /\ validateSubject(r, id) /\ validateConditions(r)
       THEN /\ call' = [call EXCEPT
                 !.pc = "done", !.account = r.account,
                 !.identity.UserID = r.account.id, !.identity.Username = r.account.id,
                 !.identity.Groups = IF call.groupScope /\ connector.groupSearch
                                     THEN r.held \cap Groups ELSE {}]
            /\ window' = [open |-> TRUE, ever |-> r.held, always |-> r.held,
                          ended |-> FALSE, seen |-> {r.account}]
            /\ accepted' = {[response |-> r, id |-> id, at |-> now]}
       ELSE call' = Failed /\ UNCHANGED <<window, accepted>>
    /\ UNCHANGED <<now, responses, connector, claims, accounts, held, changes>>

=============================================================================
