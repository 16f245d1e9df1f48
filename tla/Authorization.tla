---------------------------- MODULE Authorization ----------------------------
(***************************************************************************)
(* What a client may ask for (server/oauth2.go): parseAuthorizationRequest *)
(* for a new login, newIDToken for an ID token, and validateCrossClientTrust *)
(* which both call once for every other client that the token shall be for *)
(* (scope audience:server:client_id:...).  Clients come and go through the *)
(* admin API (server/api.go) meanwhile.                                    *)
(***************************************************************************)
EXTENDS Naturals

CONSTANTS
    Clients,
    Public,         \* clients that are public
    Supported,      \* supportedResponseTypes
    Asked,          \* authorization requests that clients make
    NoRequest

Scopes == {"openid", "groups", "offline_access", "other"}

ResponseTypes == {"code", "id_token", "token"}

\* An authorization request: peers are the clients of its audience scopes.
Request == [client : Clients, redirectURI : {"registered", "oob", "localhost", "other"},
            scopes : SUBSET Scopes, peers : SUBSET Clients,
            types : SUBSET ResponseTypes, nonce : BOOLEAN]

ASSUME AuthorizationAssumption ==
    /\ Public \subseteq Clients
    /\ Supported \subseteq ResponseTypes
    /\ Asked \subseteq Request
    /\ NoRequest \notin Request

VARIABLES
    clients,    \* the stored clients: whether one exists, and its TrustedPeers
    request,    \* the authorization request of the login, NoRequest before
    check       \* the request or the token that is being checked

authorizationVars == <<clients, request, check>>

Client == [exists : BOOLEAN, trustedPeers : SUBSET Clients]

\* use is what the check is for; todo are the peers not yet looked at; trusting
\* is history: peers that have trusted the client since the check began.
Check == [use : {"idle", "parse", "front", "code", "refresh"},
          request : Request \cup {NoRequest}, peers : SUBSET Clients,
          todo : SUBSET Clients, untrusted : BOOLEAN, trusting : SUBSET Clients]

NoCheck == [use |-> "idle", request |-> NoRequest, peers |-> {}, todo |-> {},
            untrusted |-> FALSE, trusting |-> {}]

AuthorizationTypeOK ==
    /\ clients \in [Clients -> Client]
    /\ request \in Request \cup {NoRequest}
    /\ check \in Check

-----------------------------------------------------------------------------
\* validateCrossClientTrust, when the stored clients are cs.
Trusts(cs, clientID, peerID) ==
    peerID = clientID \/ (cs[peerID].exists /\ clientID \in cs[peerID].trustedPeers)

SetClients(new) ==
    /\ clients' = new
    /\ check' = IF check.use = "idle" THEN check
                ELSE [check EXCEPT !.trusting = @ \cup
                         {p \in Clients : Trusts(new, check.request.client, p)}]
    /\ UNCHANGED request

\* dexAPI.CreateClient and DeleteClient.
CreateClient(c, peers) ==
    /\ ~clients[c].exists
    /\ SetClients([clients EXCEPT ![c] = [exists |-> TRUE, trustedPeers |-> peers]])

DeleteClient(c) ==
    /\ clients[c].exists
    /\ SetClients([clients EXCEPT ![c] = [exists |-> FALSE, trustedPeers |-> {}]])

\* The loop over the scopes of request r begins, for these peers.
BeginCheck(use, r, peers) ==
    check' = [use |-> use, request |-> r, peers |-> peers, todo |-> peers,
              untrusted |-> FALSE,
              trusting |-> {p \in Clients : Trusts(clients, r.client, p)}]

-----------------------------------------------------------------------------
validateRedirectURI(r) ==
    r.redirectURI \in IF r.client \in Public THEN {"oob", "localhost"} ELSE {"registered"}

\* parseAuthorizationRequest, up to the loop over the scopes.
ParseBegin(r) ==
    /\ clients[r.client].exists
    /\ validateRedirectURI(r)
    /\ BeginCheck("parse", r, r.peers)
    /\ UNCHANGED <<clients, request>>

\* The checks around the loop.
Acceptable(r) ==
    /\ "openid" \in r.scopes /\ "other" \notin r.scopes
    /\ r.types \subseteq Supported /\ r.types \notin {{}, {"token"}}
    /\ "code" \in r.types \/ r.nonce
    /\ "token" \in r.types => r.redirectURI # "oob"

Parsed == Acceptable(check.request) /\ ~check.untrusted

\* Mutant: a peer that trusted the client when the user logged in still does.
CheckPeerOnce(p) ==
    /\ p \in check.todo
    /\ check' = [check EXCEPT
                   !.todo = @ \ {p},
                   !.untrusted = @ \/ (check.use = "parse"
                                         /\ ~Trusts(clients, check.request.client, p))]
    /\ UNCHANGED <<clients, request>>

\* One more scope that names a peer.  newIDToken returns at the first that is
\* not trusted; what is left to check changes nothing any more.
CheckPeer(p) ==
    /\ p \in check.todo
    /\ check' = [check EXCEPT
                   !.todo = @ \ {p},
                   !.untrusted = @ \/ ~Trusts(clients, check.request.client, p)]
    /\ UNCHANGED <<clients, request>>

=============================================================================
