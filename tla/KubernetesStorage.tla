-------------------------- MODULE KubernetesStorage --------------------------
(***************************************************************************)
(* The Kubernetes storage (storage/kubernetes).  Objects are custom        *)
(* resources, written with POST, PUT and DELETE requests to the API        *)
(* server; a PUT carries the metadata of the object that was read, whose   *)
(* resource version the API server compares.                               *)
(***************************************************************************)
EXTENDS StorageCalls

CONSTANT
    SessionHash     \* resource names of offline sessions, a hash of both IDs

ASSUME KubernetesAssumption == SessionHash \in [Names -> Names]

\* Fields copied to and from the resource structs of types.go; the ID of an
\* AuthRequest, AuthCode or RefreshToken is its resource name.
K8sClient == {"Secret", "RedirectURIs", "TrustedPeers", "Public", "Name", "LogoURL"}

K8sClaims ==
    {"Claims.UserID", "Claims.Username", "Claims.Email", "Claims.EmailVerified",
     "Claims.Groups"}

K8sAuthRequest ==
    {"ClientID", "ResponseTypes", "Scopes", "RedirectURI", "Nonce", "State", "LoggedIn",
     "ForceApprovalPrompt", "ConnectorID", "ConnectorData", "Expiry"} \cup K8sClaims

K8sPassword == {"Hash", "Username", "UserID"}

K8sAuthCode ==
    {"ClientID", "RedirectURI", "ConnectorID", "ConnectorData", "Nonce", "Scopes", "Expiry"}
        \cup K8sClaims

K8sRefreshToken ==
    {"Token", "CreatedAt", "LastUsed", "ClientID", "ConnectorID", "ConnectorData",
     "Scopes", "Nonce"} \cup K8sClaims

K8sKeys == {"SigningKey", "SigningKeyPub", "VerificationKeys", "NextRotation"}

K8sOfflineSessions == {"Refresh"}

K8sConnector == {"Type", "Name", "ResourceVersion", "Config"}

K8sFields ==
    [AuthRequest |-> K8sAuthRequest, AuthCode |-> K8sAuthCode,
     RefreshToken |-> K8sRefreshToken, Client |-> K8sClient, Password |-> K8sPassword,
     OfflineSessions |-> K8sOfflineSessions, Connector |-> K8sConnector, Keys |-> K8sKeys]

K8sCopy(o) == Copy(kind, o, K8sFields[kind])

\* idToName and offlineTokenName.  A client ID or an email is part of its
\* resource name; a session has only the hash of its IDs.
K8sName(n) == IF kind = "OfflineSessions" THEN SessionHash[n] ELSE Key(kind, n)

K8sSlot(p) == K8sName(calls[p].name)

\* The kinds whose names are encoded.  Their get checks that the object it
\* finds is the one that was asked for.
Encoded == kind \in {"Client", "Password", "OfflineSessions"}

Collision(p) == Encoded /\ store[K8sSlot(p)].name # Key(kind, calls[p].name)

-----------------------------------------------------------------------------
\* post: 409 Conflict is ErrAlreadyExists.
K8sCreate(p) ==
    /\ Called(p, "kubernetes", {"create"})
    /\ Request(p, K8sSlot(p), K8sCopy(Created(p, Key(kind, calls[p].name))),
               store[K8sSlot(p)] = NoObject, "alreadyExists")
    /\ UNCHANGED <<setup, holder>>

K8sGet(p) ==
    /\ Called(p, "kubernetes", {"get"})
    /\ CASE store[K8sSlot(p)] = NoObject -> Answer(p, "notFound", {})
         [] OTHER -> IF Collision(p) THEN Answer(p, "error", {})
                                     ELSE Answer(p, "ok", {K8sCopy(store[K8sSlot(p)])})
    /\ UNCHANGED <<setup, store, known, late, holder>>

\* Clients and refresh tokens cannot be listed: "not implemented".
K8sList(p) ==
    /\ Called(p, "kubernetes", {"list"})
    /\ IF kind \in {"Password", "Connector"}
       THEN Answer(p, "ok", StaticList({K8sCopy(o) : o \in Stored}))
       ELSE Answer(p, "error", {})
    /\ UNCHANGED <<setup, store, known, late, holder>>

\* The delete of an encoded kind gets the object first, to check for a
\* collision,
K8sDeleteGet(p) ==
    /\ Called(p, "kubernetes", {"delete"})
    /\ Encoded
    /\ CASE store[K8sSlot(p)] = NoObject -> Answer(p, "notFound", {}) /\ Keep
         [] OTHER -> IF Collision(p) THEN Answer(p, "error", {}) /\ Keep
                                     ELSE Read(p, K8sSlot(p))
    /\ UNCHANGED <<setup, late, holder>>

\* and then deletes it, whatever its revision is.
K8sDelete(p) ==
    /\ IF Encoded THEN backend = "kubernetes" /\ At(p, "read", {"delete"})
                  ELSE Called(p, "kubernetes", {"delete"})
    /\ Request(p, K8sSlot(p), NoObject, store[K8sSlot(p)] # NoObject, "notFound")
    /\ UNCHANGED <<setup, holder>>

\* An update gets the object and calls the updater.  The keys may be missing.
K8sUpdateGet(p) ==
    /\ Called(p, "kubernetes", {"update", "updateFails", "updatePanics"})
    /\ CASE store[K8sSlot(p)] = NoObject /\ kind # "Keys" -> Keep /\ Answer(p, "notFound", {})
         [] store[K8sSlot(p)] # NoObject /\ Collision(p)  -> Keep /\ Answer(p, "error", {})
         [] OTHER ->
              CASE calls[p].op = "updateFails"  -> Keep /\ Answer(p, "error", {})
                [] calls[p].op = "updatePanics" -> Keep /\ Answer(p, "panic", {})
                [] OTHER -> Read(p, K8sSlot(p))
    /\ UNCHANGED <<setup, late, holder>>

\* Then it puts the new object with the old metadata: 404 is ErrNotFound, 409 a
\* conflict.  The first update of the keys is a post.
K8sUpdatePut(p) ==
    LET old   == IF seen[p] = NoObject THEN ZeroObject ELSE K8sCopy(seen[p])
        first == seen[p] = NoObject
    IN  /\ backend = "kubernetes"
        /\ At(p, "read", {"update"})
        /\ Request(p, K8sSlot(p), K8sCopy(Updated(old, p)),
                   IF first THEN store[K8sSlot(p)] = NoObject ELSE p \in known[K8sSlot(p)],
                   IF first THEN "alreadyExists"
                   ELSE IF store[K8sSlot(p)] = NoObject THEN "notFound" ELSE "error")
        /\ UNCHANGED <<setup, holder>>

K8sMethod(p) ==
    \/ K8sCreate(p) \/ K8sGet(p) \/ K8sList(p) \/ K8sDeleteGet(p) \/ K8sDelete(p)
    \/ K8sUpdateGet(p) \/ K8sUpdatePut(p)

=============================================================================
