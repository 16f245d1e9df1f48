---------------------------- MODULE StorageTypes ----------------------------
(***************************************************************************)
(* The kinds of objects dex stores (storage/storage.go), the fields of     *)
(* each and the operations the Storage interface has on it.                *)
(*                                                                         *)
(* What an object holds is abstracted to its history: the set of callers   *)
(* whose writes it contains, its creator and whoever updated it since, and *)
(* the fields that have lost one of these writes.  An update that is lost, *)
(* and a field that a storage forgets to write or to read back, can be     *)
(* seen in the object.                                                     *)
(***************************************************************************)
EXTENDS FiniteSets

CONSTANTS
    Procs,      \* callers of the storage
    Names,      \* IDs, or emails, or user and connector IDs of sessions
    NoName,     \* the ID of a zero object
    LowerCase,  \* the lower-case spelling of each name
    NoObject    \* what is stored under an unused name

ASSUME StorageAssumption ==
    /\ NoName \notin Names
    /\ LowerCase \in [Names -> Names]
    /\ \A n \in Names : LowerCase[LowerCase[n]] = LowerCase[n]
    /\ "config" \notin Procs

ClientFields == {"Secret", "RedirectURIs", "TrustedPeers", "Public", "Name", "LogoURL"}

ClaimsFields ==
    {"Claims.UserID", "Claims.Username", "Claims.Email", "Claims.EmailVerified",
     "Claims.Groups"}

AuthRequestFields ==
    {"ClientID", "ResponseTypes", "Scopes", "RedirectURI", "Nonce", "State",
     "ForceApprovalPrompt", "Expiry", "LoggedIn", "ConnectorID", "ConnectorData"}
        \cup ClaimsFields

AuthCodeFields ==
    {"ClientID", "RedirectURI", "Nonce", "Scopes", "ConnectorID", "ConnectorData", "Expiry"}
        \cup ClaimsFields

RefreshTokenFields ==
    {"Token", "CreatedAt", "LastUsed", "ClientID", "ConnectorID", "ConnectorData",
     "Scopes", "Nonce"} \cup ClaimsFields

OfflineSessionsFields == {"Refresh"}

PasswordFields == {"Hash", "Username", "UserID"}

ConnectorFields == {"Type", "Name", "ResourceVersion", "Config"}

KeysFields == {"SigningKey", "SigningKeyPub", "VerificationKeys", "NextRotation"}

\* The fields of an object apart from the ones that name it.
Fields ==
    [AuthRequest |-> AuthRequestFields, AuthCode |-> AuthCodeFields,
     RefreshToken |-> RefreshTokenFields, Client |-> ClientFields,
     Password |-> PasswordFields, OfflineSessions |-> OfflineSessionsFields,
     Connector |-> ConnectorFields, Keys |-> KeysFields]

Kinds == DOMAIN Fields

\* The methods of the Storage interface.  An update whose updater returns an
\* error, and one whose updater panics, are operations of their own.
Operations ==
    LET Updates == {"update", "updateFails", "updatePanics"}
        Basic   == {"create", "get", "delete"}
    IN  [AuthRequest |-> Basic \cup Updates, AuthCode |-> Basic,
         RefreshToken |-> Basic \cup Updates \cup {"list"},
         Client |-> Basic \cup Updates \cup {"list"},
         Password |-> Basic \cup Updates \cup {"list"},
         OfflineSessions |-> Basic \cup Updates,
         Connector |-> Basic \cup Updates \cup {"list"},
         Keys |-> {"get"} \cup Updates]

-----------------------------------------------------------------------------
\* "Emails are case insensitive": two spellings name the same password.
Key(kind, n) == IF kind = "Password" /\ n \in Names THEN LowerCase[n] ELSE n

Objects(kind) ==
    [name : Names \cup {NoName}, writes : SUBSET (Procs \cup {"config"}),
     lost : SUBSET Fields[kind]]

\* No object is the absence of one.
ASSUME ObjectsAssumption == \A kind \in Kinds : NoObject \notin Objects(kind)

\* An object as its creator hands it to the storage.
Created(p, n) == [name |-> n, writes |-> {p}, lost |-> {}]

\* The zero value of the object's Go type.
ZeroObject == [name |-> NoName, writes |-> {}, lost |-> {}]

\* What the updater of p makes of the object o.
Updated(o, p) == [o EXCEPT !.writes = @ \cup {p}]

\* Copying only the fields in fs of an object of this kind.
Copy(kind, o, fs) == [o EXCEPT !.lost = @ \cup (Fields[kind] \ fs)]

=============================================================================
