# A TLA+ model of dex

dex is an OpenID Connect provider that delegates authentication to *connectors*
(LDAP, SAML, GitHub, ...). One or more dex servers run over one shared storage
(memory, SQL, etcd or Kubernetes objects). They keep hardly any state of their
own: what makes the system correct is the order in which handlers that overlap,
on one server or on several, read and write objects of the storage. This
directory models that core, the storages below it, the start-up of the servers
and the connectors above it; it checks them with TLC on small instances and
proves the most important results with TLAPS.

## 1. The system

| component | source | state | operations |
|---|---|---|---|
| key rotation | `server/rotation.go`, `keyCacher` in `server/server.go` | `storage.Keys` (signing key, verification keys, `NextRotation`), one cached copy per server | `startKeyRotation`, `rotate`, `GetKeys`, `UpdateKeys` |
| signing and publication | `newIDToken` in `server/oauth2.go`, `handlePublicKeys` | none (uses the keys) | sign an ID Token, answer `/keys` with a `max-age` |
| login flow | `server/handlers.go` | one `AuthRequest` per login, an `AuthCode` at its end | `handleAuthorization`, `handleConnectorLogin`, `handleConnectorCallback`, `finalizeLogin`, `handleApproval`, `sendCodeResponse` |
| token endpoint | `server/handlers.go` | `AuthCode`, `RefreshToken`, `OfflineSessions` | `handleAuthCode`, `handleRefreshToken` |
| admin API | `server/api.go` | clients, passwords, refresh tokens | create, update, delete, list; `RevokeRefresh` |
| garbage collection | `startGarbageCollection`, `GarbageCollect` of the storages | expired `AuthRequest`s and `AuthCode`s | a loop per server |
| start-up | `serve` in `cmd/dex/serve.go`, `newServer`, `storage/sql/migrate.go`, `registerCustomResources` | SQL schema, custom resources | migrate, register, open the connectors, listen |
| connector cache | `getConnector`, `OpenConnector` | opened connectors by `ResourceVersion` | re-open on change |
| storages | `storage/*` | all objects | create, get, list, update (with an updater function), delete |
| static overlays | `storage/static.go` | objects of the configuration file | read, refuse to write |
| connectors | `connector/*`, `passwordDB` in `server/server.go` | upstream identity providers | `Login`, `HandleCallback`, `HandlePOST`, `Refresh` |
| request parsing | `server/oauth2.go` | none | `parseAuthorizationRequest`, audience, redirect URIs |

**Interaction.** Handlers, the rotation loops, the collection loops and the
admin API meet only in the storage. Creations and deletions are atomic; updates
take a function that the storage applies to the current object, under a lock
(memory, sqlite3) or optimistically (etcd, Kubernetes, Postgres), in which case
an update that loses against another one returns an error. Each server reads
the keys through a cache that it trusts until `NextRotation`.

**What is hard.** Sequences of storage calls that interleave with other
handlers' or are cut short by an error, a lost answer or a crash; objects read
before a user's visit to a connector and written after it; caches of the keys in
the servers and in the clients of `/keys`; expiry times computed from one
reading of the clock and compared with another; collections that race with
handlers and with one another; loops that only log their errors.

**What makes it correct.**
* Keys: a token can be verified as long as it is valid, by any server's key set
  and by any client that honours the `max-age`; keys are replaced only when due,
  and when due they are replaced; old keys do not pile up.
* Login: a login is answered once, with the connector that its identity is from;
  only what has expired is collected, and all of it is.
* Tokens: a code and a refresh token are redeemed once; a token that was revoked
  or replaced is dead and stays so; the session and the stored tokens agree.
* Storages: create fails on an existing object, get, update and delete on a
  missing one, concurrent updates never lose a write, no field is lost between
  a write and a read.
* Start-up: every migration is applied once; a server serves only with the
  schema and the connectors it needs, and gets there in the end.
* Connectors: a token speaks of the user who logged in, with the groups they
  have, and only as long as the configuration lets them in; a SAML response
  answers one request; a token is for clients that trust its holder.

`PROJECT.json` lists every hazard with its line and the properties aimed at it.

## 2. Modules

| module | models | runs |
|---|---|---|
| `KeyRotation` | rotation, key cache, signing, publication | `rotation`, `rotation_loop`, `rotation_gap` |
| `KeyRotationProofs` | inductive invariant and theorems about `KeyRotation` | |
| `TokenEndpoint` | code exchange, refresh and revocation | `tokens`, `tokens_two` |
| `TokenEndpointProofs` | inductive invariants and theorems about `TokenEndpoint` | |
| `AuthFlow` | login flow and garbage collection | `auth_flow`, `auth_connector`, `gc_etcd` |
| `AuthFlowProofs` | inductive invariant and theorems about `AuthFlow` | |
| `StorageTypes` | the kinds of objects, their fields and operations | |
| `Storage` | the contract of the `Storage` interface (abstract specification) | |
| `StorageCalls` | calls in progress, the database, the static overlay, requests over a network | |
| `MemoryStorage`, `EtcdStorage`, `KubernetesStorage`, `SQLStorage` | the methods of each storage | |
| `Storages` | their composition and the refinement of `Storage` | `storage` |
| `StorageInvariant`, `StorageProofs` | inductive invariant of `Storages`; proof of the refinement | |
| `ServerProcess` | the life of a server process, the checks of its configuration | |
| `Migrations`, `CustomResources`, `ConnectorCache` | what a process does when it starts, and `getConnector` | |
| `StartUp` | their composition | `startup` |
| `StartUpProofs` | inductive invariant and theorems about `StartUp` | |
| `IdentityProvider` | what connectors ask of a provider (external) | |
| `ConnectorCalls` | a call of the connector interface | |
| `GitHubConnector`, `OAuth2Connectors`, `LDAPConnector`, `SAMLConnector`, `PasswordDB` | the connectors | |
| `Authorization` | parsing of authorization requests, trust between clients | |
| `Login` | their composition by the handlers, from request to refreshed token | `login`, `login_org` |
| `LoginProofs`, `ConnectorProofs` | inductive invariants and theorems about `Login` | |
| `MC...` | instances for TLC | |

Definitions keep the names of the code. Operators introduced by a comment
`Mutant:` are wrong variants of the definition that follows them; each is meant
to break one property.

### KeyRotation

`keys` is `storage.Keys`, `cache[s]` the `keyCacher` of server `s`; `pc`, `held`
and `rot` are the program counters and local variables of the rotation
goroutines (named by their server) and of the handlers in flight. A key is the
number of the rotation that installed it. `GetKeys` is four steps (load the
cache, read the storage, compare with the clock, store into the cache), `rotate`
three (check, start of the updater, commit). The commit succeeds only if the
keys are those the updater ran on, which is what the storage contract asks for;
a storage with a lock has fewer behaviours. `tNow` and the second reading of the
clock for `NextRotation` are separate. A handler signs a token or publishes the
keys to a client, which caches them for `max-age`. `demotions` records for each
former signing key the `tNow` at which it was demoted.

All servers read one clock: dex makes no provision for skew.

*Runs.* `rotation`: two servers, one handler on the first of them, one client,
frequency 2, lifetime 2, one token, times 0 to 5, which is enough for a token to
be signed, its key demoted and the key dropped by a second and third rotation on
either server. `rotation_loop`: two servers without handlers, lifetime 3 (so
that several verification keys coexist), up to time 7, a restart or a storage
error. `rotation_gap` shows the disagreement described below.

*Fairness.* `RotationFairness` is weak fairness of each server's rotation
goroutine: its `for { select }` loop never ends. Nothing is assumed of the
handlers, of the clock or of faults.

### TokenEndpoint

One user of one connector: `refresh[e]` is the secret in the refresh token that
exchange `e` created (`None` if there is none), `session` the user's
`OfflineSessions` with a revision, `codes` the stored codes. Every request of
`Exchanges`, `Refreshes` and `Revocations` is one run of its handler; `pc` says
which storage call comes next. `UpdateOfflineSessions` is two steps, `Begin`
(read, run the updater) and `Commit` (write if the revision is unchanged);
`serial` is a storage that runs updates one at a time. A scenario is a set of
requests that are made and a kind of storage. `Goto` lets the answer
of a call that took effect get lost; `StorageError` is a call without effect,
`Crash` a handler that stops with its deferred function not run. A refresh may
present any token that was ever sent to a client.

*Runs.* `tokens` has two scenarios, with at most one fault each (a failed call, a
lost answer or a crash). On an optimistic storage client `a` presents one code
twice, client `b` logs in beside it, and two refreshes and a revocation interleave
with that. On a serial storage an earlier login of client `a` is added, whose token
the later one replaces, with one refresh and a revocation. `StoredTokensAreKnown`,
`ReferencesResolve` and `OneTokenIfApart` promise something as long as nothing has
failed only (`ReferencesResolve` also only on a serial storage), the others always.
Every kind of request meets every other one, and itself. The requests are finitely
many and end, so deadlock is not checked. `tokens_two` shows the disagreement
described below.

### AuthFlow

`reqs` are the stored `AuthRequest`s by key. An identity is represented by the
connector that vouched for it. A request's own ID is kept beside the key it is
stored under, because an update of a missing object on etcd stores one with an
empty ID. Handlers keep a copy of what they read (`job`) and write later.
`Abort` stops a handler at any point: storage errors, conflicts, refused
credentials, crashes. A user who comes back (`HandleConnectorCallback`) is handed
to the connector that the request names at that moment, as in the code, wherever
they were sent. `chosen` records the login pages that were opened for a request.
`Collect` is a garbage collection, per backend in one statement for each kind of
object or by listing and deleting.

*Runs.* `auth_flow`: one login on each of the four storages, two connectors (one
with a password form, one with a callback), two handlers, two servers' collections
of which one may fail (on etcd, where late updates multiply the states, one
connector and one collection). Handlers of different logins touch different
objects, and two handlers of one login are the harder case. Objects expire with the
next tick of the clock, and there is one tick, so that a request can expire between
any two steps of a handler and of a collection; what is collected stays expired.
`auth_connector` and `gc_etcd` show the disagreements described below.

*Fairness.* Weak fairness of each collection loop, which never ends; none of
handlers and clock.

### Storages

`Storage` is the contract: a call takes effect at one moment between invocation
and return, and a call that fails otherwise than with `ErrNotFound` or
`ErrAlreadyExists` has had no effect, has had its effect, or will have it later
(`late`). An object is the set of callers whose writes it contains, plus the
fields that lost one: a lost update and a forgotten column are both visible.

`Storages` runs callers (`calls`, `pc`, `seen`) against one database (`store`,
one slot per object) through one of five storages, for one of the eight kinds of
objects, with any set of static objects in front:

* memory: every method under the mutex of `tx` (`holder`), which a deferred call
  releases also after a panic;
* etcd: `txnCreate` and `txnUpdate` compare revisions (`known[s]` is who has read
  the current revision of slot `s`, and an update that found none is accepted if
  there is none); updating a missing object creates it; the keys of passwords and
  sessions are in lower case;
* Kubernetes: POST, PUT with the metadata that was read, DELETE; the delete of
  clients, passwords and sessions gets the object first; sessions are stored under
  a hash of their names, which may collide;
* Postgres: update transactions of which the first to commit wins;
* sqlite3: one connection for all calls, which a transaction keeps until it is
  committed or rolled back.

Requests across the network can fail before or after they take effect, and a
write can reach the database after its sender has given up (`Arrive`). For every
kind of object each storage has the set of fields that its statements or structs
carry, read off the source one by one.

`ImplementsContract` is the refinement, `Contract == INSTANCE Storage WITH ...`:
the abstract object under a name is the static one, or the one in its slot, as
callers see it. The contract allows what the documents allow and no more, with
these exceptions, each visible in its text:

* `upsert`: updating a missing object creates it (etcd);
* `fold`: sessions whose IDs differ in case only are one object (etcd);
* `clashes`: two sessions whose Kubernetes names collide cannot be stored together,
  and a delete may hit the other one (`Target`), if somebody deletes the right one
  and creates the other between the get and the delete;
* keys read as the zero value before their first update, and their first update in
  Kubernetes may return `ErrAlreadyExists`.

*Run* `storage`: two callers (symmetric), every storage with every kind of object:
two spellings of an email, two sessions whose IDs differ in case and whose hashes
collide, two connectors, one object of the other kinds, one late request where
there is one object (none of refresh tokens, which are stored like clients). Two
callers on one object are the case all of the races are about; a third writer adds
nothing that the loser of a race could tell from the second. The exceptions for
sessions do occur: without `fold`, or without the second case of `Target`, the run
fails.
Calls are not forced to return, so deadlock is not checked; what
keeps a call from returning is the question of `HeldByCallInProgress`.

### StartUp

Processes that share a storage go through the stages of `serve`: check the
configuration (`Valid`), open the storage, list and open the connectors, serve;
`Stop` ends a process anywhere, `Exit` after an error, and `Start` begins anew.
`Migrations` is one transaction per migration, of which two may read the same
number; `CustomResources` creates resources in rounds that go on after an error,
first in `Open`, then in a goroutine; `ConnectorCache` has the map of opened
connectors of each process, and `getConnector` in three steps, so that handlers
overtake one another and the operator who changes the stored objects. The writer of
a connector object chooses its resource version, as in all storages: a new one, or
one that was used before.

*Run* `startup`: two processes, one crash or failing call at any point, four
migrations, two resources, one connector object that is written twice (possibly
with one that cannot be opened) and deleted, two handlers in one process, three
configurations of which one is not valid. Handlers are driven on one of the
storages, for they behave the same on all. A process that ended by itself
restarts without limit.

*Fairness.* Weak fairness of every process (Kubernetes, or any supervisor,
restarts it), of a call of `getConnector` that has begun, and of the API server,
which establishes resources that were created. None of crashes, failing calls
and of the operator. `Settles` has the premise that from some time on all stored
connectors exist and can be opened: `newServer` returns an error otherwise.

### Login

One user, one connector, one login at a time, with everything around it in
motion: accounts appear, vanish and are replaced, memberships begin and end, and
clients are deleted and created with other trusted peers, between any two
requests of a connector to its provider and between any two look-ups of a
client. `call` is the connector call in progress with the local variables of its
loops, `check` the loop over the scopes in `parseAuthorizationRequest` or
`newIDToken`, `claims` what is stored about the user, `token` the ID token in the
last response. History is kept in `window` (memberships and accounts there were
during the call), `trusting` (peers that trusted the client during the check) and
`accepted` (the SAML response that was taken).

A page of a list is one group. GitHub and GitLab number their pages, so that a
list that shrinks between two requests makes the reader skip an entry; the links
of Microsoft point behind the last entry. A SAML response is signed as a whole,
only in its assertion, or not at all; what is not signed has any value. It has any
number of subject confirmations, its Conditions and their audience restrictions may
be missing, and so may each of the times (`Forms`).

*Run* `login`: the nine connectors in ten configurations (GitHub with `orgs` and
with the legacy `org`), three groups in two organizations, two IDs and DNs, three
sets of memberships at first, two changes of any kind, two values of the LDAP
`userAttr`, two authorization requests with a SAML response, clock drift and
validity of one tick each and times up to 4, one more than the last moment at which
a response made at 0 with limits can be accepted. Three groups are three pages,
which is enough for a first, a middle and a last one. Requests ask for the code flow,
the hybrid flow, or an implicit flow that is refused. A login ends, so deadlock
is not checked. `login_org` is the same with the legacy `org` only, and shows the
disagreement described below.

*Fairness.* Weak fairness of the handlers (`Handle`): net/http runs them, and
requests to the provider are answered or fail. Failing requests (`Fault`) are not
fair, so that no loop ends only because something went wrong. None of the
provider, the user, the clock and the admin API.

## 3. Where the code and its documentation disagree

* `rotation_gap`. `newIDToken` reads the clock after it has obtained the key. If
  the key is demoted in between, its verification key expires before the token
  does, contrary to the comment in `rotate`.
  `LiveTokensVerifiable` is therefore stated for tokens issued before their
  key's demotion. `LateTokensLoseNoMore` (proved) bounds the damage: any token can
  be verified until its lifetime, counted from the demotion of its key, is over.
* `tokens_two`. Two overlapping exchanges of one client leave two refresh tokens
  in storage, contrary to `api.proto`. (Only one of them can be used:
  `UnreferencedTokensAreDead`.) Overlap and failures are the only ways to get
  there: `OneTokenIfApart`.
* `gc_etcd`. An update that comes after the deletion of its request leaves an
  object that etcd's collection can never delete, and on account of which it
  never gets to the expired codes.
* `auth_connector`. `handleConnectorLogin` sets `ConnectorID` to the connector whose
  page was opened last, also when the request has the identity of a user who logged
  in through another; the code then has the one's `ConnectorID` and the other's
  claims, contrary to the comment on `AuthRequest.ConnectorID` ("The connector used
  to login the user", `storage/storage.go`). Opening a second login page is the only
  way to get there: `CodesNameOnlyConnector`.
* `login_org`. The documentation of the GitHub connector says of the legacy option
  `org` that "A user MUST be a member of the following org to authenticate with
  dex"; `getGroups` only lists the teams of that organization and lets anybody in.
  `MembershipEnforced` is stated for all other restrictions.

More observations, without a run of their own:

* `getConnector` re-opens a connector only when its `ResourceVersion` differs. No
  storage changes versions by itself, and the conformance tests update an object
  without a new one: handlers then go on with the old connector until the server is
  restarted, although the comment in `getConnector` speaks of an object that "has
  been updated in the storage". `ConnectorAsStored` promises the version in any case
  and the connector only if all writers choose new versions (`Distinct`).
* etcd stores sessions under keys in lower case and does not compare IDs when it
  reads one: users (or connectors) whose IDs differ in case only share a session.
* `DeleteOfflineSessions` of the Kubernetes storage checks the IDs and deletes by
  name in two requests, although "Delete methods MUST be atomic"
  (`storage/storage.go`).
* A SAML response without `NotOnOrAfter` can be delivered at any time, and one
  without Conditions or audience restrictions may be meant for somebody else: the
  code treats them as optional. `LateResponsesFail` and `SAMLAnswersRequest` promise
  what is left.
* On etcd the same late update can lead to a second answer: it brings the request
  back, and a third handler of that request, past its checks, deletes it once
  more. `OneResponsePerRequest` is stated for the other storages.
* On an optimistic storage a failed exchange can leave the session with a
  reference to a deleted refresh token, after which every login of that client
  that asks for `offline_access` fails until the reference is revoked:
  `ReferencesResolve` is stated for serial storages without faults.
* A refresh that overlaps with a revocation finds no reference in the session and
  dereferences nil in its updater (`UpdateLastUsed`). On sqlite3 the transaction
  is not rolled back then, and its connection is lost: the exception in
  `HeldByCallInProgress`.
* A comment in `sendCodeResponse` says that implicit and hybrid flows with the
  out-of-band redirect URI "are rejected earlier"; `parseAuthorizationRequest`
  rejects only those that ask for `token` (`Acceptable`).
* The comments on Kubernetes names speak of hash collisions of clients and
  passwords; their names are encodings that cannot collide. Only sessions are
  hashed.

## 4. What is proved

Every safety property that a passing run checks is proved for every value of the
constants. In the proofs leaves are for Zenon unless they cite SMT, which is
kept for arithmetic and updates of records; `KeyRotationProofs` and
`StartUpProofs` leave the choice to the prover.

`KeyRotationProofs` proves for any sets of servers, handlers and clients, any
rotation frequency and token lifetime, and without bounds on tokens and faults
other than that they are natural numbers:

| theorem | statement |
|---|---|
| `TypeCorrect` | `Spec => []TypeOK` |
| `LiveTokensAreVerifiable` | `Spec => []LiveTokensVerifiable` |
| `CachedJWKSCanVerify` | `Spec => []CachedJWKSVerifies` |
| `KeysChangeOnlyWhenDue` | `Spec => NoRotationBeforeNextRotation` |
| `VerificationKeysStayBounded` | `Spec => []VerificationKeysBounded` |
| `LateTokensLoseNoMore` | `Spec => []LateTokensVerifiable` |

The only assumption is `ConstantsAssumption`. `LiveTokensVerifiable` is not
inductive: that a server's cache is good enough follows from why it is. The
inductive invariant `IInv` adds that fresh keys, wherever they are held, are the
stored ones (`FreshKeysAreStored`: nobody may replace keys before their
`NextRotation`); that every key used anywhere was installed by some rotation
(`KeysWereInstalled`) and is demoted if it is no longer the signing key
(`FormerKeysWereDemoted`); that a demoted key is stored with an expiry
`IDTokenValidFor` after its demotion, until that time has passed
(`DemotedKeysAreKept`); that a transaction which will commit started when the
keys were due (`TransactionsStartWhenDue`); and that a client's copy within its
`max-age` is the stored one (`CachedJWKSIsStored`). TLC agrees with `IInv` on the
instance of `rotation`. The bound on the verification keys needs one more
invariant, `KeysAreSpaced`: their expiries are a rotation period apart and lie
within one token lifetime, so that numbering the periods maps the keys one-to-one
into as many numbers as the bound allows.

`TokenEndpointProofs` proves for any clients, codes and sets of requests, for
serial and optimistic storages, and for any number of faults:

| theorem | statement |
|---|---|
| `TypeCorrect` | `Spec => []TypeOK` |
| `CodesAreRedeemedOnce` | `Spec => []CodeRedeemedOnce` |
| `RefreshTokensAreClaimedOnce` | `Spec => []RefreshTokenClaimedOnce` |
| `UnreferencedTokensStayDead` | `Spec => []UnreferencedTokensAreDead` |
| `ReferencesStayIndependent` | `Spec => ReferencesAreIndependent` |
| `RevocationStaysFinal` | `Spec => RevocationIsFinal` |
| `NoTokenIsForgotten` | `Spec => []StoredTokensAreKnown` |
| `ReferencesAlwaysResolve` | `Spec => []ReferencesResolve` |
| `OneTokenWithoutOverlap` | `Spec => OneTokenIfApart` |

The only assumption is `TokenAssumption`. None of the properties is inductive.
`IInv` adds why they hold: an exchange past `DeleteAuthCode` was the only one to
delete its code, which is gone (`CodesGoOnce`); a secret appears nowhere before
its request writes it (`SecretsAreFresh`), so that a secret which was claimed
cannot come back (`ClaimedSecretsAreGone`); clients know a token only when its
exchange is over (`IssuedAfterExchange`), so no later write of the session can
refer to a token that a stale refresh holds (`StaleRefreshesStop`); and an update
of the session whose revision is still current writes what its updater makes of
the current object (`TransactionsAreCurrent`), which is what an optimistic
storage has in common with a serial one. The lemma `Moves` says once where each
action takes its request; there is one lemma per conjunct. TLC agrees with `IInv`
on the instance of `tokens`.

The last three theorems have hypotheses in their properties (no fault so far; a
serial storage; logins that do not overlap) and an invariant each. That no token
is forgotten follows from `TokensAreHandedOut`: a stored token belongs to an
exchange that will answer or clean up, or it was sent. That references resolve
takes `RInv`: one update at a time, nobody deletes a new token, and references
lead to tokens whose exchange is through with storage. That a client has one
token takes `TInv`, on either kind of storage: every stored token has a reason to
be there (`Justified`: the session refers to it, its exchange is at work, or a
revocation is about to delete it); an exchange about to write its reference has
read the current one, or one revoked since, and has deleted what it led to
(`Replaces`); a revocation that will be accepted removes what it looked up
(`Revokes`). The hypothesis of `OneTokenIfApart` is about the whole behaviour,
`[](faults = 0 /\ Apart)`, which PTL carries through the induction.

`AuthFlowProofs` proves for any requests, connectors, handlers, collectors,
lifetimes and faults, on every storage, from `AuthFlowAssumption`:

| theorem | statement |
|---|---|
| `TypeCorrect` | `Spec => []TypeOK` |
| `OneResponse` | `Spec => []OneResponsePerRequest` |
| `OnlyExpired` | `Spec => OnlyExpiredAreCollected` |
| `CodesNameConnector` | `Spec => []CodesNameOnlyConnector` |

`IInv` adds that stored requests have their own key as ID unless etcd has lost it
(`Recorded`), that handlers work on requests that were made (`JobsAreGiven`), that
what a collection has listed is still expired when it is deleted
(`ListedHaveExpired`), and that the right to answer a request passes from the
storage to the one handler whose deletion succeeded and is used up by its answer
(`RightToAnswer`). `Choices` follows connectors and identities from the login page
through a handler's copy, the stored request and the approval to the code: all are
of connectors whose pages were opened, and a request has a connector before anybody
can store an identity in it, unless etcd has brought it back without an expiry, in
which case nobody approves it. TLC agrees with both.

`StartUpProofs` proves for any number of processes, handlers, connectors,
migrations, resources and failures:

| theorem | statement |
|---|---|
| `MigrationsInOrderTheorem` | `Spec => []MigrationsInOrder` |
| `ServesOnCurrentSchemaTheorem` | `Spec => []ServesOnCurrentSchema` |
| `ConnectorAsStoredTheorem` | `Spec => []ConnectorAsStored` |

from the assumptions of the four modules it is composed of. The inductive
invariant `StartUpInv` has the types; for the migrations, that no transaction has
read a number beyond the last one, and that a process past the opening has seen
the last migration; for the cache, that every object anybody may still use was
written under its ID at some time (`Known`), so that the comparison of versions in
`getConnector` is as good as one of objects when writers never repeat a version; and
that what a call has read was stored since it began (`CallInv`).

`StorageInvariant` and `StorageProofs` prove for any callers, names, static objects
and number of late requests, for all five storages and eight kinds of objects:

| theorem | statement |
|---|---|
| `StoragesInvariant` | `Spec => []Inv` |
| `StoragesImplementContract` | `Spec => ImplementsContract` |
| `HeldByCallInProgressTheorem` | `Spec => []HeldByCallInProgress` |

from the assumptions of the modules they are composed of (`StorageAssumption`,
`ObjectsAssumption`, `CallersAssumption`, `KubernetesAssumption`,
`StoragesAssumption`, `HolderAssumption`). First, no storage forgets a field: its
structs or columns are compared with the fields of each kind, so that copying is
the identity on objects. `Inv` then says what calls and late requests know: types
(`Types`); a stored object is in the slot of its name and hidden by no static one
(`Stores`); a call that has read and whose revision is current has seen the
stored object (`InCall`); a late update whose revision is current is still the
update of what is stored (`Sent`); late requests differ in purpose (`Distinct`).
The steps of all methods are sorted into a few patterns (a step that returns,
commits, gives up, reads, locks), each of which keeps `Inv` and is a step of the
contract or a stutter; the proof for a storage only has to name the pattern.
`HeldInv`, for the mutex and the sqlite3 connection, says where in its method the
holder is.

`LoginProofs` and `ConnectorProofs` prove for any connectors, groups, clients,
requests and times:

| theorem | statement |
|---|---|
| `AudienceTrustsTheorem` | `Spec => []AudienceTrusts` |
| `SAMLAnswersRequestTheorem` | `Spec => []SAMLAnswersRequest` |
| `LateResponsesFailTheorem` | `Spec => []LateResponsesFail` |
| `LoginTypeCorrect` | `Spec => []TypeOK` |
| `GroupsAreAsHeld` | `Spec => []GroupsAsHeld` |
| `MembershipIsEnforced` | `Spec => []MembershipEnforced` |
| `TokensHaveOneAccount` | `Spec => []OneAccount` |

`AudienceInv` adds what the loop over the scopes has established: peers that are
no longer in `todo` of a check without an untrusted one have trusted the client
since the check began. `SAMLInv` follows a login through its stages: a call that
is done, and the claims stored after it, come from the accepted response
(`Answers`), no other request is stored meanwhile, whatever a response says of its
end is at most the validity and the drift after it was made (`Ends`), and what was
taken was not late (`Punctual`). TLC agrees with both on the instance of `login`.

The last four theorems rest on `CInv`. It ties the call of a connector to the
stage of the login (`FlowInv`), says that a call in progress has witnessed
whatever there is now (`WindowInv`), follows the claims into storage
(`ClaimsInv`) and the token (`TokenInv`), and has for each connector what its
loops have established in the middle of a call (`MidInv`): the groups collected so
far were held at some time of the call, and every group held all along whose
place in the list is behind the cursor has been collected. For pages with numbers
the latter needs that positions in the list only grow unless a membership ends
(after which nothing is promised, as `GroupsAsHeld` says); that the page read next
is the right one is an argument about cardinalities of the sets of groups ranked
below a group, for which `Groups` is assumed to be finite. Links that point behind
the last entry take the fact that a set of ranks has a least element instead.
`LoginProofs` has `CInv`, the handlers and the connectors that read no
list; `ConnectorProofs` those that do, and the changes at the provider. TLC
agrees with `CInv`.

Model-checked only: liveness, that is `DueKeysAreRotated`, `ExpiredAreCollected`,
`Settles` and `CallsReturn`. It rests on fairness, hence on `ENABLED`, which the
prover does not support.

## 5. Abstractions and what is left out

* Keys, codes, secrets and IDs are abstract values that never repeat
  (`storage.NewID`); signatures, encodings, HTML and logging are left out.
* Requests that are refused without a change of state (wrong client, redirect
  URI, scope) are one action, `Refuse`, or simply do not happen.
* Refresh tokens of dex versions that had no secret in them are left out.
* An identity is the account it was read from; user names and emails change only
  with it. Passwords, upstream tokens and their renewal are not distinguished,
  hence `UpdatePassword` of the admin API is left out.
* SAML: the mode that skips signature validation is left out; XML signatures are
  external. A confirmation that is not of the bearer kind, without data or for
  another recipient does not count, as if it were missing.
* Aliasing of slices and maps in the memory storage (objects are values), rows
  left open after a scan error.
* The stored connector objects are changed by an operator, with any resource
  versions; dex has no API for it.
* Not modelled: templates, discovery and health handlers (no state that another
  part depends on), parsing of flags and YAML, TLS, the example application, the
  generated protobuf code, the read-only calls of the admin API, HTTP details of
  the connectors.
