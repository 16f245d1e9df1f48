----------------------------- MODULE KeyRotation -----------------------------
(***************************************************************************)
(* Signing-key rotation of dex: server/rotation.go, the keyCacher of       *)
(* server/server.go, and the two consumers of the keys, newIDToken in      *)
(* server/oauth2.go and handlePublicKeys in server/handlers.go.            *)
(*                                                                         *)
(* Several servers share one storage.  Each has a rotation goroutine       *)
(* (startKeyRotation), a key cache (keyCacher), and handlers that sign ID  *)
(* Tokens or publish the key set.  Every one of them obtains the keys with *)
(* keyCacher.GetKeys, whose steps interleave with everything else.         *)
(*                                                                         *)
(* The servers read one clock: dex has no provision for clock skew.        *)
(***************************************************************************)
EXTENDS Integers, FiniteSets

CONSTANTS
    Servers,            \* dex processes that share the storage
    Handlers,           \* requests in flight: token endpoints and /keys
    Home,               \* the server that runs each handler
    Clients,            \* relying parties that cache the published key set
    RotationFrequency,  \* rotationStrategy.rotationFrequency
    IDTokenValidFor,    \* rotationStrategy.idTokenValidFor
    MinMaxAge,          \* the two minute floor of Cache-Control: max-age
    MaxTime,            \* bound on the clock
    MaxTokens,          \* bound on the number of tokens issued
    MaxFaults           \* bound on storage errors and server restarts

ASSUME ConstantsAssumption ==
    /\ Servers \cap Handlers = {}
    /\ Home \in [Handlers -> Servers]
    /\ RotationFrequency \in Nat \ {0}
    /\ IDTokenValidFor \in Nat
    /\ MinMaxAge \in Nat
    /\ MaxTime \in Nat
    /\ MaxTokens \in Nat
    /\ MaxFaults \in Nat

VARIABLES
    now,        \* the clock
    keys,       \* storage.Keys as stored
    cache,      \* keyCacher.keys of each server
    pc,         \* where each goroutine is
    held,       \* the storage.Keys each goroutine obtained from GetKeys
    rot,        \* what a rotation transaction has read: clock and version
    tokens,     \* ID Tokens issued
    jwks,       \* the key set each client cached
    demotions,  \* history: when each former signing key was demoted
    faults      \* faults that happened

vars == <<now, keys, cache, pc, held, rot, tokens, jwks, demotions, faults>>

-----------------------------------------------------------------------------
(* A key is the number of the rotation that installed it; 0 is a nil key.  *)

NoKey == 0

VerificationKey == [key : Nat, expiry : Nat]

Keys == [signing : Nat, verification : SUBSET VerificationKey, next : Nat]

\* The zero storage.Keys: no keys, a NextRotation in the past.
NoKeys == [signing |-> NoKey, verification |-> {}, next |-> 0]

\* A server names its own rotation goroutine.
Goroutines == Servers \cup Handlers

At(g) == IF g \in Servers THEN g ELSE Home[g]

\* The keys a response of handlePublicKeys lists for the storage.Keys k.
Published(k) == {k.signing} \cup {v.key : v \in k.verification}

\* time.Before(NextRotation), the test made by rotate and by keyCacher.
Fresh(k) == now < k.next

JWKS == [keys : SUBSET Nat, fetched : Nat, expires : Nat]

Token == [key : Nat, issuedAt : Nat]

NoTransaction == [tNow |-> 0, version |-> NoKey]

Expiry(t) == t.issuedAt + IDTokenValidFor

Init ==
    /\ now = 0
    /\ keys = NoKeys
    /\ cache = [s \in Servers |-> NoKeys]
    /\ pc = [g \in Goroutines |-> "idle"]
    /\ held = [g \in Goroutines |-> NoKeys]
    /\ rot = [s \in Servers |-> NoTransaction]
    /\ tokens = {}
    /\ jwks = [c \in Clients |-> [keys |-> {}, fetched |-> 0, expires |-> 0]]
    /\ demotions = {}
    /\ faults = 0

-----------------------------------------------------------------------------
(* keyCacher.GetKeys, called by every goroutine.  Loading the cached keys  *)
(* and comparing the clock with their NextRotation is one step: the keys   *)
(* that were loaded are returned only if they are fresh when compared.     *)

LoadCache(g) ==
    /\ pc[g] = "idle"
    /\ Fresh(cache[At(g)])
    /\ held' = [held EXCEPT ![g] = cache[At(g)]]
    /\ pc' = [pc EXCEPT ![g] = "have"]
    /\ UNCHANGED <<now, keys, cache, rot, tokens, jwks, demotions, faults>>

ReadStorage(g) ==
    /\ pc[g] = "idle"
    /\ ~Fresh(cache[At(g)])
    /\ held' = [held EXCEPT ![g] = keys]
    /\ pc' = [pc EXCEPT ![g] = "read"]
    /\ UNCHANGED <<now, keys, cache, rot, tokens, jwks, demotions, faults>>

\* Only keys that are still fresh are worth caching ...
CheckFresh(g) ==
    /\ pc[g] = "read"
    /\ pc' = [pc EXCEPT ![g] = IF Fresh(held[g]) THEN "store" ELSE "have"]
    /\ UNCHANGED <<now, keys, cache, held, rot, tokens, jwks, demotions, faults>>

\* ... but the store may come any time after the test.
StoreCache(g) ==
    /\ pc[g] = "store"
    /\ cache' = [cache EXCEPT ![At(g)] = held[g]]
    /\ pc' = [pc EXCEPT ![g] = "have"]
    /\ UNCHANGED <<now, keys, held, rot, tokens, jwks, demotions, faults>>

GetKeys(g) == LoadCache(g) \/ ReadStorage(g) \/ CheckFresh(g) \/ StoreCache(g)

-----------------------------------------------------------------------------
(* rotationStrategy.rotate, called by startKeyRotation at start-up and     *)
(* then on every tick of its timer.                                        *)

\* Return at once if it is not time yet; otherwise generate a key.
RotateCheck(s) ==
    /\ pc[s] = "have"
    /\ pc' = [pc EXCEPT ![s] = IF Fresh(held[s]) THEN "idle" ELSE "generated"]
    /\ held' = [held EXCEPT ![s] = NoKeys]
    /\ UNCHANGED <<now, keys, cache, rot, tokens, jwks, demotions, faults>>

\* Mutant: the updater does not look whether another server has rotated.
UpdaterStartUnchecked(s) ==
    /\ pc[s] = "generated"
    /\ pc' = [pc EXCEPT ![s] = "updating"]
    /\ rot' = [rot EXCEPT ![s] = [tNow |-> now, version |-> keys.signing]]
    /\ UNCHANGED <<now, keys, cache, held, tokens, jwks, demotions, faults>>

\* Mutant: the updater's comparison is the wrong way round.
UpdaterStartInverted(s) ==
    /\ pc[s] = "generated"
    /\ IF ~Fresh(keys)
       THEN /\ pc' = [pc EXCEPT ![s] = "idle"]
            /\ UNCHANGED rot
       ELSE /\ pc' = [pc EXCEPT ![s] = "updating"]
            /\ rot' = [rot EXCEPT ![s] = [tNow |-> now, version |-> keys.signing]]
    /\ UNCHANGED <<now, keys, cache, held, tokens, jwks, demotions, faults>>

\* The updater runs on the stored keys: it reads the clock (tNow) and gives
\* up with errAlreadyRotated when another server has rotated meanwhile.
UpdaterStart(s) ==
    /\ pc[s] = "generated"
    /\ IF Fresh(keys)
       THEN /\ pc' = [pc EXCEPT ![s] = "idle"]
            /\ UNCHANGED rot
       ELSE /\ pc' = [pc EXCEPT ![s] = "updating"]
            /\ rot' = [rot EXCEPT ![s] = [tNow |-> now, version |-> keys.signing]]
    /\ UNCHANGED <<now, keys, cache, held, tokens, jwks, demotions, faults>>

\* Mutants of the updater's result: the demoted key expires at once; expired
\* keys stay; NextRotation is set backwards.
RotatedExpiresAtOnce(k, tNow, nowAgain) ==
    [signing |-> k.signing + 1,
     verification |->
        {v \in k.verification : tNow <= v.expiry} \cup
        {[key |-> x, expiry |-> tNow] : x \in {k.signing} \ {NoKey}},
     next |-> nowAgain + RotationFrequency]

RotatedKeepsExpired(k, tNow, nowAgain) ==
    [signing |-> k.signing + 1,
     verification |-> k.verification \cup
        {[key |-> x, expiry |-> tNow + IDTokenValidFor] : x \in {k.signing} \ {NoKey}},
     next |-> nowAgain + RotationFrequency]

RotatedBackwards(k, tNow, nowAgain) ==
    [k EXCEPT !.signing = k.signing + 1, !.next = nowAgain - RotationFrequency]

\* What the updater makes of the keys k: expired verification keys go, the
\* signing key becomes a verification key, and the next rotation is counted
\* from a second reading of the clock.
Rotated(k, tNow, nowAgain) ==
    [signing |-> k.signing + 1,
     verification |->
        {v \in k.verification : tNow <= v.expiry} \cup
        {[key |-> x, expiry |-> tNow + IDTokenValidFor] : x \in {k.signing} \ {NoKey}},
     next |-> nowAgain + RotationFrequency]

\* The storage commits the updater's result only if the keys it was computed
\* from are still the stored ones; otherwise UpdateKeys fails.  Every commit
\* installs a new signing key, so that key is the version of the object.
UpdateKeys(s) ==
    /\ pc[s] = "updating"
    /\ pc' = [pc EXCEPT ![s] = "idle"]
    /\ rot' = [rot EXCEPT ![s] = NoTransaction]
    /\ IF rot[s].version = keys.signing
       THEN /\ keys' = Rotated(keys, rot[s].tNow, now)
            /\ demotions' = demotions \cup
                   {[key |-> x, at |-> rot[s].tNow] : x \in {keys.signing} \ {NoKey}}
       ELSE UNCHANGED <<keys, demotions>>
    /\ UNCHANGED <<now, cache, held, tokens, jwks, faults>>

Rotate(s) == RotateCheck(s) \/ UpdaterStart(s) \/ UpdateKeys(s)

-----------------------------------------------------------------------------
(* The consumers.                                                          *)

Return(g) ==
    /\ pc' = [pc EXCEPT ![g] = "idle"]
    /\ held' = [held EXCEPT ![g] = NoKeys]

\* newIDToken: the keys are in hand, issuedAt is read only now.  A server
\* whose first rotation failed has no key and answers with an error.
NewIDToken(h) ==
    /\ pc[h] = "have"
    /\ Cardinality(tokens) < MaxTokens
    /\ Return(h)
    /\ tokens' = IF held[h].signing = NoKey THEN tokens
                 ELSE tokens \cup {[key |-> held[h].signing, issuedAt |-> now]}
    /\ UNCHANGED <<now, keys, cache, rot, jwks, demotions, faults>>

\* Mutant: a max-age that does not depend on the time left.
MaxAgeFixed(k) == RotationFrequency

\* max-age of the response: until the next rotation, but at least the floor.
MaxAge(k) == IF k.next - now < MinMaxAge THEN MinMaxAge ELSE k.next - now

\* handlePublicKeys, answering client c.
HandlePublicKeys(h, c) ==
    /\ pc[h] = "have"
    /\ Return(h)
    /\ jwks' = IF held[h].signing = NoKey THEN jwks
               ELSE [jwks EXCEPT ![c] = [keys |-> Published(held[h]),
                                         fetched |-> now,
                                         expires |-> now + MaxAge(held[h])]]
    /\ UNCHANGED <<now, keys, cache, rot, tokens, demotions, faults>>

-----------------------------------------------------------------------------
(* The environment.                                                        *)

Tick ==
    /\ now < MaxTime
    /\ now' = now + 1
    /\ UNCHANGED <<keys, cache, pc, held, rot, tokens, jwks, demotions, faults>>

\* A call of the storage fails: rotate returns the error, which its loop only
\* logs, and a handler answers with a server error.
StorageError(g) ==
    /\ faults < MaxFaults
    /\ pc[g] \in {"read", "generated", "updating"}
    /\ Return(g)
    /\ faults' = faults + 1
    /\ UNCHANGED <<now, keys, cache, rot, tokens, jwks, demotions>>

\* A server stops and starts again: its cache and its goroutines are gone.
Restart(s) ==
    /\ faults < MaxFaults
    /\ cache' = [cache EXCEPT ![s] = NoKeys]
    /\ pc' = [g \in Goroutines |-> IF At(g) = s THEN "idle" ELSE pc[g]]
    /\ held' = [g \in Goroutines |-> IF At(g) = s THEN NoKeys ELSE held[g]]
    /\ faults' = faults + 1
    /\ UNCHANGED <<now, keys, rot, tokens, jwks, demotions>>

Next ==
    \/ \E g \in Goroutines : GetKeys(g) \/ StorageError(g)
    \/ \E s \in Servers : Rotate(s) \/ Restart(s)
    \/ \E h \in Handlers : NewIDToken(h) \/ \E c \in Clients : HandlePublicKeys(h, c)
    \/ Tick

Spec == Init /\ [][Next]_vars

\* startKeyRotation's loop never ends and its goroutine keeps being scheduled.
\* Nothing is assumed of handlers, of the clock, or of faults.
RotationFairness == \A s \in Servers : WF_vars(GetKeys(s) \/ Rotate(s))

FairSpec == Spec /\ RotationFairness

-----------------------------------------------------------------------------
(* Properties.                                                             *)

\* Type correctness of the stored keys, the caches and every goroutine's state.
TypeOK ==
    /\ now \in 0 .. MaxTime
    /\ keys \in Keys
    /\ cache \in [Servers -> Keys]
    /\ pc \in [Goroutines -> {"idle", "read", "store", "have", "generated", "updating"}]
    /\ held \in [Goroutines -> Keys]
    /\ rot \in [Servers -> [tNow : Nat, version : Nat]]
    /\ tokens \subseteq Token
    /\ jwks \in [Clients -> JWKS]
    /\ demotions \subseteq [key : Nat, at : Nat]
    /\ faults \in 0 .. MaxFaults

\* What keyCacher.GetKeys of server s returns at this moment.
ServedKeys(s) == IF Fresh(cache[s]) THEN cache[s] ELSE keys

\* Token t was issued no later than the reading of the clock from which the
\* verification expiry of its key was computed.
IssuedBeforeDemotion(t) ==
    \A d \in demotions : d.key = t.key => t.issuedAt <= d.at

Live(t) == now <= Expiry(t) /\ IssuedBeforeDemotion(t)

\* Any server asked for its public keys, whatever it has cached, publishes the
\* key of every unexpired ID Token that was issued before the rotation of that
\* key began: rotate() keeps a demoted key for idTokenValidFor, and keyCacher
\* never serves keys that another server has replaced.
LiveTokensVerifiable ==
    \A t \in tokens : Live(t) =>
        \A s \in Servers : t.key \in Published(ServedKeys(s))

\* A client that caches the response of handlePublicKeys for the max-age it
\* announces can verify every such token, whichever server issued it, unless
\* the announced max-age is the two minute floor.
CachedJWKSVerifies ==
    \A c \in Clients, t \in tokens :
        /\ Live(t)
        /\ now < jwks[c].expires
        /\ jwks[c].expires > jwks[c].fetched + MinMaxAge
        => t.key \in jwks[c].keys

\* "For caching purposes, implementations MUST NOT update keys before this
\* time" (storage.Keys.NextRotation): no interleaving of the servers' rotation
\* loops replaces keys whose NextRotation has not come.
NoRotationBeforeNextRotation == [][keys' # keys => now >= keys.next]_vars

\* rotate() drops expired keys often enough that the stored object stays
\* bounded, however the servers interleave (TestKeyRotater expects the same).
VerificationKeysBounded ==
    Cardinality(keys.verification) <= (IDTokenValidFor \div RotationFrequency) + 1

\* When the keys are due some server's loop rotates them, despite restarts and
\* storage errors, once these stop.
DueKeysAreRotated == now >= keys.next ~> now < keys.next

\* The comment in rotate(): the demoted key's expiry "ensures the verification
\* key won't expire until all ID Tokens it's signed expired as well".
VerificationKeyOutlivesTokens ==
    \A t \in tokens : now <= Expiry(t) => t.key \in Published(keys)

=============================================================================
