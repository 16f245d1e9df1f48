-------------------------- MODULE KeyRotationProofs --------------------------
(***************************************************************************)
(* Proofs about KeyRotation, for any number of servers, handlers and       *)
(* clients and any rotation frequency and token lifetime.                  *)
(***************************************************************************)
EXTENDS KeyRotation, FiniteSetTheorems, TLAPS

-----------------------------------------------------------------------------
(* The inductive invariant.                                                *)

\* Keys that are fresh, in a cache or in a goroutine's hands, are the stored
\* ones: nobody replaces them before their NextRotation.
FreshKeysAreStored ==
    /\ \A s \in Servers : Fresh(cache[s]) => cache[s] = keys
    /\ \A g \in Goroutines : Fresh(held[g]) => held[g] = keys

\* Nobody holds, and no token was signed by, a key that was not installed.
KeysWereInstalled ==
    /\ \A s \in Servers : cache[s].signing <= keys.signing
    /\ \A g \in Goroutines : held[g].signing <= keys.signing
    /\ \A t \in tokens : t.key \in 1 .. keys.signing

\* A key that was installed and is not the signing key has been demoted ...
FormerKeysWereDemoted ==
    \A k \in 1 .. keys.signing :
        k = keys.signing \/ \E d \in demotions : d.key = k

\* ... and is kept for verification until idTokenValidFor has passed.
DemotedKeysAreKept ==
    \A d \in demotions : now <= d.at + IDTokenValidFor =>
        [key |-> d.key, expiry |-> d.at + IDTokenValidFor] \in keys.verification

\* A rotation transaction that can still commit began when the keys were due.
TransactionsStartWhenDue ==
    \A s \in Servers : pc[s] = "updating" =>
        /\ rot[s].tNow <= now
        /\ rot[s].version <= keys.signing
        /\ rot[s].version = keys.signing => keys.next <= rot[s].tNow

\* A response that is cached for longer than the floor lists what is stored.
CachedJWKSIsStored ==
    \A c \in Clients :
        /\ now < jwks[c].expires
        /\ jwks[c].expires > jwks[c].fetched + MinMaxAge
        => jwks[c].keys = Published(keys) /\ jwks[c].expires <= keys.next

IInv ==
    /\ TypeOK
    /\ FreshKeysAreStored
    /\ KeysWereInstalled
    /\ FormerKeysWereDemoted
    /\ DemotedKeysAreKept
    /\ TransactionsStartWhenDue
    /\ CachedJWKSIsStored

-----------------------------------------------------------------------------
(* Type correctness.                                                       *)

\* The zero value of storage.Keys is a storage.Keys.
LEMMA NoKeysType == NoKeys \in Keys
BY DEF NoKeys, NoKey, Keys, VerificationKey

\* What the updater of rotate() returns is a storage.Keys.
LEMMA RotatedType ==
    ASSUME NEW k \in Keys, NEW t \in Nat, NEW u \in Nat
    PROVE  Rotated(k, t, u) \in Keys
<1>1. {v \in k.verification : t <= v.expiry} \subseteq VerificationKey
  BY DEF Keys
<1>2. {[key |-> x, expiry |-> t + IDTokenValidFor] : x \in {k.signing} \ {NoKey}}
         \subseteq VerificationKey
  BY ConstantsAssumption DEF Keys, VerificationKey
<1>3. k.signing + 1 \in Nat /\ u + RotationFrequency \in Nat
  BY ConstantsAssumption DEF Keys
<1> QED BY <1>1, <1>2, <1>3 DEF Rotated, Keys

\* The key set of a response consists of keys.
LEMMA PublishedType ==
    ASSUME NEW k \in Keys
    PROVE  Published(k) \subseteq Nat
BY DEF Published, Keys, VerificationKey

\* The server a goroutine runs on is a server.
LEMMA AtType == \A g \in Goroutines : At(g) \in Servers
BY ConstantsAssumption DEF At, Goroutines

\* Every step of every goroutine, of the clock and of the environment preserves
\* the types of the stored keys, the caches and the goroutines' state.
LEMMA TypeInductive == TypeOK /\ [Next]_vars => TypeOK'
<1> SUFFICES ASSUME TypeOK, [Next]_vars PROVE TypeOK'
  OBVIOUS
<1> USE ConstantsAssumption
<1>0. now \in Nat
  BY DEF TypeOK
<1>1. ASSUME NEW g \in Goroutines, LoadCache(g) PROVE TypeOK'
  BY <1>1, AtType DEF TypeOK, LoadCache
<1>2. ASSUME NEW g \in Goroutines, ReadStorage(g) PROVE TypeOK'
  BY <1>2 DEF TypeOK, ReadStorage
<1>3. ASSUME NEW g \in Goroutines, CheckFresh(g) PROVE TypeOK'
  BY <1>3 DEF TypeOK, CheckFresh
<1>4. ASSUME NEW g \in Goroutines, StoreCache(g) PROVE TypeOK'
  BY <1>4, AtType DEF TypeOK, StoreCache
<1>5. ASSUME NEW s \in Servers, RotateCheck(s) PROVE TypeOK'
  BY <1>5, NoKeysType DEF TypeOK, RotateCheck, Goroutines
<1>6. ASSUME NEW s \in Servers, UpdaterStart(s) PROVE TypeOK'
  <2>1. [tNow |-> now, version |-> keys.signing] \in [tNow : Nat, version : Nat]
    BY <1>0 DEF TypeOK, Keys
  <2>2. s \in Goroutines
    BY DEF Goroutines
  <2>3. pc' \in [Goroutines -> {"idle", "read", "store", "have", "generated", "updating"}]
    BY <1>6, <2>2 DEF TypeOK, UpdaterStart
  <2>4. rot' \in [Servers -> [tNow : Nat, version : Nat]]
    BY <1>6, <2>1 DEF TypeOK, UpdaterStart
  <2> QED BY <1>6, <2>3, <2>4 DEF TypeOK, UpdaterStart
<1>7. ASSUME NEW s \in Servers, UpdateKeys(s) PROVE TypeOK'
  <2>1. rot[s].tNow \in Nat /\ keys.signing \in Nat
    BY DEF TypeOK, Keys
  <2>2. keys' \in Keys
    <3>1. keys \in Keys
      BY DEF TypeOK
    <3>2. Rotated(keys, rot[s].tNow, now) \in Keys
      BY <1>0, <2>1, <3>1, RotatedType
    <3> QED BY <1>7, <3>1, <3>2 DEF UpdateKeys
  <2>3. demotions' \subseteq [key : Nat, at : Nat]
    BY <1>7, <2>1 DEF TypeOK, UpdateKeys
  <2>4. rot' \in [Servers -> [tNow : Nat, version : Nat]]
    BY <1>7 DEF TypeOK, UpdateKeys, NoTransaction, NoKey
  <2> QED BY <1>7, <2>2, <2>3, <2>4 DEF TypeOK, UpdateKeys, Goroutines
<1>8. ASSUME NEW h \in Handlers, NewIDToken(h) PROVE TypeOK'
  <2>1. [key |-> held[h].signing, issuedAt |-> now] \in Token
    BY <1>0 DEF TypeOK, Goroutines, Keys, Token
  <2> QED BY <1>8, <2>1, NoKeysType DEF TypeOK, NewIDToken, Return, Goroutines
<1>9. ASSUME NEW h \in Handlers, NEW c \in Clients, HandlePublicKeys(h, c) PROVE TypeOK'
  <2>1. held[h] \in Keys
    BY DEF TypeOK, Goroutines
  <2>2. now + MaxAge(held[h]) \in Nat
    BY <1>0, <2>1 DEF MaxAge, Keys
  <2>3. [keys |-> Published(held[h]), fetched |-> now,
         expires |-> now + MaxAge(held[h])] \in JWKS
    BY <1>0, <2>1, <2>2, PublishedType DEF JWKS
  <2> QED BY <1>9, <2>3, NoKeysType DEF TypeOK, HandlePublicKeys, Return, Goroutines
<1>10. CASE Tick
  BY <1>10 DEF TypeOK, Tick
<1>11. ASSUME NEW g \in Goroutines, StorageError(g) PROVE TypeOK'
  BY <1>11, NoKeysType DEF TypeOK, StorageError, Return
<1>12. ASSUME NEW s \in Servers, Restart(s) PROVE TypeOK'
  BY <1>12, NoKeysType DEF TypeOK, Restart
<1>13. CASE UNCHANGED vars
  BY <1>13 DEF TypeOK, vars
<1> QED
  BY <1>1, <1>2, <1>3, <1>4, <1>5, <1>6, <1>7, <1>8, <1>9, <1>10, <1>11, <1>12, <1>13
  DEF Next, GetKeys, Rotate

\* The initial state, an empty storage and idle goroutines, is type correct.
LEMMA InitType == Init => TypeOK
BY ConstantsAssumption, NoKeysType
   DEF Init, TypeOK, NoTransaction, NoKey, JWKS

\* The stored keys, the caches and the goroutines of KeyRotation keep their
\* types in every behaviour.
THEOREM TypeCorrect == Spec => []TypeOK
BY InitType, TypeInductive, PTL DEF Spec

-----------------------------------------------------------------------------
(* The invariant is inductive.                                             *)

\* The initial state satisfies the invariant: there is no key yet.
LEMMA InitIInv == Init => IInv
<1> SUFFICES ASSUME Init PROVE IInv
  OBVIOUS
<1>1. TypeOK
  BY InitType
<1>2. FreshKeysAreStored
  BY DEF Init, FreshKeysAreStored
<1>3. KeysWereInstalled
  BY DEF Init, KeysWereInstalled, NoKeys, NoKey
<1>4. FormerKeysWereDemoted
  BY DEF Init, FormerKeysWereDemoted, NoKeys, NoKey
<1>5. DemotedKeysAreKept
  BY DEF Init, DemotedKeysAreKept
<1>6. TransactionsStartWhenDue
  BY DEF Init, TransactionsStartWhenDue, Goroutines
<1>7. CachedJWKSIsStored
  BY DEF Init, CachedJWKSIsStored
<1> QED BY <1>1, <1>2, <1>3, <1>4, <1>5, <1>6, <1>7 DEF IInv

\* A step that leaves the clock, the stored keys, the tokens, the demotions and
\* the clients alone, and moves only keys that somebody already had.
LEMMA GetKeysStep ==
    ASSUME IInv, NEW g \in Goroutines, GetKeys(g)
    PROVE  IInv'
<1> USE DEF IInv
<1>1. TypeOK'
  BY TypeInductive DEF Next
<1>2. UNCHANGED <<now, keys, tokens, jwks, demotions, rot>>
  BY DEF GetKeys, LoadCache, ReadStorage, CheckFresh, StoreCache
<1>3. keys.signing \in Nat /\ now \in Nat
  BY ConstantsAssumption DEF TypeOK, Keys
<1>4. \A f \in Goroutines : held'[f] \in {held[f], keys, cache[At(f)]}
  BY DEF GetKeys, LoadCache, ReadStorage, CheckFresh, StoreCache, TypeOK
<1>5. \A s \in Servers : cache'[s] = cache[s] \/ \E f \in Goroutines : cache'[s] = held[f]
  BY DEF GetKeys, LoadCache, ReadStorage, CheckFresh, StoreCache, TypeOK
<1>6. FreshKeysAreStored'
  BY <1>2, <1>4, <1>5, AtType DEF FreshKeysAreStored, Fresh
<1>7. KeysWereInstalled'
  BY <1>2, <1>3, <1>4, <1>5, AtType DEF KeysWereInstalled
<1>8. FormerKeysWereDemoted' /\ DemotedKeysAreKept' /\ CachedJWKSIsStored'
  BY <1>2 DEF FormerKeysWereDemoted, DemotedKeysAreKept, CachedJWKSIsStored, Published
<1>9. TransactionsStartWhenDue'
  BY <1>2 DEF GetKeys, LoadCache, ReadStorage, CheckFresh, StoreCache,
              TransactionsStartWhenDue, TypeOK, Goroutines
<1> QED BY <1>1, <1>6, <1>7, <1>8, <1>9

\* Forgetting keys (a goroutine that finishes, a cache that is lost) disturbs
\* no claim about fresh or installed keys: the zero keys are never fresh.
LEMMA ForgettingKeys ==
    ASSUME IInv, TypeOK',
           UNCHANGED <<now, keys>>,
           \A g \in Goroutines : held'[g] \in {held[g], NoKeys},
           \A s \in Servers : cache'[s] \in {cache[s], NoKeys}
    PROVE  /\ FreshKeysAreStored'
           /\ tokens' = tokens => KeysWereInstalled'
<1>1. now \in Nat /\ keys.signing \in Nat
  BY ConstantsAssumption DEF IInv, TypeOK, Keys
<1>2. NoKeys.next = 0 /\ NoKeys.signing = 0
  BY DEF NoKeys, NoKey
<1>3. FreshKeysAreStored'
  BY <1>1, <1>2 DEF IInv, FreshKeysAreStored, Fresh
<1>4. ASSUME tokens' = tokens PROVE KeysWereInstalled'
  BY <1>1, <1>2, <1>4 DEF IInv, KeysWereInstalled
<1> QED BY <1>3, <1>4

\* rotate() deciding whether to rotate, and its updater reading the clock.
LEMMA RotateStartStep ==
    ASSUME IInv, NEW s \in Servers, RotateCheck(s) \/ UpdaterStart(s)
    PROVE  IInv'
<1> USE DEF IInv
<1>1. TypeOK'
  BY TypeInductive DEF Next, Rotate
<1>2. UNCHANGED <<now, keys, cache, tokens, jwks, demotions>>
  BY DEF RotateCheck, UpdaterStart
<1>3. now \in Nat /\ keys.next \in Nat /\ keys.signing \in Nat
  BY ConstantsAssumption DEF TypeOK, Keys
<1>4. \A g \in Goroutines : held'[g] \in {held[g], NoKeys}
  BY DEF RotateCheck, UpdaterStart, TypeOK
<1>5. FreshKeysAreStored' /\ KeysWereInstalled'
  BY <1>1, <1>2, <1>4, ForgettingKeys
<1>6. FormerKeysWereDemoted' /\ DemotedKeysAreKept' /\ CachedJWKSIsStored'
  BY <1>2 DEF FormerKeysWereDemoted, DemotedKeysAreKept, CachedJWKSIsStored, Published
<1>7. TransactionsStartWhenDue'
  <2> SUFFICES ASSUME NEW r \in Servers, pc'[r] = "updating"
               PROVE  /\ rot'[r].tNow <= now
                      /\ rot'[r].version <= keys.signing
                      /\ rot'[r].version = keys.signing => keys.next <= rot'[r].tNow
    BY <1>2 DEF TransactionsStartWhenDue
  <2>1. CASE pc[r] = "updating" /\ rot'[r] = rot[r]
    BY <2>1 DEF TransactionsStartWhenDue
  <2>2. CASE ~Fresh(keys) /\ rot'[r] = [tNow |-> now, version |-> keys.signing]
    BY <2>2, <1>3 DEF Fresh
  <2> QED BY <2>1, <2>2 DEF RotateCheck, UpdaterStart, TypeOK, Goroutines
<1> QED BY <1>1, <1>5, <1>6, <1>7

\* The commit of a rotation: the only step that replaces the keys.  It happens
\* when they are due, so nobody holds them as fresh any more; the key it
\* demotes is kept for idTokenValidFor from tNow, and a key that it drops
\* expired before tNow, hence before now.
LEMMA UpdateKeysStep ==
    ASSUME IInv, NEW s \in Servers, UpdateKeys(s)
    PROVE  IInv'
<1> USE DEF IInv
<1>1. TypeOK'
  BY TypeInductive DEF Next, Rotate
<1>2. UNCHANGED <<now, cache, held, tokens, jwks>>
  BY DEF UpdateKeys
<1>3. now \in Nat /\ keys.next \in Nat /\ keys.signing \in Nat /\ rot[s].tNow \in Nat
  BY ConstantsAssumption DEF TypeOK, Keys
<1>4. \A r \in Servers : pc'[r] = "updating" => r # s /\ pc[r] = "updating" /\ rot'[r] = rot[r]
  BY DEF UpdateKeys, TypeOK, Goroutines
<1>5. CASE rot[s].version # keys.signing
  <2>1. UNCHANGED <<keys, demotions>>
    BY <1>5 DEF UpdateKeys
  <2>2. TransactionsStartWhenDue'
    BY <1>2, <1>4, <2>1 DEF TransactionsStartWhenDue
  <2> QED BY <1>1, <1>2, <2>1, <2>2
          DEF FreshKeysAreStored, KeysWereInstalled, FormerKeysWereDemoted,
              DemotedKeysAreKept, CachedJWKSIsStored, Published, Fresh
<1>6. CASE rot[s].version = keys.signing
  <2> DEFINE tNow == rot[s].tNow
             demoted == {keys.signing} \ {NoKey}
  <2>1. tNow <= now /\ keys.next <= tNow
    BY <1>6 DEF TransactionsStartWhenDue, UpdateKeys
  <2>2. /\ keys'.signing = keys.signing + 1
        /\ keys'.verification =
              {v \in keys.verification : tNow <= v.expiry} \cup
              {[key |-> x, expiry |-> tNow + IDTokenValidFor] : x \in demoted}
        /\ demotions' = demotions \cup {[key |-> x, at |-> tNow] : x \in demoted}
    BY <1>6 DEF UpdateKeys, Rotated
  <2>3. FreshKeysAreStored'
    BY <1>2, <1>3, <2>1 DEF FreshKeysAreStored, Fresh
  <2>4. KeysWereInstalled'
    <3>1. \A r \in Servers : cache[r].signing \in Nat
      BY DEF TypeOK, Keys
    <3>2. \A g \in Goroutines : held[g].signing \in Nat
      BY DEF TypeOK, Keys
    <3> QED BY <1>2, <1>3, <2>2, <3>1, <3>2 DEF KeysWereInstalled
  <2>5. FormerKeysWereDemoted'
    <3> SUFFICES ASSUME NEW k \in 1 .. keys'.signing, k # keys'.signing
                 PROVE  \E d \in demotions' : d.key = k
      BY DEF FormerKeysWereDemoted
    <3>1. k \in 1 .. keys.signing
      BY <1>3, <2>2
    <3>2. CASE k = keys.signing
      <4>1. k \in demoted
        BY <3>1, <3>2 DEF NoKey
      <4>2. [key |-> k, at |-> tNow] \in demotions'
        BY <4>1, <2>2
      <4> QED BY <4>2
    <3>3. CASE k # keys.signing
      BY <3>1, <3>3, <2>2 DEF FormerKeysWereDemoted
    <3> QED BY <3>2, <3>3
  <2>6. DemotedKeysAreKept'
    <3> SUFFICES ASSUME NEW d \in demotions', now <= d.at + IDTokenValidFor
                 PROVE  [key |-> d.key, expiry |-> d.at + IDTokenValidFor] \in keys'.verification
      BY <1>2 DEF DemotedKeysAreKept
    <3>1. CASE d \in demotions
      <4>1. [key |-> d.key, expiry |-> d.at + IDTokenValidFor] \in keys.verification
        BY <3>1 DEF DemotedKeysAreKept
      <4>2. d.at \in Nat
        BY <3>1 DEF TypeOK
      <4>3. tNow <= d.at + IDTokenValidFor
        BY <4>2, <1>3, <2>1, ConstantsAssumption
      <4> QED BY <4>1, <4>3, <2>2
    <3>2. CASE d \in {[key |-> x, at |-> tNow] : x \in demoted}
      BY <3>2, <2>2
    <3> QED BY <3>1, <3>2, <2>2
  <2>7. TransactionsStartWhenDue'
    <3> SUFFICES ASSUME NEW r \in Servers, pc'[r] = "updating"
                 PROVE  /\ rot[r].tNow <= now
                        /\ rot[r].version <= keys.signing + 1
                        /\ rot[r].version # keys.signing + 1
      BY <1>2, <1>4, <2>2 DEF TransactionsStartWhenDue
    <3>1. rot[r].tNow <= now /\ rot[r].version <= keys.signing
      BY <1>4 DEF TransactionsStartWhenDue
    <3>2. rot[r].version \in Nat
      BY DEF TypeOK
    <3> QED BY <1>3, <3>1, <3>2
  <2>8. CachedJWKSIsStored'
    <3>1. \A c \in Clients : jwks[c].expires \in Nat
      BY DEF TypeOK, JWKS
    <3> QED BY <1>2, <1>3, <2>1, <3>1 DEF CachedJWKSIsStored
  <2> QED BY <1>1, <2>3, <2>4, <2>5, <2>6, <2>7, <2>8
<1> QED BY <1>5, <1>6

\* newIDToken signs with a key that was installed, and touches no key.
LEMMA NewIDTokenStep ==
    ASSUME IInv, NEW h \in Handlers, NewIDToken(h)
    PROVE  IInv'
<1> USE DEF IInv
<1>1. TypeOK'
  BY TypeInductive DEF Next
<1>2. UNCHANGED <<now, keys, cache, rot, jwks, demotions>>
  BY DEF NewIDToken
<1>3. \A g \in Goroutines : held'[g] \in {held[g], NoKeys}
  BY DEF NewIDToken, Return, TypeOK
<1>4. FreshKeysAreStored'
  BY <1>1, <1>2, <1>3, ForgettingKeys
<1>5. KeysWereInstalled'
  <2>1. keys.signing \in Nat /\ held[h].signing \in Nat /\ held[h].signing <= keys.signing
    BY DEF TypeOK, Keys, Goroutines, KeysWereInstalled
  <2>2. \A t \in tokens' : t.key \in 1 .. keys.signing
    BY <2>1 DEF NewIDToken, KeysWereInstalled, NoKey
  <2>3. \A g \in Goroutines : held'[g].signing <= keys.signing
    BY <1>3, <2>1 DEF KeysWereInstalled, NoKeys, NoKey
  <2> QED BY <1>2, <2>2, <2>3 DEF KeysWereInstalled
<1>6. FormerKeysWereDemoted' /\ DemotedKeysAreKept' /\ CachedJWKSIsStored'
  BY <1>2 DEF FormerKeysWereDemoted, DemotedKeysAreKept, CachedJWKSIsStored, Published
<1>7. TransactionsStartWhenDue'
  BY <1>2 DEF NewIDToken, Return, TransactionsStartWhenDue, TypeOK, Goroutines
<1> QED BY <1>1, <1>4, <1>5, <1>6, <1>7

\* handlePublicKeys announces more than the floor only for keys that are fresh
\* when it answers, hence stored, and until their NextRotation.
LEMMA HandlePublicKeysStep ==
    ASSUME IInv, NEW h \in Handlers, NEW c \in Clients, HandlePublicKeys(h, c)
    PROVE  IInv'
<1> USE DEF IInv
<1>1. TypeOK'
  BY TypeInductive DEF Next
<1>2. UNCHANGED <<now, keys, cache, rot, tokens, demotions>>
  BY DEF HandlePublicKeys
<1>3. \A g \in Goroutines : held'[g] \in {held[g], NoKeys}
  BY DEF HandlePublicKeys, Return, TypeOK
<1>4. FreshKeysAreStored' /\ KeysWereInstalled'
  BY <1>1, <1>2, <1>3, ForgettingKeys
<1>5. FormerKeysWereDemoted' /\ DemotedKeysAreKept'
  BY <1>2 DEF FormerKeysWereDemoted, DemotedKeysAreKept
<1>6. TransactionsStartWhenDue'
  BY <1>2 DEF HandlePublicKeys, Return, TransactionsStartWhenDue, TypeOK, Goroutines
<1>7. CachedJWKSIsStored'
  <2> DEFINE resp == [keys |-> Published(held[h]), fetched |-> now,
                      expires |-> now + MaxAge(held[h])]
  <2> SUFFICES ASSUME NEW d \in Clients,
                      now < jwks'[d].expires,
                      jwks'[d].expires > jwks'[d].fetched + MinMaxAge
               PROVE  jwks'[d].keys = Published(keys) /\ jwks'[d].expires <= keys.next
    BY <1>2 DEF CachedJWKSIsStored, Published
  <2>1. CASE jwks'[d] = jwks[d]
    BY <2>1 DEF CachedJWKSIsStored
  <2>2. CASE jwks'[d] = resp
    <3>1. now \in Nat /\ held[h].next \in Nat /\ MinMaxAge \in Nat
      BY ConstantsAssumption DEF TypeOK, Keys, Goroutines
    <3>2. now + MaxAge(held[h]) > now + MinMaxAge
      BY <2>2
    <3>3. now < held[h].next /\ now + MaxAge(held[h]) = held[h].next
      BY <3>1, <3>2 DEF MaxAge
    <3>4. held[h] = keys
      BY <3>3 DEF FreshKeysAreStored, Fresh, Goroutines
    <3> QED BY <2>2, <3>1, <3>3, <3>4
  <2>3. jwks'[d] = jwks[d] \/ jwks'[d] = resp
    BY DEF HandlePublicKeys, TypeOK
  <2> QED BY <2>1, <2>2, <2>3
<1> QED BY <1>1, <1>4, <1>5, <1>6, <1>7

\* Time only makes fewer keys fresh and more tokens expired.
LEMMA TickStep ==
    ASSUME IInv, Tick
    PROVE  IInv'
<1> USE DEF IInv
<1>1. TypeOK'
  BY TypeInductive DEF Next
<1>2. /\ now \in Nat /\ now' = now + 1
      /\ UNCHANGED <<keys, cache, pc, held, rot, tokens, jwks, demotions>>
  BY ConstantsAssumption DEF Tick, TypeOK
<1>3. FreshKeysAreStored'
  <2>1. \A s \in Servers : cache[s].next \in Nat
    BY DEF TypeOK, Keys
  <2>2. \A g \in Goroutines : held[g].next \in Nat
    BY DEF TypeOK, Keys
  <2> QED BY <1>2, <2>1, <2>2 DEF FreshKeysAreStored, Fresh
<1>4. KeysWereInstalled' /\ FormerKeysWereDemoted'
  BY <1>2 DEF KeysWereInstalled, FormerKeysWereDemoted
<1>5. DemotedKeysAreKept'
  <2>1. \A d \in demotions : d.at + IDTokenValidFor \in Nat
    BY ConstantsAssumption DEF TypeOK
  <2> QED BY <1>2, <2>1 DEF DemotedKeysAreKept
<1>6. TransactionsStartWhenDue'
  <2>1. \A s \in Servers : rot[s].tNow \in Nat
    BY DEF TypeOK
  <2> QED BY <1>2, <2>1 DEF TransactionsStartWhenDue
<1>7. CachedJWKSIsStored'
  <2>1. \A c \in Clients : jwks[c].expires \in Nat
    BY DEF TypeOK, JWKS
  <2> QED BY <1>2, <2>1 DEF CachedJWKSIsStored, Published
<1> QED BY <1>1, <1>3, <1>4, <1>5, <1>6, <1>7

\* Storage errors and restarts only end goroutines and empty a cache.
LEMMA FaultStep ==
    ASSUME IInv,
           \/ \E g \in Goroutines : StorageError(g)
           \/ \E s \in Servers : Restart(s)
    PROVE  IInv'
<1> USE DEF IInv
<1>1. TypeOK'
  BY TypeInductive DEF Next
<1>2. UNCHANGED <<now, keys, rot, tokens, jwks, demotions>>
  BY DEF StorageError, Restart
<1>3. \A g \in Goroutines : held'[g] \in {held[g], NoKeys}
  BY DEF StorageError, Restart, Return, TypeOK
<1>4. \A s \in Servers : cache'[s] \in {cache[s], NoKeys}
  BY DEF StorageError, Restart, TypeOK
<1>5. \A s \in Servers : pc'[s] \in {pc[s], "idle"}
  BY DEF StorageError, Restart, Return, TypeOK, Goroutines
<1>6. FreshKeysAreStored' /\ KeysWereInstalled'
  BY <1>1, <1>2, <1>3, <1>4, ForgettingKeys
<1>7. FormerKeysWereDemoted' /\ DemotedKeysAreKept' /\ CachedJWKSIsStored'
  BY <1>2 DEF FormerKeysWereDemoted, DemotedKeysAreKept, CachedJWKSIsStored, Published
<1>8. TransactionsStartWhenDue'
  BY <1>2, <1>5 DEF TransactionsStartWhenDue
<1> QED BY <1>1, <1>6, <1>7, <1>8

\* Every step of the system preserves the invariant.
LEMMA IInvInductive == IInv /\ [Next]_vars => IInv'
<1> SUFFICES ASSUME IInv, [Next]_vars PROVE IInv'
  OBVIOUS
<1>1. CASE UNCHANGED vars
  BY <1>1 DEF vars, IInv, TypeOK, FreshKeysAreStored, KeysWereInstalled,
              FormerKeysWereDemoted, DemotedKeysAreKept, TransactionsStartWhenDue,
              CachedJWKSIsStored, Fresh, Published
<1>2. CASE Next
  BY <1>2, GetKeysStep, RotateStartStep, UpdateKeysStep, NewIDTokenStep,
     HandlePublicKeysStep, TickStep, FaultStep DEF Next, Rotate
<1> QED BY <1>1, <1>2

\* The invariant holds in every behaviour of KeyRotation.
LEMMA Invariance == Spec => []IInv
BY InitIInv, IInvInductive, PTL DEF Spec

-----------------------------------------------------------------------------
(* What the invariant implies.                                             *)

\* The key of token t is the signing key, or its demotion is not as long ago as
\* an ID Token is valid.
KeyIsKept(t) == \A d \in demotions : d.key = t.key => now <= d.at + IDTokenValidFor

\* A key that is kept is among the published keys of the stored object.
LEMMA KeptKeyIsPublished ==
    ASSUME IInv, NEW t \in tokens, KeyIsKept(t)
    PROVE  t.key \in Published(keys)
<1>1. t.key \in 1 .. keys.signing
  BY DEF IInv, KeysWereInstalled
<1>2. CASE t.key = keys.signing
  BY <1>2 DEF Published
<1>3. CASE t.key # keys.signing
  <2>1. PICK d \in demotions : d.key = t.key
    BY <1>1, <1>3 DEF IInv, FormerKeysWereDemoted
  <2>2. [key |-> d.key, expiry |-> d.at + IDTokenValidFor] \in keys.verification
    BY <2>1 DEF KeyIsKept, IInv, DemotedKeysAreKept
  <2> QED BY <2>1, <2>2 DEF Published
<1> QED BY <1>2, <1>3

\* A live token's key is kept: it is still the signing key, or it was demoted
\* after the token was issued and stays for the token's whole lifetime.
LEMMA LiveTokenIsPublished ==
    ASSUME IInv, NEW t \in tokens, Live(t)
    PROVE  t.key \in Published(keys)
<1> SUFFICES ASSUME NEW d \in demotions, d.key = t.key
             PROVE  now <= d.at + IDTokenValidFor
  BY KeptKeyIsPublished DEF KeyIsKept
<1>1. t.issuedAt <= d.at /\ now <= t.issuedAt + IDTokenValidFor
  BY DEF Live, IssuedBeforeDemotion, Expiry
<1>2. now \in Nat /\ t.issuedAt \in Nat /\ d.at \in Nat
  BY ConstantsAssumption DEF IInv, TypeOK, Token
<1> QED BY <1>1, <1>2, ConstantsAssumption

\* Every token, also one that was issued after the rotation of its key began,
\* can be verified with any server until idTokenValidFor after that rotation.
LateTokensVerifiable ==
    \A t \in tokens : KeyIsKept(t) => \A s \in Servers : t.key \in Published(ServedKeys(s))

\* In every behaviour, a token that newIDToken issues late, with a key that was
\* demoted meanwhile, loses no more of its lifetime than it was late.
THEOREM LateTokensLoseNoMore == Spec => []LateTokensVerifiable
<1>1. IInv => LateTokensVerifiable
  <2> SUFFICES ASSUME IInv, NEW t \in tokens, KeyIsKept(t), NEW s \in Servers
               PROVE  t.key \in Published(ServedKeys(s))
    BY DEF LateTokensVerifiable
  <2>1. ServedKeys(s) = keys
    BY DEF ServedKeys, IInv, FreshKeysAreStored
  <2> QED BY <2>1, KeptKeyIsPublished
<1> QED BY <1>1, Invariance, PTL

\* In every behaviour, every server publishes the key of every unexpired token
\* that was issued before the rotation of its key began.
THEOREM LiveTokensAreVerifiable == Spec => []LiveTokensVerifiable
<1>1. IInv => LiveTokensVerifiable
  <2> SUFFICES ASSUME IInv, NEW t \in tokens, Live(t), NEW s \in Servers
               PROVE  t.key \in Published(ServedKeys(s))
    BY DEF LiveTokensVerifiable
  <2>1. ServedKeys(s) = keys
    BY DEF ServedKeys, IInv, FreshKeysAreStored
  <2> QED BY <2>1, LiveTokenIsPublished
<1> QED BY <1>1, Invariance, PTL

\* In every behaviour, a client that honours a max-age above the floor can
\* verify every such token from its cached key set.
THEOREM CachedJWKSCanVerify == Spec => []CachedJWKSVerifies
<1>1. IInv => CachedJWKSVerifies
  BY LiveTokenIsPublished DEF CachedJWKSVerifies, IInv, CachedJWKSIsStored
<1> QED BY <1>1, Invariance, PTL

\* In every behaviour, no step replaces keys before their NextRotation.
THEOREM KeysChangeOnlyWhenDue == Spec => NoRotationBeforeNextRotation
<1>1. IInv /\ [Next]_vars => [keys' # keys => now >= keys.next]_vars
  <2> SUFFICES ASSUME IInv, Next, keys' # keys PROVE now >= keys.next
    BY DEF vars
  <2>1. PICK s \in Servers : UpdateKeys(s)
    BY DEF Next, GetKeys, LoadCache, ReadStorage, CheckFresh, StoreCache, Rotate,
           RotateCheck, UpdaterStart, NewIDToken, HandlePublicKeys, Tick,
           StorageError, Restart
  <2>2. rot[s].tNow <= now /\ keys.next <= rot[s].tNow
    BY <2>1 DEF UpdateKeys, IInv, TransactionsStartWhenDue
  <2>3. now \in Nat /\ keys.next \in Nat /\ rot[s].tNow \in Nat
    BY ConstantsAssumption DEF IInv, TypeOK, Keys
  <2> QED BY <2>2, <2>3
<1> QED BY <1>1, Invariance, PTL DEF Spec, NoRotationBeforeNextRotation

-----------------------------------------------------------------------------
(* How many verification keys there are.                                   *)

\* Demotions are a rotation period apart, and the keys kept by the last rotation,
\* which read the clock at t, had not expired then.
KeysAreSpaced ==
    /\ \A v, w \in keys.verification : v # w =>
          v.expiry + RotationFrequency <= w.expiry \/ w.expiry + RotationFrequency <= v.expiry
    /\ keys.verification # {} =>
          \E t \in Nat : /\ t + RotationFrequency <= keys.next
                         /\ \A v \in keys.verification :
                               t <= v.expiry /\ v.expiry <= t + IDTokenValidFor

\* Only UpdateKeys, when the keys are due, writes them.
LEMMA OnlyUpdateKeysWrites ==
    ASSUME IInv, [Next]_vars, keys' # keys
    PROVE  \E s \in Servers : /\ UpdateKeys(s)
                              /\ rot[s].version = keys.signing
                              /\ rot[s].tNow <= now /\ keys.next <= rot[s].tNow
<1>1. PICK s \in Servers : UpdateKeys(s)
  BY DEF Next, GetKeys, LoadCache, ReadStorage, CheckFresh, StoreCache, Rotate,
         RotateCheck, UpdaterStart, NewIDToken, HandlePublicKeys, Tick,
         StorageError, Restart, vars
<1>2. rot[s].version = keys.signing
  BY <1>1 DEF UpdateKeys
<1>3. rot[s].tNow <= now /\ keys.next <= rot[s].tNow
  BY <1>1, <1>2 DEF UpdateKeys, IInv, TransactionsStartWhenDue
<1> QED BY <1>1, <1>2, <1>3

\* A rotation keeps what has not expired at tNow, all of which was demoted at
\* least a period before, and adds a key that expires idTokenValidFor from tNow.
LEMMA SpacedInductive == IInv /\ KeysAreSpaced /\ [Next]_vars => KeysAreSpaced'
<1> SUFFICES ASSUME IInv, KeysAreSpaced, [Next]_vars PROVE KeysAreSpaced'
  OBVIOUS
<1>1. CASE keys' = keys
  BY <1>1 DEF KeysAreSpaced
<1>2. CASE keys' # keys
  <2>1. PICK s \in Servers : /\ UpdateKeys(s)
                             /\ rot[s].version = keys.signing
                             /\ rot[s].tNow <= now /\ keys.next <= rot[s].tNow
    BY <1>2, OnlyUpdateKeysWrites
  <2>2. PICK T : T = rot[s].tNow
    OBVIOUS
  <2>3. keys' = Rotated(keys, T, now)
    BY <2>1, <2>2 DEF UpdateKeys
  <2>4. T \in Nat /\ now \in Nat /\ keys.next \in Nat /\ T <= now /\ keys.next <= T
    BY <2>1, <2>2, ConstantsAssumption DEF IInv, TypeOK, Keys
  <2>5. RotationFrequency \in Nat /\ IDTokenValidFor \in Nat
    BY ConstantsAssumption
  <2>6. \A v \in keys.verification : v.expiry \in Nat
    BY DEF IInv, TypeOK, Keys, VerificationKey
  <2>7. keys'.next = now + RotationFrequency
    BY <2>3 DEF Rotated
  <2>8. \A v \in keys'.verification :
            \/ v \in keys.verification /\ T <= v.expiry
            \/ v = [key |-> keys.signing, expiry |-> T + IDTokenValidFor]
    BY <2>3 DEF Rotated
  <2>9. \A v \in keys.verification : v.expiry + RotationFrequency <= T + IDTokenValidFor
    <3> SUFFICES ASSUME NEW v \in keys.verification
                 PROVE  v.expiry + RotationFrequency <= T + IDTokenValidFor
      OBVIOUS
    <3>1. PICK t \in Nat : t + RotationFrequency <= keys.next /\ v.expiry <= t + IDTokenValidFor
      BY DEF KeysAreSpaced
    <3> QED BY <2>4, <2>5, <2>6, <3>1
  <2>10. \A v \in keys'.verification : T <= v.expiry /\ v.expiry <= T + IDTokenValidFor
    BY <2>4, <2>5, <2>6, <2>8, <2>9
  <2>11. T + RotationFrequency <= keys'.next
    BY <2>4, <2>5, <2>7
  <2>12. \A v, w \in keys'.verification : v # w =>
            v.expiry + RotationFrequency <= w.expiry \/ w.expiry + RotationFrequency <= v.expiry
    BY <2>8, <2>9 DEF KeysAreSpaced
  <2> QED BY <2>4, <2>10, <2>11, <2>12 DEF KeysAreSpaced
<1> QED BY <1>1, <1>2

\* Numbers from t to t + w that are at least n apart: each falls into another
\* period of length n.
LEMMA OnePerPeriod ==
    ASSUME NEW n \in Nat \ {0}, NEW w \in Nat, NEW t \in Nat, NEW a \in Nat, NEW b \in Nat,
           t <= a, a <= t + w, t <= b, b <= t + w
    PROVE  /\ (a - t) \div n \in 0 .. w \div n
           /\ a + n <= b \/ b + n <= a => (a - t) \div n # (b - t) \div n
<1>a. \A x, y \in Nat : x <= y => x \div n <= y \div n
  OBVIOUS
<1>b. \A x, y \in Nat : x + n <= y => x \div n < y \div n
  OBVIOUS
<1>c. \A x \in Nat : x \div n \in Nat
  OBVIOUS
<1>1. PICK x \in Nat, y \in Nat : x = a - t /\ y = b - t /\ x <= w
  OBVIOUS
<1>2. x \div n <= w \div n /\ x \div n \in Nat /\ w \div n \in Nat
  BY <1>a, <1>c, <1>1
<1>3. ASSUME a + n <= b \/ b + n <= a PROVE x \div n # y \div n
  <2>1. x + n <= y \/ y + n <= x
    BY <1>1, <1>3
  <2>2. x \div n < y \div n \/ y \div n < x \div n
    BY <1>b, <2>1
  <2> QED BY <1>c, <2>2
<1> QED BY <1>1, <1>2, <1>3

\* In every behaviour, however many servers rotate the keys and however long, the
\* stored object lists no more verification keys than periods fit into the
\* lifetime of an ID Token, and one.
THEOREM VerificationKeysStayBounded == Spec => []VerificationKeysBounded
<1>1. Init => KeysAreSpaced
  BY DEF Init, KeysAreSpaced, NoKeys
<1>2. IInv /\ KeysAreSpaced => VerificationKeysBounded
  <2> SUFFICES ASSUME IInv, KeysAreSpaced PROVE VerificationKeysBounded
    OBVIOUS
  <2>1. PICK n \in Nat : n = IDTokenValidFor \div RotationFrequency
    BY ConstantsAssumption
  <2>2. CASE keys.verification = {}
    <3>1. Cardinality(keys.verification) = 0
      BY <2>2, FS_EmptySet
    <3> QED BY <2>1, <3>1 DEF VerificationKeysBounded
  <2>3. CASE keys.verification # {}
    <3>1. PICK t \in Nat : \A v \in keys.verification :
              t <= v.expiry /\ v.expiry <= t + IDTokenValidFor
      BY <2>3 DEF KeysAreSpaced
    <3>2. \A v \in keys.verification : v.expiry \in Nat
      BY DEF IInv, TypeOK, Keys, VerificationKey
    <3> DEFINE f == [v \in keys.verification |-> (v.expiry - t) \div RotationFrequency]
    <3>3. \A v \in keys.verification : f[v] \in 0 .. n
      BY <2>1, <3>1, <3>2, OnePerPeriod, ConstantsAssumption
    <3>4. \A v, w \in keys.verification : v # w => f[v] # f[w]
      <4> SUFFICES ASSUME NEW v \in keys.verification, NEW w \in keys.verification, v # w
                   PROVE  f[v] # f[w]
        OBVIOUS
      <4>1. \/ v.expiry + RotationFrequency <= w.expiry
            \/ w.expiry + RotationFrequency <= v.expiry
        BY DEF KeysAreSpaced
      <4> QED BY <3>1, <3>2, <4>1, OnePerPeriod, ConstantsAssumption
    <3>5. f \in Injection(keys.verification, 0 .. n)
      <4>1. f \in [keys.verification -> 0 .. n]
        BY <3>3
      <4> HIDE DEF f
      <4> QED BY <3>4, <4>1 DEF Injection, IsInjective
    <3>6. IsFiniteSet(0 .. n) /\ Cardinality(0 .. n) = n + 1
      BY FS_Interval
    <3>7. Cardinality(keys.verification) <= n + 1
      BY <3>5, <3>6, FS_Injection
    <3> QED BY <2>1, <3>7 DEF VerificationKeysBounded
  <2> QED BY <2>2, <2>3
<1> QED BY <1>1, <1>2, SpacedInductive, Invariance, PTL DEF Spec

=============================================================================
