SPECIFICATION Spec
CONSTANTS
    a = a
    b = b
    k1 = k1
    k2 = k2
    k3 = k3
    Clients = {a, b}
    Codes = {k1, k2, k3}
    OfflineCodes = {k1, k2, k3}
    Exchanges = {1, 2, 3, 4}
    Refreshes = {11, 12}
    Revocations = {21}
    Code <- MCCode
    Client <- MCClient
    None = None
    Scenarios <- MCScenarios
    MaxFaults = 1
INVARIANTS TypeOK CodeRedeemedOnce RefreshTokenClaimedOnce UnreferencedTokensAreDead
           StoredTokensAreKnown ReferencesResolve
PROPERTIES ReferencesAreIndependent RevocationIsFinal OneTokenIfApart
CHECK_DEADLOCK FALSE
