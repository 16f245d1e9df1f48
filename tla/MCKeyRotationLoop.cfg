SPECIFICATION FairSpec
CONSTANTS
    s1 = s1
    Servers = {s1, s2}
    Handlers = {}
    Home <- HandlersOnOne
    Clients = {}
    RotationFrequency = 2
    IDTokenValidFor = 3
    MinMaxAge = 1
    MaxTime = 7
    MaxTokens = 0
    MaxFaults = 1
INVARIANT
    VerificationKeysBounded
PROPERTY
    DueKeysAreRotated
