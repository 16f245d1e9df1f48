SPECIFICATION Spec
CONSTANTS
    s1 = s1
    Servers = {s1, s2}
    Handlers = {h1}
    Home <- HandlersOnOne
    Clients = {c1}
    RotationFrequency = 2
    IDTokenValidFor = 2
    MinMaxAge = 1
    MaxTime = 5
    MaxTokens = 1
    MaxFaults = 0
INVARIANTS
    TypeOK
    LiveTokensVerifiable
    CachedJWKSVerifies
PROPERTY
    NoRotationBeforeNextRotation
