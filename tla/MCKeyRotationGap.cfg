SPECIFICATION Spec
CONSTANTS
    s1 = s1
    Servers = {s1}
    Handlers = {h1}
    Home <- HandlersOnOne
    Clients = {}
    RotationFrequency = 2
    IDTokenValidFor = 2
    MinMaxAge = 1
    MaxTime = 6
    MaxTokens = 1
    MaxFaults = 0
INVARIANT
    VerificationKeyOutlivesTokens
