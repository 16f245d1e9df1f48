SPECIFICATION Spec
CONSTANTS
    a = a
    b = b
    k1 = k1
    k2 = k2
    k3 = k3
    Clients = {a, b}
    Codes = {k1, k2, k3}
    OfflineCodes = {k1, k2, k3}
    Exchanges = {1, 2, 4}
    Refreshes = {}
    Revocations = {21}
    Code <- MCCode
    Client <- MCClient
    None = None
    Scenarios <- LoginScenarios
    MaxFaults = 0
INVARIANT OneRefreshTokenPerClient
CHECK_DEADLOCK FALSE
