SPECIFICATION FairSpec
CONSTANTS
    AuthReqs = {a1}
    Empty = Empty
    Connectors = {ldap, github}
    PasswordConnectors = {ldap}
    Configured <- MCConfigured
    None = None
    Handlers = {h1, h2}
    Collectors = {g1}
    g1 = g1
    Running <- MCRunning
    CodeFlow = {a1}
    ReqValidFor = 1
    CodeValidFor = 1
    Backends = {"memory", "sql", "kubernetes"}
    MaxTime = 2
    MaxFaults = 0
INVARIANT CodesNameTheirConnector
