SPECIFICATION FairSpec
CONSTANTS
    AuthReqs = {a1}
    Empty = Empty
    Connectors = {ldap, github}
    PasswordConnectors = {ldap}
    Configured <- MCConfigured
    None = None
    Handlers = {h1, h2}
    Collectors = {g1, g2}
    g1 = g1
    Running <- MCRunning
    CodeFlow = {a1}
    ReqValidFor = 0
    CodeValidFor = 0
    Backends = {"memory", "sql", "kubernetes", "etcd"}
    MaxTime = 2
    MaxFaults = 1
INVARIANTS TypeOK OneResponsePerRequest CodesNameOnlyConnector
PROPERTIES OnlyExpiredAreCollected ExpiredAreCollected
