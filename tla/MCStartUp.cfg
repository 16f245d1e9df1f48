SPECIFICATION Spec
CONSTANTS
    Servers = {s1, s2}
    Backends = {"sql", "kubernetes", "etcd"}
    Configs <- MCConfigs
    MaxStops = 1
    migrations = 4
    Resources <- MCResources
    ConnectorIDs = {"c"}
    Handlers = {h1, h2}
    Host <- MCHost
    Driven <- MCDriven
    MaxWrites = 2
INVARIANTS MigrationsInOrder ServesOnCurrentSchema ConnectorAsStored
PROPERTY Settles
CHECK_DEADLOCK FALSE
