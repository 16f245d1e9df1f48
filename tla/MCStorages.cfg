SPECIFICATION Spec
CONSTANTS
    Procs = {p1, p2}
    Names <- MCNames
    NoName = NoName
    LowerCase <- MCLowerCase
    NoObject = NoObject
    MaxLate <- MCMaxLate
    SessionHash <- MCSessionHash
    Backends = {"memory", "etcd", "kubernetes", "postgres", "sqlite3"}
    UsedKinds = {"AuthRequest", "AuthCode", "RefreshToken", "Client", "Password", "OfflineSessions", "Connector", "Keys"}
    UsedNames <- MCUsedNames
INVARIANT HeldByCallInProgress
PROPERTY ImplementsContract
SYMMETRY Symmetry
CHECK_DEADLOCK FALSE
