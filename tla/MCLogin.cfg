\* A login that is over, or that nobody goes on with, stops.
CHECK_DEADLOCK FALSE
SPECIFICATION Spec
CONSTANTS
    Groups = {"a1", "a2", "b1"}
    Orgs = {"A", "B"}
    OrgOf <- MCOrgOf
    Rank <- MCRank
    IDs = {"u1", "u2"}
    DNs = {"d1", "d2"}
    None = "none"
    MaxChanges = 2
    Connectors <- MCConnectors
    EmailPages = 2
    Values = 2
    AttrOf <- MCAttrOf
    MaxRequests = 2
    ValidFor = 1
    Drift = 1
    MaxTime = 4
    MaxResponses = 1
    Forms <- MCForms
    Clients = {"c1", "c2"}
    Public = {"c2"}
    Supported = {"code", "id_token"}
    Asked <- MCAsked
    NoRequest = NoRequest
    InitialAccounts <- MCAccounts
    InitialHeld <- MCHeld
    PeerSets <- MCPeerSets
    InitialClients <- MCClients
    NoToken = NoToken
INVARIANTS GroupsAsHeld MembershipEnforced OneAccount AudienceTrusts SAMLAnswersRequest
           LateResponsesFail
PROPERTY CallsReturn
