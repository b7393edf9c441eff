SPECIFICATION TenancySpec
CONSTANTS
    q1 = q1
    q2 = q2
    w3 = w3
    u1 = u1
    u2 = u2
    u3 = u3
    x1 = x1
    ApiKeyIds = {u1, u2, u3}
    KeyRoles = {"viewer", "inference"}
    SAccounts = {u3}
    SARoles = {"inference"}
    AccessReqs = {q1, q2}
    TokenTTL = 1
    MaxNow = 2
    LoginStates = {x1}
    Subs = {"alice"}
    LdapUsers = {"bob"}
    Callbacks = {q1, q2}
    SessionTTL = 1
    CacheTTL = 1
    MaxSecond = 2
    LGroups = {"g1", "g2", "g3"}
    LDepth = 1
    DNRole <- MCDNRole
    NameRole <- MCNameRole
    DefaultRole = "none"
    OrgIds = {u1, u2}
    TeamIds = {w3}
    RoleIds = {x1}
    Users = {u3}
    MemberRoles = {x1, "platform_admin"}
    Names = {"s"}
    CustomPerms <- MCCustomPerms
    OrgKeys <- MCOrgKeys
    OrgReqs = {q1, q2}
    PoolIds = {u1, u2}
    PoolNodes = {w3}
    PoolTeams = {u3, x1}
    PoolReqs = {q1, q2}
    PolicyNames = {u1, u2}
    RegoSources = {{u3}}
    PolicyModels = {u3}
    PolicyReqs = {q1, q2}
    AuditEvents = {"deploy"}
    Writers = {q1, q2}
    Procs = {q1, q2}
    ProcOf <- MCProcOf
    InfRequests = {u1, u2}
    KeyHashes = {"k1"}
    MaxAudit = 3
    Limit = 1
    Legacy = 1
    Events <- MCEvents
    BTenants <- MCTenants
    OrgLike <- MCLike
    OrgPrefixes <- MCPrefixes
    Prices <- MCPrices
    Windows <- MCWindows
    TopModels = 1
    SloModels = {u1, u2}
    Global = Global
    SloRows <- MCSloRows
    Default <- MCDefault
    Latencies = {0, 1, 3}
    SloMin = 2
    MaxSloEvents = 3
    MaxApplies = 2
    NoSlo = NoSlo
    Addrs = {"a1"}
    Bearers = {x1, w3}
    InternalTok = w3
    NoBearer = NoBearer
    Unit = 2
    RateRPS = 4
    RateKeyRPS = 1
    IdleFor = 2
    MaxTicks = 4
SYMMETRY Symmetry
INVARIANT Access_CredentialsHold
INVARIANT Sessions_LoginsEnd
INVARIANT LdapGroups_RoleIsDirectorys
INVARIANT Orgs_TenancyIntact
INVARIANT Pools_RowsHold
INVARIANT Policies_EngineIsOneState
INVARIANT Ledger_LogsHold
INVARIANT Billing_ReportsHold
INVARIANT RateLimit_LimitHolds
PROPERTY Access_AnonymousOnlyWithoutKeys
PROPERTY Ledger_ChainSteps
CHECK_DEADLOCK FALSE
