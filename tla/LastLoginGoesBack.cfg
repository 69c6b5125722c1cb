\* Two logins of one user, nothing broken.
CONSTANTS
    Null = Null
    u1 = u1
    name = name
    overlong = overlong
    serviceKey = serviceKey
    ServiceKey = serviceKey
    TgIds = {u1}
    Usernames = {name, overlong}
    Unstorable = {overlong}
    Tokens = {t1, t2, t3}
    Bogus = bogus
    Requests = {r1, r2}
    TokenTtl = 1
    IvLength = 2
    SessionTtl = 1
    InitialTokens = {}
    InitialUsers = {}
    InitialExpiries = {}
    Faults = FALSE
    MaxClock = 1
    Endpoints <- LoginAndCheck
    OauthTokens <- LoginTokens
SYMMETRY SymmetricRequestsAndTokens
SPECIFICATION Spec
INVARIANT LastLoginIsLatest
