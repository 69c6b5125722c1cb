\* Logins of one new user, with and without a username or with one too long,
\* and a session check, with broken connections and a process that crashes.
CONSTANTS
    Null = Null
    u1 = u1
    name = name
    overlong = overlong
    serviceKey = serviceKey
    ServiceKey = serviceKey
    TgIds = {u1}
    Usernames = {name, overlong}
    Unstorable = {overlong}
    Tokens = {t1, t2, t3}
    Bogus = bogus
    Requests = {r1, r2, r3}
    TokenTtl = 1
    IvLength = 2
    SessionTtl = 1
    InitialTokens = {}
    InitialUsers = {}
    InitialExpiries = {}
    Faults = TRUE
    MaxClock = 0
    Endpoints <- LoginAndCheck
    OauthTokens <- LoginTokens
SYMMETRY SymmetricRequestsAndTokens
SPECIFICATION Spec
INVARIANTS
    CreatedOnce
    ProfileKept
    InternalErrorHasCause
    IssuedSessionDurable
