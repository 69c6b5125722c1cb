\* Two requests to any endpoints, with broken connections and a process that
\* crashes, over a database that holds one user and one session.
CONSTANTS
    Null = Null
    u1 = u1
    name = name
    overlong = overlong
    serviceKey = serviceKey
    ServiceKey = serviceKey
    TgIds = {u1}
    Usernames = {name, overlong}
    Unstorable = {overlong}
    Tokens = {t1, t2, t3}
    Bogus = bogus
    Requests = {r1, r2}
    TokenTtl = 1
    IvLength = 2
    SessionTtl = 1
    InitialTokens = {t1}
    InitialUsers = {u1}
    InitialExpiries = {1}
    Faults = TRUE
    MaxClock = 2
    Endpoints <- AllEndpoints
    OauthTokens <- LoginTokens
SPECIFICATION FairSpec
INVARIANTS
    LoginRecordedUnlessOverlapped
    DocumentedAnswers
PROPERTY EveryRequestAnswered
