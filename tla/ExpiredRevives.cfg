\* A refresh in flight while two checks of the same session come and go.
CONSTANTS
    Null = Null
    u1 = u1
    name = name
    overlong = overlong
    serviceKey = serviceKey
    ServiceKey = serviceKey
    TgIds = {u1}
    Usernames = {name, overlong}
    Unstorable = {overlong}
    Tokens = {t1}
    Bogus = bogus
    Requests = {r1, r2, r3}
    TokenTtl = 1
    IvLength = 2
    SessionTtl = 2
    InitialTokens = {t1}
    InitialUsers = {u1}
    InitialExpiries = {1, 2}
    Faults = FALSE
    MaxClock = 3
    Endpoints <- BearerEndpoints
    OauthTokens = {}
SYMMETRY SymmetricRequests
SPECIFICATION Spec
INVARIANT ExpiredIsFinal
