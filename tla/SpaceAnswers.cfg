\* A space or search request next to a refresh or a logout of its session, with
\* broken connections and a process that dies.
CONSTANTS
    Null = Null
    ServiceKey = key
    TgIds = {u1}
    Usernames = {}
    Unstorable = {}
    Tokens = {t1}
    Bogus = bogus
    Requests = {r1}
    TokenTtl = 1
    IvLength = 2
    SessionTtl = 1
    InitialTokens = {t1}
    InitialUsers = {u1}
    InitialExpiries = {1}
    Faults = TRUE
    MaxClock = 1
    Endpoints <- LogoutAndRefresh
    OauthTokens = {}
    Jobs = {j1}
    SpaceIds = {s1}
    JobEndpoints <- EndpointsOfJobs
SPECIFICATION FairSpacesSpec
INVARIANT JobServedOnlyIfActive
PROPERTY EveryJobAnswered
