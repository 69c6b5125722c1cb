\* Two space requests and a logout of the session they use, with broken
\* connections and a process that dies, as the session expires.
CONSTANTS
    Null = Null
    ServiceKey = key
    TgIds = {u1, u2}
    Usernames = {}
    Unstorable = {}
    Tokens = {t1}
    Bogus = bogus
    Requests = {r1}
    TokenTtl = 1
    IvLength = 2
    SessionTtl = 1
    InitialTokens = {t1}
    InitialUsers = {u1, u2}
    InitialExpiries = {1}
    Faults = TRUE
    MaxClock = 1
    Endpoints <- LogoutOnly
    OauthTokens = {}
    Jobs = {j1, j2}
    SpaceIds = {s1, s2}
    JobEndpoints <- SpaceOnly
SYMMETRY SymmetricJobsAndUsers
SPECIFICATION SpacesSpec
INVARIANTS
    SpacesTypeOK
    LogoutStopsJobs
    CreatedForSession
    FailureLeavesNothing
    AnsweredSpaceExists
PROPERTY ImplementsRegistry
