\* Every kind of access token, at every age from 0 to 6.
CONSTANTS
    Null = Null
    TgIds = {user}
    Usernames = {name}
    ServiceKey = serviceKey
    TokenTtl = 3
    IvLength = 3
    Plaintext <- OnePlaintext
    DemoUser = user
    DemoName = name
    WrongTypesTime <- LongAgo
    serviceKey = serviceKey
    otherKey = otherKey
    user = user
    name = name
    Presented <- AllTokens
    MaxAge = 6
SPECIFICATION TokenSpec
INVARIANTS
    AcceptsExactlyGenuine
    ExamplesAsNamed
PROPERTY RefusalIsFinal
