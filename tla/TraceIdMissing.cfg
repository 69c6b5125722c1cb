\* A request whose handler, or whose connection, ends in an unexpected exception.
CONSTANTS
    Null = Null
    ClientIds = {t1, h1}
    UuidHexes = {h1, h2}
    Origins = {page, other}
    Star = Star
    Clients = {client1}
    Requests = {r1, r2}
    Conns = {c1}
    RootLimit = 1
    MaxStarts = 2
    page = page
    other = other
    t1 = t1
    h1 = h1
    client1 = client1
    Inputs <- EveryWay
    Environments <- ThreeEnvironments
SPECIFICATION ServerSafety
INVARIANT TraceIdOnEveryError
