\* Two servers, one of them found by discovery; a proxy and the proxy helper.
SPECIFICATION Spec
CONSTANTS
    Servers = 2
    ServerIds = 1
    Locals <- First
    HasProxy = TRUE
    AutoProxy = TRUE
    MaxAsked = 2
    DnsFails = TRUE
    Stalls = TRUE
    IdleShort = TRUE
    FirstDelays <- OnlyTwo
    Cap = 3
    Jitter = 2
    Restart = 2
    Ids <- MCIds
    Certs <- TwoCerts
    None = None
INVARIANTS
    TypeOK
    OneChannel
    AuthenticatedHere
    CommandsFromServer
    ToldTruth
    NeverIdle
PROPERTIES
    StopsForGood
