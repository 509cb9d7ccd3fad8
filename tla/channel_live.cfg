\* Two servers and a proxy; the chain's timers fire.
SPECIFICATION FairSpec
CONSTANTS
    Servers = 2
    ServerIds = 2
    Locals <- Nobody
    HasProxy = TRUE
    AutoProxy = FALSE
    MaxAsked = 2
    DnsFails = FALSE
    Stalls = TRUE
    IdleShort = FALSE
    FirstDelays <- OnlyTwo
    Cap = 2
    Jitter = 1
    Restart = 2
    Ids <- MCIds
    Certs <- OneCert
    None = None
PROPERTIES
    EveryServerTried
    DeadPeerNoticed
    TriesAgain
