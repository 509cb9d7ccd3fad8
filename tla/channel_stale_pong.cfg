SPECIFICATION Spec
CONSTANTS
    Servers = 1
    ServerIds = 1
    Locals <- Nobody
    HasProxy = FALSE
    AutoProxy = FALSE
    MaxAsked = 2
    DnsFails = TRUE
    Stalls = TRUE
    IdleShort = FALSE
    FirstDelays <- OnlyTwo
    Cap = 3
    Jitter = 2
    Restart = 2
    Ids <- MCIds
    Certs <- TwoCerts
    None = None
PROPERTIES
    PongIsForThisChannel
