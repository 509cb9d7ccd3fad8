\* Another thread, one object with timers, a loop inside a handler.
SPECIFICATION FairSpec
CONSTANTS
    Threads = {t1}
    Keys = {k}
    Post = Post
    None = None
    MaxAdds = 2
    MaxDepth = 2
CHECK_DEADLOCK FALSE
INVARIANTS
    TypeOK
    OnePlace
    RemovedIsGone
    WokenInTime
PROPERTIES
    InOrder
    ImplementsPostedCalls
    PostedRuns
