\* One loop, and another thread that posts calls.
SPECIFICATION Spec
CONSTANTS
    Threads = {t1}
    Keys = {k}
    Post = Post
    None = None
    MaxAdds = 2
    MaxDepth = 1
CHECK_DEADLOCK FALSE
INVARIANTS
    NeverOversleeps
