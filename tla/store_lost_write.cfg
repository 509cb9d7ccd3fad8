\* The disk is full, and only the flush notices.
SPECIFICATION Spec
CONSTANTS
    k1 = k1
    k2 = k2
    k3 = k3
    v1 = v1
    v2 = v2
    quoted = quoted
    None = None
    Keys = {k1, k2}
    PlainKeys = {k1, k2}
    CompressedKeys = {}
    CachedKeys = {}
    Values = {v1, v2}
    Unquote <- AsIs
    Backed = {TRUE}
    MinDirty = 1
    Tears = {"header", "value"}
    Faults = {{"write", "flush"}}
    MaxLog = 4
PROPERTIES
    FailedWriteIsCached
