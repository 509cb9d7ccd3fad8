\* Compact reaches a compressed record torn by a crash.
SPECIFICATION FairSpec
CONSTANTS
    k1 = k1
    k2 = k2
    k3 = k3
    v1 = v1
    v2 = v2
    quoted = quoted
    None = None
    Keys = {k1, k2}
    PlainKeys = {}
    CompressedKeys = {k1, k2}
    CachedKeys = {}
    Values = {v1, v2}
    Unquote <- AsIs
    Backed = {TRUE}
    MinDirty = 0
    Tears = {"header", "value"}
    Faults = {{}}
    MaxLog = 4
PROPERTIES
    CompactEnds
