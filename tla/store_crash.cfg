\* Plain values and cached settings, crashes anywhere, no failing file operations.
SPECIFICATION FairSpec
CONSTANTS
    k1 = k1
    k2 = k2
    k3 = k3
    v1 = v1
    v2 = v2
    quoted = quoted
    None = None
    Keys = {k1, k2, k3}
    PlainKeys = {k1, k2}
    CompressedKeys = {}
    CachedKeys = {k3}
    Values = {v1, quoted}
    Unquote <- StripsQuotes
    Backed = {TRUE}
    MinDirty = 1
    Tears = {"header", "value"}
    Faults = {{}}
    MaxLog = 5
INVARIANTS
    TypeOK
    ReadsAsTold
PROPERTIES
    ImplementsKVStore
    CompactEnds
