\* Keys stored plain and compressed, failing operations, torn records, with and
\* without a file, a setting that covers a key.
SPECIFICATION Spec
CONSTANTS
    k1 = k1
    k2 = k2
    k3 = k3
    v1 = v1
    v2 = v2
    quoted = quoted
    None = None
    Keys = {k1, k2}
    PlainKeys = {k1, k2}
    CompressedKeys = {k2}
    CachedKeys = {k1}
    Values = {v1, quoted}
    Unquote <- StripsQuotes
    Backed = {TRUE, FALSE}
    MinDirty = 0
    Tears = {"header", "value"}
    Faults <- FailingTogether
    MaxLog = 3
INVARIANTS
    IndexMatchesFile
    ReadsAsTold
    NeverStale
PROPERTIES
    PutIsRead
    PutIsDurable
    NothingLost
