\* Every kind of setting; core modules that inflate and one that does not.
SPECIFICATION Spec
CONSTANTS
    Cores = {c1, c2, bad}
    BadCores = {bad}
    None = None
    Setups <- MCSetups
    Blocks = 2
    MaxUnzips = 2
CHECK_DEADLOCK FALSE
INVARIANTS
    TypeOK
    NoStaleTimeout
    OneCorePerHeap
    ProgramIntact
    
PROPERTIES
    ReportedCoreRuns
    StoredCoreRuns
    WantedCoreRuns
