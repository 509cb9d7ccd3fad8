SPECIFICATION FairSpec
CONSTANTS
    Threads = {t1}
    Chain = chain
    None = none
    Writes <- PairOrEmpty
    MaxConns = 2
    MaxBuffers = 2
    MaxNest = 1
INVARIANTS TypeOK StreamWhole TellsTruth WakesToSend
PROPERTIES Settles
