CONSTANTS
    f1 = f1
    f2 = f2
    k1 = k1
    MinChunkSize = 4
    MaxChunkSize = 8
    TargetChunks = 2
    Powers <- MCPowers
    Word = 256
    MaxFileSize = 16
    Files = {f1, f2}
    ChunkCount <- TwoAndOne
    KeyWrap = 256
    Uploads <- BothWays
    NetKeys = {k1}
    Sweeps <- AllSweeps
    Rewriting = TRUE
    Again = FALSE
    Goroutines = {g1}
    MaxFaults = 1
    MaxCrashes = 2
    NoOne = NoOne
    Absent = Absent
    Cut = Cut
    Broken = Broken
SPECIFICATION Spec
INVARIANTS TypeOK DurableFiles KnownFiles
PROPERTIES ReadsFindStored FailedStoreUndone NoOrphansLeft Promise
