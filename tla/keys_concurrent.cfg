CONSTANTS
    f1 = f1
    f2 = f2
    k1 = k1
    MinChunkSize = 4
    MaxChunkSize = 8
    TargetChunks = 2
    Powers <- MCPowers
    Word = 256
    MaxFileSize = 16
    Files = {f1, f2}
    ChunkCount <- TwoAndOne
    KeyWrap = 256
    Uploads <- BothWays
    NetKeys = {}
    Sweeps = {".toml"}
    Rewriting = FALSE
    Again = FALSE
    Goroutines = {g1, g2}
    MaxFaults = 1
    MaxCrashes = 1
    NoOne = NoOne
    Absent = Absent
    Cut = Cut
    Broken = Broken
SPECIFICATION FairSpec
INVARIANTS DurableFiles KnownFiles
PROPERTIES ReadsFindStored CallsReturn
