CONSTANTS
    f1 = f1
    f2 = f2
    k1 = k1
    MinChunkSize = 4
    MaxChunkSize = 8
    TargetChunks = 2
    Powers <- MCPowers
    Word = 256
    MaxFileSize = 16
    Files <- FirstFile
    ChunkCount <- OneOnly
    KeyWrap = 256
    Uploads <- LoadFirst
    NetKeys = {}
    Sweeps = {}
    Rewriting = FALSE
    Again = TRUE
    Goroutines = {g1}
    MaxFaults = 1
    MaxCrashes = 0
    NoOne = NoOne
    Absent = Absent
    Cut = Cut
    Broken = Broken
SPECIFICATION Spec
PROPERTY ReadsFindStored
