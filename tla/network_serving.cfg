SPECIFICATION FairSpec
CONSTANTS
    alice = alice
    bob = bob
    rlock = rlock
    clock = clock
    NoOne = NoOne
    NoLock = NoLock
    Absent = Absent
    AppLocks <- MCAppLocks
    Services <- MCServices
    Router <- MCRouter
    Again = FALSE
    Packets <- MCPackets
    MaxStarts = 2
    MaxStops = 2
    MaxRegistrations = 1
INVARIANTS TypeOK RegisteredStay NotedBeforeReply
PROPERTIES ShutdownDrains PacketsSettle
CHECK_DEADLOCK FALSE
