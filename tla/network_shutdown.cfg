SPECIFICATION Spec
CONSTANTS
    alice = alice
    bob = bob
    rlock = rlock
    clock = clock
    NoOne = NoOne
    NoLock = NoLock
    Absent = Absent
    AppLocks <- MCAppLocks
    Services <- MCServices
    Router <- MCRouter
    Again = FALSE
    Packets <- OnePacket
    MaxStarts = 1
    MaxStops = 1
    MaxRegistrations = 0
PROPERTY StopIsGraceful
CHECK_DEADLOCK FALSE
