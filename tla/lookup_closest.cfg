SPECIFICATION Spec
CONSTANTS
    KeyBits = 3
    K = 2
    LocalID <- MCLocalID
    Alpha = 2
    Others <- MCOthers
    Bootstrap <- MCBootstrap
    Dead = {}
    Worlds <- MCWorlds
    Calls <- MCCalls
    PingTries = 2
    MaxCalls = 1
    MaxTimeouts = 0
INVARIANT ClosestReturned
CHECK_DEADLOCK FALSE
