SPECIFICATION FairSpec
CONSTANTS
    KeyBits = 3
    K = 2
    LocalID <- MCLocalID
    Alpha = 2
    Others <- MCOthers
    Bootstrap <- MCBootstrap
    Dead <- MCDead
    Worlds <- MCWorlds
    Calls <- MCCalls
    PingTries = 3
    MaxCalls = 2
    MaxTimeouts = 1
INVARIANTS TypeOK ResultIsHead TablesKeepUp JoinIntegrates
PROPERTIES CallsReturn
CHECK_DEADLOCK FALSE
