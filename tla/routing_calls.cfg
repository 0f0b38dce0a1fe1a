SPECIFICATION MCSpec
CONSTANTS
    KeyBits = 3
    K = 2
    LocalID <- MCLocalID
    Contacts <- MCMoving
    Removable <- MCRemovables
    Targets <- MCTargets
    Goroutines = {g1, g2}
    g1 = g1
    g2 = g2
    NoOne = NoOne
PROPERTIES
    PromiseAlone
    CallsReturn
