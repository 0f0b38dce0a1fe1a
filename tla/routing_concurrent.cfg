SPECIFICATION Spec
CONSTANTS
    KeyBits = 3
    K = 2
    LocalID <- MCLocalID
    Contacts <- MCMoved
    Removable <- MCRemovable
    Targets <- MCTargets
    Goroutines = {g1, g2}
    g1 = g1
    g2 = g2
    NoOne = NoOne
SYMMETRY MCSymmetry
INVARIANTS
    TypeOK
    BucketOrder
    Placement
    LocalStays
    UniqueIds
    Capacity
    LocksHeld
    SettledInsertsLand
    QuietContactsReturned
PROPERTIES
    SplitKeepsContacts
    SettledUpdateTakesEffect
