\* two collators whose pools may share orbiters, three orbiters, a rotation every two rounds;
\* governance may remove the second collator and add it again
SPECIFICATION Spec
CONSTANTS
    c1 = c1
    c2 = c2
    o1 = o1
    o2 = o2
    o3 = o3
    Collators <- TwoCollators
    Orbiters <- ThreeOrbiters
    PoolOrder <- OrderOfTwo
    MaxPoolSize = 2
    RotatePeriod = 2
    MaxRoundArchive = 2
    RewardPaymentDelay = 1
    Removable <- SecondCollator
    MaxRound = 4
SYMMETRY OrbitersAlike
INVARIANTS
    StorageSound
    LockedOutHasStandIn
    RewardFollowsWork
PROPERTIES
    TurnsKept
    SoleOrbiterTakesOver
