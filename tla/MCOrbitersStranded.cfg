\* two collators, one orbiter too many
SPECIFICATION Spec
CONSTANTS
    c1 = c1
    c2 = c2
    o1 = o1
    o2 = o2
    o3 = o3
    Collators <- TwoCollators
    Orbiters <- TwoOrbiters
    PoolOrder <- OrderOfTwo
    MaxPoolSize = 2
    RotatePeriod = 1
    MaxRoundArchive = 2
    RewardPaymentDelay = 1
    Removable = {}
    MaxRound = 4
SYMMETRY OrbitersAlike
PROPERTIES
    ListedOrbiterTakesOver
