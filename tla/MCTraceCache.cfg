\* two requests that may end early, a replay that may fail, one permit
SPECIFICATION Spec
CONSTANTS
    c1 = c1
    c2 = c2
    Clients = {c1, c2}
    BlocksOf <- PairRanges
    Limited = {c1, c2}
    Fragile = {2}
    Permits = 1
INVARIANTS
    TypeOK
    CacheExact
    NobodyForgotten
PROPERTIES
    RequestsEnd
    CacheEmptied
