\* one candidate, a book of two and one, four delegators
SPECIFICATION Spec
CONSTANTS
    c1 = c1
    c2 = c2
    d1 = d1
    d2 = d2
    d3 = d3
    d4 = d4
    CandidateAccounts <- OneCandidate
    DelegatorAccounts <- FourDelegators
    MaxTop = 2
    MaxBottom = 1
    MinCandidateStk = 2
    MinDelegation = 1
    MaxCandidates = 1
    MaxDelegationsPerDelegator = 1
    LeaveCandidatesDelay = 0
    CandidateBondLessDelay = 0
    RevokeDelegationDelay = 0
    DelegationBondLessDelay = 0
    Bonds = {1, 2}
    Amounts = {1, 2, 3}
    Percents = {}
    Rewards = {}
    Payouts <- SomePayouts
    Accuracy = 100
    InitialBalance <- BookFunds
    MaxBalance = 4
    MaxStale = 2
    MaxRound = 1
SYMMETRY FourAlike
INVARIANTS
    TypeOK
    BooksExact
    BothSidesAgree
    TotalNotOverstated
    
PROPERTIES
    SelfBondKeepsMinimum
