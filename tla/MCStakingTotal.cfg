\* the total against what is locked: two delegators of two candidates
SPECIFICATION Spec
CONSTANTS
    c1 = c1
    c2 = c2
    d1 = d1
    d2 = d2
    d3 = d3
    d4 = d4
    CandidateAccounts <- TwoCandidates
    DelegatorAccounts <- TwoDelegators
    MaxTop = 1
    MaxBottom = 1
    MinCandidateStk = 1
    MinDelegation = 1
    MaxCandidates = 2
    MaxDelegationsPerDelegator = 2
    LeaveCandidatesDelay = 1
    CandidateBondLessDelay = 1
    RevokeDelegationDelay = 1
    DelegationBondLessDelay = 1
    Bonds = {1}
    Amounts = {1, 2}
    Percents = {}
    Rewards = {}
    Payouts <- NoPayouts
    Accuracy = 100
    InitialBalance <- RequestFunds
    MaxBalance = 3
    MaxStale = 1
    MaxRound = 2
SYMMETRY TwoAlike
INVARIANT
    TotalExact
