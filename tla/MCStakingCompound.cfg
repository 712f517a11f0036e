\* rewards compounded into delegations of a full book
SPECIFICATION Spec
CONSTANTS
    c1 = c1
    c2 = c2
    d1 = d1
    d2 = d2
    d3 = d3
    d4 = d4
    CandidateAccounts <- OneCandidate
    DelegatorAccounts <- ThreeDelegators
    MaxTop = 1
    MaxBottom = 1
    MinCandidateStk = 1
    MinDelegation = 1
    MaxCandidates = 1
    MaxDelegationsPerDelegator = 1
    LeaveCandidatesDelay = 0
    CandidateBondLessDelay = 0
    RevokeDelegationDelay = 0
    DelegationBondLessDelay = 0
    Bonds = {1}
    Amounts = {1, 2}
    Percents = {50}
    Rewards = {1, 2}
    Payouts <- NoPayouts
    Accuracy = 100
    InitialBalance <- CompoundFunds
    MaxBalance = 4
    MaxStale = 1
    MaxRound = 1
SYMMETRY ThreeAlike
INVARIANTS
    NothingOutlives
