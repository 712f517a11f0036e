\* two collators of two stakes; governance moves the round length and the number of places
SPECIFICATION Spec
CONSTANTS
    Collators = {1, 2}
    Stakes = {1, 2}
    RewardPaymentDelay = 2
    MaxOfflineRounds = 1
    MinSelectedCandidates = 1
    MinBlocksPerRound = 2
    MaxCandidates = 2
    Lengths = {3, 4}
    GenesisLength = 3
    GenesisSelected = 2
    GovernanceActs = TRUE
    MaxRound = 4
INVARIANTS
    TypeOK
    SelectedHaveSnapshots
    PaymentsExact
    InactivityRecords
    AllPaid
PROPERTIES
    PredictionIsExact
