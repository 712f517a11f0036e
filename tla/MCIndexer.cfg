\* four blocks on two branches, one crash
SPECIFICATION IndexerSpec
CONSTANTS
    owner = owner
    node1 = node1
    node2 = node2
    Accounts = {owner, node1, node2}
    Owner = owner
    FirstMaster = node1
    Payloads <- AllPayloads
    StartHeight = 2
    MaxBlocks = 4
    MaxSwitches = 1
    MaxCrashes = 1
    MaxBatch = 2
INVARIANTS
    TablesMirrorContract

    
CHECK_DEADLOCK FALSE
