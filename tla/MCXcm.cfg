\* two siblings, three locations, two messages of four instructions
SPECIFICATION Spec
CONSTANTS
    p = p
    q = q
    derived = derived
    treasury = treasury
    Accounts = {p, q, derived, treasury}
    Paras = {p, q}
    AssetIds = {1, 2}
    Locations = {"p1", "p2", "q1"}
    ParaOf <- ParaOfLocation
    MaxForeignAssets = 2
    ForeignAssetCreationDeposit = 1
    NativeLocation = "native"
    FeeLocations = {"p1"}
    RelativePriceUnit = 2
    MaxAmount = 3
    Erc20 = "erc20"
    XcmFeesAccount = treasury
    DerivedOf <- Derived
    Senders = {p, q}
    Bundles <- SomeBundles
    Prices = {1}
    MaxWeight = 2
    MaxCalls = 1
    MaxMessages = 2
    MaxInstructions = 5
    Recipients = {derived}
    InitAssets <- OneAsset
    InitSupported <- OnePrice
    InitErc20 <- Erc20Holders
INVARIANTS
    AssetsConsistent
    TokensConserved
    NotesMatchHolding
PROPERTIES
    SiblingsKeepTheirAssets
    
CHECK_DEADLOCK FALSE
