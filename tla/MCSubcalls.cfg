\* batches of up to two calls, permits for two nonces, two transactions; a transaction has the
\* gas for a call below a batch below a permit below a batch, and for two dispatches in one
\* batch.  The system stops after its last transaction.
SPECIFICATION Spec
CONSTANTS
    TxGas = 7
    LogCost = 1
    CallCost = 1
    DispatchCost = 1
    Limits <- NoLimitOrThree
    PermitLimits <- OneOrThree
    MaxCalls = 2
    MaxTxs = 2
    MaxNonce = 2
INVARIANTS
    BatchesKeepTheirWord
    LogsTellTheTruth
    ReserveSuffices
    PermitsSpentOnce
    NamesAreLent
CHECK_DEADLOCK FALSE
