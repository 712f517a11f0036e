SPECIFICATION Spec
CONSTANTS
    CallTypes = {"call", "staticcall"}
    Reasons = {"succeed", "error"}
    MaxTransactions = 3
    MaxFrames = 5
INVARIANTS
    TracesMatchExecution
CHECK_DEADLOCK FALSE
