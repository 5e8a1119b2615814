SPECIFICATION FairSpec
CONSTANTS
    Thread = {t1, t2}
    Chain <- MCChain
    Threshold <- MCThreshold
    RepairFastCpu = TRUE
    PostprocessorAdds = TRUE
    Request <- MCRequest
    MaxRequests = 2
    None = None
INVARIANTS
    BatchAsRows
    LedgerExact
PROPERTY
    RequestReturns
CHECK_DEADLOCK FALSE
